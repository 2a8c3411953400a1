---------------------------- MODULE EventLogProofs ----------------------------
(***************************************************************************)
(* Proofs about EventLog, for every bufferSize, every set of conversations *)
(* and consumers, and any number of publications.                          *)
(***************************************************************************)
EXTENDS EventLog, SequenceTheorems, TLAPS

LEMMA EnvelopeFields ==
    ASSUME NEW c, NEW n
    PROVE  /\ Envelope(c, n).conversationId = c
           /\ Envelope(c, n).type = "event"
           /\ Envelope(c, n).seq = n
           /\ Envelope(c, n).missed = 0
           /\ c \in Conversations /\ n \in Nat => Envelope(c, n) \in Envelopes
BY DEF Envelope, Envelopes

(* The filter of since() keeps a suffix of the buffer whose length is the  *)
(* number of retained envelopes after n.                                   *)
Kept(c, n) ==
    IF n + Len(buffers[c]) < seqs[c] THEN Len(buffers[c])
    ELSE IF n <= seqs[c] THEN seqs[c] - n ELSE 0

(* Retained(c, n), the backlog of a subscription (since, line 52), is the  *)
(* last Kept(c, n) envelopes of the conversation.                          *)
LEMMA RetainedIsSuffix ==
    ASSUME TypeOK, BufferIsSuffix, NEW c \in Conversations, NEW n \in Nat
    PROVE  /\ Retained(c, n) \in Seq(Envelopes)
           /\ Len(Retained(c, n)) = Kept(c, n)
           /\ Kept(c, n) \in 0..Len(buffers[c])
           /\ \A i \in 1..Kept(c, n) :
                 Retained(c, n)[i] = Envelope(c, seqs[c] - Kept(c, n) + i)
<1> DEFINE b == buffers[c]
           L == Len(b)
           s == seqs[c]
           k == Kept(c, n)
           kept == {i \in 1..L : b[i].seq > n}
<1>1. /\ b \in Seq(Envelopes) /\ L \in Nat /\ s \in Nat /\ L <= s
      /\ bufferSize \in Nat
      /\ \A i \in 1..L : b[i] = Envelope(c, s - L + i)
  BY SizeAssumption DEF TypeOK, BufferIsSuffix
<1>2. \A i \in 1..L : b[i].seq = s - L + i
  BY <1>1, EnvelopeFields
<1>3. k \in 0..L
  BY <1>1 DEF Kept
<1>4. kept = (L - k + 1)..L
  <2>1. ASSUME NEW i \in 1..L PROVE b[i].seq > n <=> i >= L - k + 1
    BY <1>1, <1>2, <1>3, SMTT(30) DEF Kept
  <2> QED BY <2>1, <1>1, <1>3
<1> HIDE DEF b, L, s, k, kept
<1>5. CASE k = 0
  <2>1. kept = {}
    BY <1>1, <1>4, <1>5
  <2>2. Retained(c, n) = <<>>
    BY <2>1 DEF Retained, FromFirst, kept, L, b
  <2> QED BY <2>2, <1>1, <1>3, <1>5, EmptySeq DEF k, L, b
<1>6. CASE k # 0
  <2> DEFINE m == CHOOSE i \in kept : \A j \in kept : i <= j
             r == SubSeq(b, L - k + 1, L)
  <2>1. m = L - k + 1
    <3>1. /\ L - k + 1 \in kept
          /\ \A j \in kept : L - k + 1 <= j
      BY <1>1, <1>3, <1>4, <1>6
    <3>2. ASSUME NEW i \in kept, \A j \in kept : i <= j PROVE i = L - k + 1
      <4>1. i <= L - k + 1
        BY <3>1, <3>2
      <4>2. i \in Int /\ i >= L - k + 1
        BY <1>1, <1>3, <1>4
      <4> QED BY <4>1, <4>2, <1>1, <1>3
    <3> QED BY <3>1, <3>2
  <2>2. Retained(c, n) = r
    <3>1. L - k + 1 \in kept
      BY <1>1, <1>3, <1>4, <1>6
    <3>2. Retained(c, n) = IF kept = {} THEN <<>> ELSE SubSeq(b, m, L)
      BY DEF Retained, FromFirst, kept, L, b
    <3> QED BY <2>1, <3>1, <3>2
  <2>3. /\ r \in Seq(Envelopes)
        /\ Len(r) = k
        /\ \A i \in 1..k : r[i] = b[L - k + i]
    BY <1>1, <1>3, <1>6, SubSeqProperties DEF L
  <2>4. \A i \in 1..k : r[i] = Envelope(c, s - k + i)
    BY <2>3, <1>1, <1>3
  <2> QED BY <2>2, <2>3, <2>4, <1>3 DEF k, L, b, s
<1> QED BY <1>5, <1>6

(* So since() returns what a filter of the buffer returns, and counts the   *)
(* rest as missed.                                                          *)
LEMMA SinceExact == TypeOK /\ BufferIsSuffix => SinceIsExact
<1> SUFFICES ASSUME TypeOK, BufferIsSuffix, NEW c \in Conversations, NEW n \in 0..seqs[c]
             PROVE  LET since == Retained(c, n)
                    IN /\ {since[i] : i \in 1..Len(since)} =
                             {buffers[c][i] : i \in {j \in 1..Len(buffers[c]) : buffers[c][j].seq > n}}
                       /\ \A i, j \in 1..Len(since) : i < j => since[i].seq < since[j].seq
                       /\ n > 0 => Len(since) + Missed(c, n) = seqs[c] - n
  BY DEF SinceIsExact
<1> DEFINE b == buffers[c]
           L == Len(b)
           s == seqs[c]
           k == Kept(c, n)
           r == Retained(c, n)
<1>1. /\ L \in Nat /\ s \in Nat /\ n \in Nat /\ n <= s /\ L <= s
      /\ bufferSize \in Nat /\ (s > 0 /\ bufferSize > 0 => L > 0)
      /\ L = IF s < bufferSize THEN s ELSE bufferSize
      /\ \A i \in 1..L : b[i] = Envelope(c, s - L + i)
  BY SizeAssumption DEF TypeOK, BufferIsSuffix
<1>2. Len(r) = k /\ k \in 0..L /\ \A i \in 1..k : r[i] = Envelope(c, s - k + i)
  BY <1>1, RetainedIsSuffix
<1>3. /\ \A i \in 1..L : b[i].seq = s - L + i
      /\ \A i \in 1..k : r[i].seq = s - k + i
  <2> HIDE DEF b, L, s, k, r
  <2>1. ASSUME NEW i \in 1..L PROVE b[i].seq = s - L + i
    BY <1>1, EnvelopeFields
  <2>2. ASSUME NEW i \in 1..k PROVE r[i].seq = s - k + i
    BY <1>2, EnvelopeFields
  <2> QED BY <2>1, <2>2
<1>4. k = IF n + L < s THEN L ELSE s - n
  BY <1>1 DEF Kept
<1>5. Missed(c, n) = IF n > 0 /\ n < s - L THEN s - L - n ELSE 0
  <2>1. OldestSeq(c) = s - L + 1
    <3>1. CASE b = <<>>
      BY <3>1, <1>1 DEF OldestSeq
    <3>2. CASE b # <<>>
      <4>1. 1 \in 1..L
        BY <3>2, <1>1, EmptySeq DEF TypeOK
      <4> QED BY <3>2, <4>1, <1>1, <1>3 DEF OldestSeq
    <3> QED BY <3>1, <3>2
  <2> QED BY <2>1, <1>1 DEF Missed
<1> HIDE DEF b, L, s, k, r
<1>6. {r[i] : i \in 1..Len(r)} = {b[i] : i \in {j \in 1..L : b[j].seq > n}}
  <2>1. ASSUME NEW i \in 1..k
        PROVE  i + (L - k) \in {j \in 1..L : b[j].seq > n} /\ r[i] = b[i + (L - k)]
    <3>1. i + (L - k) \in 1..L /\ s - L + (i + (L - k)) = s - k + i
      BY <1>1, <1>2
    <3>2. s - k + i > n
      BY <1>1, <1>2, <1>4
    <3> QED BY <3>1, <3>2, <1>1, <1>2, <1>3, ZenonT(60)
  <2>2. ASSUME NEW j \in 1..L, b[j].seq > n
        PROVE  j - (L - k) \in 1..k /\ b[j] = r[j - (L - k)]
    <3>1. s - L + j > n
      BY <2>2, <1>3
    <3>2. j - (L - k) \in 1..k /\ s - k + (j - (L - k)) = s - L + j
      BY <3>1, <1>1, <1>2, <1>4
    <3> QED BY <3>2, <1>1, <1>2
  <2> QED BY <2>1, <2>2, <1>2
<1>7. \A i, j \in 1..Len(r) : i < j => r[i].seq < r[j].seq
  BY <1>1, <1>2, <1>3
<1>8. n > 0 => Len(r) + Missed(c, n) = s - n
  BY <1>1, <1>2, <1>4, <1>5
<1> QED BY <1>6, <1>7, <1>8 DEF b, L, s, r

-----------------------------------------------------------------------------
(* The strengthening of FeedIsComplete that is inductive: a gap announces   *)
(* what follows the consumer's cursor, the loop is reached only when the    *)
(* backlog is used up, and no consumer is ahead of its conversation.        *)
Shape(w) ==
    /\ Listening(w) /\ pc[w] # "backlog" => backlog[w] = <<>>
    /\ Listening(w) /\ GapIsFirst(w) => backlog[w][1].seq = cursor[w]
    /\ clears[ConvOf[w]] = 0 => cursor[w] <= seqs[ConvOf[w]]
FeedShape == \A w \in Watchers : Shape(w)

IInv == TypeOK /\ BufferIsSuffix /\ FeedShape /\ FeedIsComplete

LEMMA InitIInv == Init => IInv
<1> SUFFICES ASSUME Init PROVE IInv
  OBVIOUS
<1> USE ConvAssumption, SizeAssumption
<1>1. \A w \in Watchers : pc[w] = "off" /\ backlog[w] = <<>> /\ queue[w] = <<>>
  BY DEF Init
<1>2. TypeOK
  BY EmptySeq DEF Init, TypeOK, PCs
<1>3. BufferIsSuffix
  BY EmptySeq DEF Init, BufferIsSuffix
<1>4. FeedShape /\ FeedIsComplete
  BY <1>1 DEF Init, FeedShape, Shape, FeedIsComplete, Listening
<1> QED BY <1>2, <1>3, <1>4 DEF IInv

-----------------------------------------------------------------------------
(* publish() keeps the buffer a suffix of the conversation.                *)
LEMMA BoundedBuffer ==
    ASSUME TypeOK, BufferIsSuffix, NEW c \in Conversations,
           NEW b, b = Bounded(Append(buffers[c], Envelope(c, seqs[c] + 1)))
    PROVE  /\ b \in Seq(Envelopes)
           /\ Len(b) = IF seqs[c] + 1 < bufferSize THEN seqs[c] + 1 ELSE bufferSize
           /\ \A i \in 1..Len(b) : b[i] = Envelope(c, seqs[c] + 1 - Len(b) + i)
<1> DEFINE old == buffers[c]
           e == Envelope(c, seqs[c] + 1)
           a == Append(old, e)
<1>1. /\ old \in Seq(Envelopes) /\ seqs[c] \in Nat /\ bufferSize \in Nat
      /\ Len(old) = IF seqs[c] < bufferSize THEN seqs[c] ELSE bufferSize
      /\ \A i \in 1..Len(old) : old[i] = Envelope(c, seqs[c] - Len(old) + i)
  BY SizeAssumption DEF TypeOK, BufferIsSuffix
<1>2. e \in Envelopes
  BY <1>1, EnvelopeFields
<1> HIDE DEF old, e
<1>3. /\ a \in Seq(Envelopes) /\ a # <<>> /\ Len(a) = Len(old) + 1
      /\ \A i \in 1..Len(old) : a[i] = old[i]
      /\ a[Len(old) + 1] = e
  BY <1>1, <1>2, AppendProperties
<1>4. \A i \in 1..Len(a) : a[i] = Envelope(c, seqs[c] + 1 - Len(a) + i)
  <2> TAKE i \in 1..Len(a)
  <2>1. CASE i = Len(old) + 1
    BY <2>1, <1>1, <1>3 DEF e
  <2>2. CASE i # Len(old) + 1
    <3>1. i \in 1..Len(old)
      BY <2>2, <1>1, <1>3
    <3>2. seqs[c] - Len(old) + i = seqs[c] + 1 - Len(a) + i
      BY <1>1, <1>3
    <3> QED BY <3>1, <3>2, <1>1, <1>3
  <2> QED BY <2>1, <2>2
<1> HIDE DEF a
<1>5. CASE Len(a) > bufferSize
  <2>1. b = Tail(a)
    BY <1>5 DEF Bounded, a, old, e
  <2>2. /\ Tail(a) \in Seq(Envelopes) /\ Len(Tail(a)) = Len(a) - 1
        /\ \A i \in 1..Len(Tail(a)) : Tail(a)[i] = a[i + 1]
    BY <1>3, HeadTailProperties
  <2>3. \A i \in 1..Len(Tail(a)) : Tail(a)[i] = Envelope(c, seqs[c] + 1 - Len(Tail(a)) + i)
    <3> TAKE i \in 1..Len(Tail(a))
    <3>1. i \in Int /\ i + 1 \in 1..Len(a) /\ Len(a) \in Nat /\ seqs[c] \in Nat
      BY <2>2, <1>3, <1>1
    <3>2. seqs[c] + 1 - Len(a) + (i + 1) = seqs[c] + 1 - Len(Tail(a)) + i
      BY <3>1, <2>2, SMTT(30)
    <3> QED BY <3>1, <3>2, <2>2, <1>4
  <2>4. Len(Tail(a)) = IF seqs[c] + 1 < bufferSize THEN seqs[c] + 1 ELSE bufferSize
    <3>1. Len(old) \in Nat /\ Len(Tail(a)) = Len(old)
      BY <2>2, <1>1, <1>3
    <3> QED BY <3>1, <1>1, <1>3, <1>5
  <2> QED BY <2>1, <2>2, <2>3, <2>4
<1>6. CASE ~(Len(a) > bufferSize)
  <2>1. b = a
    BY <1>6 DEF Bounded, a, old, e
  <2> QED BY <2>1, <1>1, <1>3, <1>4, <1>6
<1> QED BY <1>5, <1>6

LEMMA LogStep == IInv /\ [Next]_vars => BufferIsSuffix' /\ (buffers \in [Conversations -> Seq(Envelopes)])'
<1> SUFFICES ASSUME IInv, [Next]_vars
             PROVE  BufferIsSuffix' /\ (buffers \in [Conversations -> Seq(Envelopes)])'
  OBVIOUS
<1>0. TypeOK /\ BufferIsSuffix
  BY DEF IInv
<1>1. CASE UNCHANGED <<seqs, buffers>>
  BY <1>0, <1>1 DEF BufferIsSuffix, TypeOK
<1>2. ASSUME NEW c \in Conversations, Publish(c)
      PROVE  BufferIsSuffix' /\ (buffers \in [Conversations -> Seq(Envelopes)])'
  <2> DEFINE b == Bounded(Append(buffers[c], Envelope(c, seqs[c] + 1)))
  <2>1. /\ b \in Seq(Envelopes)
        /\ Len(b) = IF seqs[c] + 1 < bufferSize THEN seqs[c] + 1 ELSE bufferSize
        /\ \A i \in 1..Len(b) : b[i] = Envelope(c, seqs[c] + 1 - Len(b) + i)
    BY <1>0, BoundedBuffer
  <2>2. /\ seqs' = [seqs EXCEPT ![c] = @ + 1]
        /\ buffers' = [buffers EXCEPT ![c] = b]
    BY <1>2 DEF Publish
  <2> HIDE DEF b
  <2>3. seqs'[c] = seqs[c] + 1 /\ buffers'[c] = b
    BY <2>2, <1>0 DEF TypeOK
  <2>4. \A d \in Conversations \ {c} : seqs'[d] = seqs[d] /\ buffers'[d] = buffers[d]
    BY <2>2, <1>0 DEF TypeOK
  <2>5. BufferIsSuffix'
    <3> SUFFICES ASSUME NEW d \in Conversations
                 PROVE  /\ Len(buffers'[d]) = IF seqs'[d] < bufferSize THEN seqs'[d] ELSE bufferSize
                        /\ \A i \in 1..Len(buffers'[d]) :
                              buffers'[d][i] = Envelope(d, seqs'[d] - Len(buffers'[d]) + i)
      BY DEF BufferIsSuffix
    <3>1. CASE d = c
      <4>1. seqs'[d] = seqs[c] + 1 /\ buffers'[d] = b
        BY <3>1, <2>3
      <4>2. \A i \in 1..Len(b) : b[i] = Envelope(d, seqs[c] + 1 - Len(b) + i)
        BY <3>1, <2>1
      <4>3. Len(buffers'[d]) = IF seqs'[d] < bufferSize THEN seqs'[d] ELSE bufferSize
        BY <4>1, <2>1
      <4>4. ASSUME NEW i \in 1..Len(buffers'[d])
            PROVE  buffers'[d][i] = Envelope(d, seqs'[d] - Len(buffers'[d]) + i)
        <5>1. seqs[c] \in Nat /\ Len(b) \in Nat /\ i \in 1..Len(b)
          BY <4>1, <2>1, <1>0, SizeAssumption DEF TypeOK
        <5>2. seqs'[d] - Len(buffers'[d]) + i = seqs[c] + 1 - Len(b) + i
          BY <4>1, <5>1
        <5> QED BY <4>1, <4>2, <5>1, <5>2
      <4> QED BY <4>3, <4>4
    <3>2. CASE d # c
      BY <3>2, <2>4, <1>0 DEF BufferIsSuffix
    <3> QED BY <3>1, <3>2
  <2>6. (buffers \in [Conversations -> Seq(Envelopes)])'
    BY <2>1, <2>2, <1>0 DEF TypeOK
  <2> QED BY <2>5, <2>6
<1>3. ASSUME NEW c \in Conversations, Clear(c)
      PROVE  BufferIsSuffix' /\ (buffers \in [Conversations -> Seq(Envelopes)])'
  <2>1. /\ seqs' = [seqs EXCEPT ![c] = 0]
        /\ buffers' = [buffers EXCEPT ![c] = <<>>]
    BY <1>3 DEF Clear
  <2>2. seqs'[c] = 0 /\ buffers'[c] = <<>>
    BY <2>1, <1>0 DEF TypeOK
  <2>3. \A d \in Conversations \ {c} : seqs'[d] = seqs[d] /\ buffers'[d] = buffers[d]
    BY <2>1, <1>0 DEF TypeOK
  <2>4. BufferIsSuffix'
    BY <2>2, <2>3, <1>0, EmptySeq, SizeAssumption DEF BufferIsSuffix
  <2>5. (buffers \in [Conversations -> Seq(Envelopes)])'
    BY <2>1, <1>0, EmptySeq DEF TypeOK
  <2> QED BY <2>4, <2>5
<1>4. ASSUME NEW w \in Watchers, Watch(w) \/ Pull(w) \/ Break(w) PROVE UNCHANGED <<seqs, buffers>>
  BY <1>4 DEF Watch, Pull, PullBacklog, PullLive, PullWait, PullEnd, Break, logVars
<1>5. ASSUME Lost PROVE UNCHANGED <<seqs, buffers>>
  BY <1>5 DEF Lost, logVars
<1>6. ASSUME UNCHANGED vars PROVE UNCHANGED <<seqs, buffers>>
  BY <1>6 DEF vars, logVars
<1> QED BY <1>1, <1>2, <1>3, <1>4, <1>5, <1>6 DEF Next

-----------------------------------------------------------------------------
(* What subscribing puts in a feed: the gap, if any, then a suffix of the   *)
(* conversation that starts right after what the gap covers.               *)
LEMMA Subscription ==
    ASSUME TypeOK, BufferIsSuffix, NEW w \in Watchers, Watch(w)
    PROVE  LET c == ConvOf[w]
               n == cursor[w]
               m == Missed(c, n)
           IN /\ m = IF n > 0 /\ n + Len(buffers[c]) < seqs[c]
                     THEN seqs[c] - Len(buffers[c]) - n ELSE 0
              /\ backlog'[w] \in Seq(Envelopes \union Gaps)
              /\ \A i \in 2..Len(backlog'[w]) : backlog'[w][i] \in Envelopes
              /\ m > 0 => /\ backlog'[w] # <<>>
                          /\ backlog'[w][1] = Gap(c, n, m)
                          /\ Tail(backlog'[w]) = Retained(c, n)
              /\ m = 0 => backlog'[w] = Retained(c, n)
<1> DEFINE c == ConvOf[w]
           n == cursor[w]
           m == Missed(c, n)
           r == Retained(c, n)
           g == Gap(c, n, m)
           L == Len(buffers[c])
<1>1. /\ c \in Conversations /\ n \in Nat /\ seqs[c] \in Nat
      /\ L \in Nat /\ L <= seqs[c]
      /\ buffers[c] \in Seq(Envelopes)
      /\ \A i \in 1..L : buffers[c][i] = Envelope(c, seqs[c] - L + i)
  BY ConvAssumption, SizeAssumption DEF TypeOK, BufferIsSuffix
<1>2. /\ r \in Seq(Envelopes)
      /\ \A i \in 1..Len(r) : r[i] \in Envelopes
  <2>1. r \in Seq(Envelopes)
    BY <1>1, RetainedIsSuffix
  <2> HIDE DEF r
  <2> QED BY <2>1, ElementOfSeq
<1>3. OldestSeq(c) = seqs[c] - L + 1
  <2>1. CASE buffers[c] = <<>>
    BY <2>1, <1>1, EmptySeq DEF OldestSeq
  <2>2. CASE buffers[c] # <<>>
    <3>1. 1 \in 1..L
      BY <2>2, <1>1, EmptySeq
    <3>2. buffers[c][1].seq = seqs[c] - L + 1
      BY <3>1, <1>1, EnvelopeFields
    <3> QED BY <2>2, <3>2 DEF OldestSeq
  <2> QED BY <2>1, <2>2
<1>4. m = IF n > 0 /\ n + L < seqs[c] THEN seqs[c] - L - n ELSE 0
  BY <1>1, <1>3 DEF Missed
<1>5. backlog'[w] = (IF m > 0 THEN <<g>> ELSE <<>>) \o r
  BY DEF Watch, TypeOK
<1> HIDE DEF c, n, m, r, g, L
<1>6. m \in Nat
  BY <1>1, <1>4
<1>7. CASE m > 0
  <2>1. g \in Gaps
    BY <1>1, <1>6 DEF g, Gap, Gaps
  <2> DEFINE q == <<g>> \o r
  <2>2. /\ q \in Seq(Envelopes \union Gaps)
        /\ Len(q) = 1 + Len(r) /\ Len(r) \in Nat
        /\ q[1] = g
        /\ \A i \in 2..Len(q) : q[i] = r[i - 1]
    BY <2>1, <1>2
  <2>3. q # <<>>
    BY <2>2, EmptySeq
  <2>4. Tail(q) = r
    BY <2>1, <1>2
  <2>5. \A i \in 2..Len(q) : q[i] \in Envelopes
    BY <2>2, <1>2
  <2>6. backlog'[w] = q
    BY <1>5, <1>7
  <2> HIDE DEF q
  <2> QED BY <1>4, <1>6, <1>7, <2>2, <2>3, <2>4, <2>5, <2>6 DEF c, n, m, r, g, L
<1>8. CASE m = 0
  <2>1. backlog'[w] = r
    BY <1>5, <1>8, <1>2, ConcatEmptySeq
  <2>2. r \in Seq(Envelopes \union Gaps)
    BY <1>2, SeqMonotonic
  <2>3. \A i \in 2..Len(r) : r[i] \in Envelopes
    BY <1>2
  <2> QED BY <1>4, <1>8, <2>1, <2>2, <2>3 DEF c, n, m, r, L
<1> QED BY <1>6, <1>7, <1>8

-----------------------------------------------------------------------------
LEMMA TypeStep == IInv /\ [Next]_vars => TypeOK'
<1> SUFFICES ASSUME IInv, [Next]_vars PROVE TypeOK'
  OBVIOUS
<1> USE ConvAssumption
<1>0. TypeOK /\ BufferIsSuffix /\ (buffers \in [Conversations -> Seq(Envelopes)])'
  BY LogStep DEF IInv
<1>1. ASSUME NEW c \in Conversations, Publish(c) PROVE TypeOK'
  <2> DEFINE e == Envelope(c, seqs[c] + 1)
  <2>0. seqs[c] \in Nat /\ seqs[c] + 1 \in Nat
    BY <1>0 DEF TypeOK
  <2>1. e \in Envelopes
    BY <2>0, EnvelopeFields
  <2>2. /\ seqs' = [seqs EXCEPT ![c] = @ + 1]
        /\ Push(e)
        /\ UNCHANGED <<clears, backlog, closed, consumerVars>>
    BY <1>1 DEF Publish
  <2> HIDE DEF e
  <2>3. queue' \in [Watchers -> Seq(Envelopes)]
    BY <2>1, <2>2, <1>0, AppendProperties DEF Push, TypeOK
  <2>4. pc' \in [Watchers -> PCs]
    BY <2>2, <1>0 DEF Push, TypeOK, PCs
  <2> QED BY <2>2, <2>3, <2>4, <1>0 DEF TypeOK, consumerVars
<1>2. ASSUME NEW c \in Conversations, Clear(c) PROVE TypeOK'
  BY <1>2, <1>0 DEF Clear, TypeOK, feedVars, consumerVars
<1>3. ASSUME NEW w \in Watchers, Watch(w) PROVE TypeOK'
  <2>1. /\ backlog'[w] \in Seq(Envelopes \union Gaps)
        /\ \A i \in 2..Len(backlog'[w]) : backlog'[w][i] \in Envelopes
    BY <1>0, <1>3, Subscription
  <2>2. \A v \in Watchers \ {w} : backlog'[v] = backlog[v]
    BY <1>3, <1>0 DEF Watch, TypeOK
  <2>3. backlog' \in [Watchers -> Seq(Envelopes \union Gaps)]
    <3>1. backlog' = [v \in Watchers |-> backlog'[v]]
      BY <1>3, <1>0 DEF Watch, TypeOK
    <3> QED BY <3>1, <2>1, <2>2, <1>0 DEF TypeOK
  <2>4. \A v \in Watchers : \A i \in 2..Len(backlog'[v]) : backlog'[v][i] \in Envelopes
    BY <2>1, <2>2, <1>0 DEF TypeOK
  <2>5. queue' \in [Watchers -> Seq(Envelopes)] /\ pc' \in [Watchers -> PCs]
        /\ closed' \in [Watchers -> BOOLEAN]
    BY <1>3, <1>0, EmptySeq DEF Watch, TypeOK, PCs
  <2> QED BY <2>3, <2>4, <2>5, <1>0, <1>3 DEF Watch, TypeOK, logVars, consumerVars
<1>4. ASSUME NEW w \in Watchers, NEW e \in Envelopes \union Gaps, Hand(w, e)
      PROVE  cursor' \in [Watchers -> Nat] /\ told' \in [Watchers -> SUBSET Nat]
  <2>1. e.seq \in Nat /\ e.missed \in Nat
    BY DEF Envelopes, Gaps
  <2>2. (e.seq + 1)..(e.seq + e.missed) \subseteq Nat
    BY <2>1
  <2> QED BY <1>4, <1>0, <2>1, <2>2 DEF Hand, TypeOK
<1>5. ASSUME NEW w \in Watchers, PullBacklog(w) PROVE TypeOK'
  <2> DEFINE b == backlog[w]
  <2>1. b \in Seq(Envelopes \union Gaps) /\ b # <<>>
    BY <1>5, <1>0 DEF PullBacklog, TypeOK
  <2>2. /\ Head(b) \in Envelopes \union Gaps
        /\ Tail(b) \in Seq(Envelopes \union Gaps)
        /\ Len(Tail(b)) = Len(b) - 1 /\ Len(b) \in Nat
        /\ \A i \in 1..Len(Tail(b)) : Tail(b)[i] = b[i + 1]
    BY <2>1, HeadTailProperties
  <2>3. /\ Hand(w, Head(b)) /\ backlog' = [backlog EXCEPT ![w] = Tail(b)]
        /\ UNCHANGED <<logVars, pc, queue, closed>>
    BY <1>5 DEF PullBacklog
  <2>4. \A i \in 2..Len(b) : b[i] \in Envelopes
    BY <1>0 DEF TypeOK
  <2> HIDE DEF b
  <2>5. cursor' \in [Watchers -> Nat] /\ told' \in [Watchers -> SUBSET Nat]
    BY <1>4, <2>2, <2>3
  <2>6. \A i \in 2..Len(Tail(b)) : Tail(b)[i] \in Envelopes
    BY <2>2, <2>4
  <2>7. /\ backlog' \in [Watchers -> Seq(Envelopes \union Gaps)]
        /\ \A v \in Watchers : \A i \in 2..Len(backlog'[v]) : backlog'[v][i] \in Envelopes
    BY <2>2, <2>3, <2>6, <1>0 DEF TypeOK
  <2> QED BY <2>3, <2>5, <2>7, <1>0 DEF TypeOK, logVars
<1>6. ASSUME NEW w \in Watchers, PullLive(w) PROVE TypeOK'
  <2> DEFINE q == queue[w]
  <2>1. q \in Seq(Envelopes) /\ q # <<>>
    BY <1>6, <1>0 DEF PullLive, TypeOK
  <2>2. Head(q) \in Envelopes /\ Tail(q) \in Seq(Envelopes)
    BY <2>1, HeadTailProperties
  <2>3. /\ Hand(w, Head(q)) /\ queue' = [queue EXCEPT ![w] = Tail(q)]
        /\ pc' = [pc EXCEPT ![w] = "live"]
        /\ UNCHANGED <<logVars, backlog, closed>>
    BY <1>6 DEF PullLive
  <2> HIDE DEF q
  <2>4. cursor' \in [Watchers -> Nat] /\ told' \in [Watchers -> SUBSET Nat]
    BY <1>4, <2>2, <2>3
  <2> QED BY <2>2, <2>3, <2>4, <1>0 DEF TypeOK, logVars, PCs
<1>7. ASSUME NEW w \in Watchers, PullWait(w) \/ PullEnd(w) PROVE TypeOK'
  BY <1>7, <1>0 DEF PullWait, PullEnd, TypeOK, PCs, logVars, consumerVars
<1>8. ASSUME NEW w \in Watchers, Break(w) PROVE TypeOK'
  <2>1. /\ backlog' = [backlog EXCEPT ![w] = <<>>]
        /\ queue' = [queue EXCEPT ![w] = <<>>]
        /\ pc' = [pc EXCEPT ![w] = "off"]
        /\ UNCHANGED <<logVars, closed, consumerVars>>
    BY <1>8 DEF Break
  <2>2. backlog' \in [Watchers -> Seq(Envelopes \union Gaps)] /\ queue' \in [Watchers -> Seq(Envelopes)]
    BY <2>1, <1>0, EmptySeq DEF TypeOK
  <2>3. \A v \in Watchers : \A i \in 2..Len(backlog'[v]) : backlog'[v][i] \in Envelopes
    BY <2>1, <1>0, EmptySeq DEF TypeOK
  <2> QED BY <2>1, <2>2, <2>3, <1>0 DEF TypeOK, PCs, logVars, consumerVars
<1>9. ASSUME Lost PROVE TypeOK'
  BY <1>9, <1>0 DEF Lost, TypeOK, PCs, logVars, consumerVars
<1>10. ASSUME UNCHANGED vars PROVE TypeOK'
  BY <1>10, <1>0 DEF vars, logVars, feedVars, consumerVars, TypeOK
<1> QED BY <1>1, <1>2, <1>3, <1>5, <1>6, <1>7, <1>8, <1>9, <1>10 DEF Next, Pull

-----------------------------------------------------------------------------
(* What a feed still owes its consumer, one watcher at a time. *)
FeedOk(w) == Shape(w) /\ (Listening(w) /\ clears[ConvOf[w]] = 0 => Complete(w))

Rest(w) == IF GapIsFirst(w) THEN Tail(backlog[w]) ELSE backlog[w]

LEMMA PendingParts ==
    ASSUME TypeOK, NEW w \in Watchers
    PROVE  /\ Pending(w) = Rest(w) \o queue[w]
           /\ Rest(w) \in Seq(Envelopes \union Gaps)
           /\ queue[w] \in Seq(Envelopes \union Gaps)
           /\ Pending(w) \in Seq(Envelopes \union Gaps)
           /\ Len(Pending(w)) = Len(Rest(w)) + Len(queue[w])
           /\ Len(Pending(w)) \in Nat
<1>1. backlog[w] \in Seq(Envelopes \union Gaps) /\ queue[w] \in Seq(Envelopes \union Gaps)
  BY SeqMonotonic DEF TypeOK
<1>2. Rest(w) \in Seq(Envelopes \union Gaps)
  BY <1>1, HeadTailProperties DEF Rest, GapIsFirst
<1>3. Pending(w) = Rest(w) \o queue[w]
  BY DEF Pending, Rest
<1> QED BY <1>1, <1>2, <1>3, ConcatProperties

LEMMA FeedFrame ==
    ASSUME TypeOK, NEW w \in Watchers, FeedOk(w),
           seqs'[ConvOf[w]] = seqs[ConvOf[w]], clears'[ConvOf[w]] = clears[ConvOf[w]],
           backlog'[w] = backlog[w], queue'[w] = queue[w],
           cursor'[w] = cursor[w], told'[w] = told[w],
           Listening(w)' => Listening(w) /\ (pc'[w] # "backlog" => backlog[w] = <<>>)
    PROVE  FeedOk(w)'
<1>1. Pending(w)' = Pending(w) /\ GapAhead(w)' = GapAhead(w) /\ GapIsFirst(w)' = GapIsFirst(w)
  BY DEF Pending, GapAhead, GapIsFirst
<1>2. Shape(w)'
  BY <1>1 DEF FeedOk, Shape, Listening
<1>3. Complete(w) => Complete(w)'
  BY <1>1 DEF Complete
<1> QED BY <1>2, <1>3 DEF FeedOk

(* A publication reaches the queue of every open feed of its conversation. *)
LEMMA FeedPublish ==
    ASSUME TypeOK, NEW w \in Watchers, FeedOk(w), Publish(ConvOf[w])
    PROVE  FeedOk(w)'
<1> DEFINE c == ConvOf[w]
           s == seqs[c]
           e == Envelope(c, s + 1)
<1>1. /\ c \in Conversations /\ s \in Nat /\ cursor[w] \in Nat
      /\ seqs'[c] = s + 1 /\ clears' = clears
      /\ backlog' = backlog /\ cursor' = cursor /\ told' = told
  BY ConvAssumption DEF TypeOK, Publish, consumerVars
<1>2. /\ Listening(w)' = Listening(w)
      /\ pc'[w] = "backlog" => pc[w] = "backlog"
      /\ pc[w] = "backlog" => pc'[w] = "backlog"
  BY DEF Publish, Push, Listening, TypeOK
<1>3. GapIsFirst(w)' = GapIsFirst(w) /\ GapAhead(w)' = GapAhead(w) /\ Rest(w)' = Rest(w)
  BY <1>1 DEF GapIsFirst, GapAhead, Rest
<1>4. Shape(w)'
  BY <1>1, <1>2, <1>3 DEF FeedOk, Shape
<1>5. ASSUME Listening(w), clears[c] = 0 PROVE Complete(w)'
  <2> DEFINE p == Pending(w)
             first == s - Len(p) + 1
  <2>0. e \in Envelopes
    BY <1>1, EnvelopeFields
  <2>1. queue'[w] = Append(queue[w], e)
    BY <1>5, EnvelopeFields DEF Publish, Push
  <2>2. Pending(w)' = Rest(w) \o Append(queue[w], e)
    BY <1>3, <2>1 DEF Pending, Rest
  <2>3. /\ Len(Pending(w)') = Len(p) + 1 /\ Len(p) \in Nat
        /\ \A i \in 1..Len(p) : Pending(w)'[i] = p[i]
        /\ Pending(w)'[Len(p) + 1] = e
    <3> DEFINE x == Rest(w)
               q == queue[w]
               a == Append(q, e)
    <3>1. /\ x \in Seq(Envelopes \union Gaps) /\ q \in Seq(Envelopes \union Gaps)
          /\ p = x \o q /\ e \in Envelopes \union Gaps
          /\ Pending(w)' = x \o a
      BY <2>0, <2>2, PendingParts
    <3> HIDE DEF x, q, p, e
    <3>2. /\ a \in Seq(Envelopes \union Gaps) /\ Len(a) = Len(q) + 1
          /\ \A i \in 1..Len(q) : a[i] = q[i]
          /\ a[Len(q) + 1] = e
      BY <3>1, AppendProperties
    <3> HIDE DEF a
    <3>3. /\ Len(p) = Len(x) + Len(q) /\ Len(x) \in Nat /\ Len(q) \in Nat
          /\ \A i \in 1..Len(p) : p[i] = IF i <= Len(x) THEN x[i] ELSE q[i - Len(x)]
      BY <3>1, ConcatProperties
    <3>4. /\ Len(x \o a) = Len(x) + Len(a)
          /\ \A i \in 1..(Len(x) + Len(a)) :
                (x \o a)[i] = IF i <= Len(x) THEN x[i] ELSE a[i - Len(x)]
      BY <3>1, <3>2, ConcatProperties
    <3>5. Len(x \o a) = Len(p) + 1 /\ Len(p) \in Nat
      BY <3>2, <3>3, <3>4
    <3>6. ASSUME NEW i \in 1..Len(p) PROVE (x \o a)[i] = p[i]
      <4>1. i \in Int /\ i \in 1..(Len(x) + Len(a))
        BY <3>2, <3>3
      <4>2. i > Len(x) => i - Len(x) \in 1..Len(q)
        BY <3>3, <4>1
      <4>3. CASE i <= Len(x)
        <5>1. (x \o a)[i] = x[i]
          BY <3>4, <4>1, <4>3
        <5>2. p[i] = x[i]
          BY <3>3, <4>3
        <5> QED BY <5>1, <5>2
      <4>4. CASE ~(i <= Len(x))
        <5>1. i - Len(x) \in 1..Len(q)
          BY <3>3, <4>1, <4>2, <4>4
        <5>2. (x \o a)[i] = a[i - Len(x)]
          BY <3>4, <4>1, <4>4
        <5>3. p[i] = q[i - Len(x)]
          BY <3>3, <4>4
        <5>4. a[i - Len(x)] = q[i - Len(x)]
          BY <3>2, <5>1
        <5> QED BY <5>2, <5>3, <5>4
      <4> QED BY <4>3, <4>4
    <3>7. (x \o a)[Len(p) + 1] = e
      <4>1. /\ Len(p) + 1 \in 1..(Len(x) + Len(a)) /\ Len(p) + 1 > Len(x)
            /\ Len(p) + 1 - Len(x) = Len(q) + 1
        BY <3>2, <3>3
      <4> QED BY <4>1, <3>2, <3>3, <3>4
    <3> QED BY <3>1, <3>5, <3>6, <3>7
  <2>4. /\ \A i \in 1..Len(p) : p[i] = Envelope(c, first - 1 + i)
        /\ cursor[w] < first
        /\ cursor[w] > 0 =>
             \A n \in (cursor[w] + 1)..(first - 1) :
                n \in told[w] \/ n <= cursor[w] + GapAhead(w)
    BY <1>5 DEF FeedOk, Complete
  <2>5. first = seqs'[c] - Len(Pending(w)') + 1
    BY <1>1, <2>3
  <2> HIDE DEF p, e
  <2>6. \A i \in 1..Len(Pending(w)') : Pending(w)'[i] = Envelope(c, first - 1 + i)
    <3> TAKE i \in 1..Len(Pending(w)')
    <3>1. CASE i = Len(p) + 1
      <4>1. first - 1 + i = s + 1
        BY <3>1, <1>1, <2>3
      <4> QED BY <3>1, <4>1, <2>3 DEF e
    <3>2. CASE i # Len(p) + 1
      <4>1. i \in 1..Len(p)
        BY <3>2, <2>3
      <4> QED BY <4>1, <2>3, <2>4
    <3> QED BY <3>1, <3>2
  <2> QED BY <1>1, <1>3, <2>4, <2>5, <2>6 DEF Complete
<1> QED BY <1>1, <1>2, <1>4, <1>5 DEF FeedOk

(* A subscription starts a feed that is complete from its first step. *)
LEMMA FeedWatch ==
    ASSUME TypeOK, BufferIsSuffix, NEW w \in Watchers, FeedOk(w), Watch(w)
    PROVE  FeedOk(w)'
<1> DEFINE c == ConvOf[w]
           s == seqs[c]
           n == cursor[w]
           m == Missed(c, n)
           r == Retained(c, n)
           k == Kept(c, n)
           L == Len(buffers[c])
<1>1. /\ c \in Conversations /\ s \in Nat /\ n \in Nat
      /\ L \in Nat /\ L <= s
      /\ seqs' = seqs /\ clears' = clears /\ cursor' = cursor /\ told' = told
      /\ pc'[w] = "backlog" /\ queue'[w] = <<>>
  <2>1. c \in Conversations
    BY ConvAssumption
  <2>2. s \in Nat /\ n \in Nat /\ bufferSize \in Nat /\ buffers[c] \in Seq(Envelopes)
    BY <2>1, SizeAssumption DEF TypeOK
  <2>3. L \in Nat /\ L <= s
    BY <2>1, <2>2 DEF BufferIsSuffix
  <2>4. seqs' = seqs /\ clears' = clears /\ cursor' = cursor /\ told' = told
    BY DEF Watch, logVars, consumerVars
  <2>5. pc'[w] = "backlog" /\ queue'[w] = <<>>
    BY DEF Watch, TypeOK
  <2> QED BY <2>1, <2>2, <2>3, <2>4, <2>5
<1>2. /\ r \in Seq(Envelopes)
      /\ Len(r) = k
      /\ k \in 0..L
      /\ \A i \in 1..k : r[i] = Envelope(c, s - k + i)
  BY <1>1, RetainedIsSuffix
<1>3. /\ m = IF n > 0 /\ n + L < s THEN s - L - n ELSE 0
      /\ m > 0 => /\ backlog'[w] # <<>>
                  /\ backlog'[w][1] = Gap(c, n, m)
                  /\ Tail(backlog'[w]) = r
      /\ m = 0 => backlog'[w] = r
  BY Subscription
<1>4. k = IF n + L < s THEN L ELSE IF n <= s THEN s - n ELSE 0
  BY DEF Kept
<1> HIDE DEF m, r, k, L
<1>5. m \in Nat
  BY <1>1, <1>3
<1>6. GapIsFirst(w)' <=> m > 0
  <2>1. CASE m > 0
    BY <1>3, <2>1 DEF GapIsFirst, Gap
  <2>2. CASE m = 0
    <3>1. backlog'[w] # <<>> => 1 \in 1..k
      BY <1>2, <1>3, <2>2, EmptySeq
    <3>2. backlog'[w] # <<>> => backlog'[w][1].type = "event"
      BY <3>1, <1>2, <1>3, <2>2, EnvelopeFields
    <3> QED BY <3>2, <2>2, <1>5 DEF GapIsFirst
  <2> QED BY <2>1, <2>2, <1>5
<1>7. GapAhead(w)' = m
  <2>1. CASE m > 0
    <3>1. GapAhead(w)' = backlog'[w][1].missed
      BY <2>1, <1>6 DEF GapAhead
    <3> QED BY <3>1, <2>1, <1>3 DEF Gap
  <2>2. CASE m = 0
    <3>1. ~GapIsFirst(w)'
      BY <2>2, <1>6
    <3> QED BY <3>1, <2>2 DEF GapAhead
  <2> QED BY <2>1, <2>2, <1>5
<1>8. Pending(w)' = r
  <2>1. Pending(w)' = r \o <<>>
    <3>1. CASE m > 0
      <4>1. GapIsFirst(w)'
        BY <3>1, <1>6
      <4>2. Pending(w)' = Tail(backlog'[w]) \o queue'[w]
        BY <4>1 DEF Pending
      <4> QED BY <4>2, <3>1, <1>1, <1>3
    <3>2. CASE m = 0
      <4>1. ~GapIsFirst(w)'
        BY <3>2, <1>6
      <4>2. Pending(w)' = backlog'[w] \o queue'[w]
        BY <4>1 DEF Pending
      <4> QED BY <4>2, <3>2, <1>1, <1>3
    <3> QED BY <3>1, <3>2, <1>5
  <2> QED BY <2>1, <1>2, ConcatEmptySeq
<1>9. Shape(w)'
  <2>1. GapIsFirst(w)' => backlog'[w][1].seq = n
    <3>1. GapIsFirst(w)' => m > 0
      BY <1>6
    <3>2. m > 0 => backlog'[w][1].seq = n
      BY <1>3 DEF Gap
    <3> QED BY <3>1, <3>2
  <2>2. clears[c] = 0 => n <= s
    BY DEF FeedOk, Shape
  <2> QED BY <2>1, <2>2, <1>1 DEF Shape
<1>10. ASSUME clears[c] = 0 PROVE Complete(w)'
  <2>1. n <= s
    BY <1>10 DEF FeedOk, Shape
  <2>2. Len(r) \in Nat /\ s - Len(r) + 1 = s - k + 1 /\ s - k + 1 \in Nat /\ k \in Nat
    BY <1>1, <1>2
  <2>3. \A i \in 1..Len(r) : r[i] = Envelope(c, (s - Len(r) + 1) - 1 + i)
    <3> TAKE i \in 1..Len(r)
    <3>1. (s - Len(r) + 1) - 1 + i = s - k + i
      BY <1>1, <1>2, <2>2
    <3> QED BY <3>1, <1>2
  <2>4. n < s - k + 1
    BY <2>1, <2>2, <1>1, <1>4
  <2>5. n > 0 => \A j \in (n + 1)..(s - k) : j <= n + m
    BY <2>1, <2>2, <1>1, <1>3, <1>4
  <2>6. (s - Len(r) + 1) - 1 = s - k
    BY <2>2, <1>1, <1>2
  <2>7. Complete(w)' <=>
           /\ \A i \in 1..Len(r) : r[i] = Envelope(c, (s - Len(r) + 1) - 1 + i)
           /\ n < s - Len(r) + 1
           /\ n > 0 => \A j \in (n + 1)..((s - Len(r) + 1) - 1) : j \in told[w] \/ j <= n + m
    BY <1>1, <1>7, <1>8 DEF Complete
  <2> QED BY <2>2, <2>3, <2>4, <2>5, <2>6, <2>7
<1> QED BY <1>1, <1>9, <1>10 DEF FeedOk

(* The consumer is handed the next event its feed holds. *)
LEMMA FeedTakes ==
    ASSUME TypeOK, NEW w \in Watchers, FeedOk(w), Listening(w),
           Pending(w) # <<>>, cursor'[w] = Pending(w)[1].seq, told'[w] = told[w],
           Pending(w)' = Tail(Pending(w)), ~GapIsFirst(w)',
           seqs' = seqs, clears' = clears,
           pc'[w] # "backlog" => backlog'[w] = <<>>
    PROVE  FeedOk(w)'
<1> DEFINE c == ConvOf[w]
           s == seqs[c]
           p == Pending(w)
           first == s - Len(p) + 1
<1>1. c \in Conversations /\ s \in Nat
  BY ConvAssumption DEF TypeOK
<1>2. p \in Seq(Envelopes \union Gaps) /\ Len(p) \in Nat
  BY PendingParts
<1>3. ASSUME clears[c] = 0 PROVE Complete(w)' /\ cursor'[w] <= s
  <2>1. \A i \in 1..Len(p) : p[i] = Envelope(c, first - 1 + i)
    BY <1>3 DEF FeedOk, Complete
  <2>2. Len(p) >= 1 /\ 1 \in 1..Len(p)
    BY <1>2, EmptySeq
  <2>3. cursor'[w] = first
    <3>1. p[1] = Envelope(c, first - 1 + 1)
      BY <2>1, <2>2
    <3>2. first - 1 + 1 = first
      BY <1>1, <1>2
    <3> QED BY <3>1, <3>2, EnvelopeFields
  <2>4. /\ Len(Tail(p)) = Len(p) - 1
        /\ \A i \in 1..Len(Tail(p)) : Tail(p)[i] = p[i + 1]
    BY <1>2, HeadTailProperties
  <2>5. s - Len(Tail(p)) + 1 = first + 1 /\ first \in Int
    BY <1>1, <1>2, <2>4
  <2>6. \A i \in 1..Len(Tail(p)) : Tail(p)[i] = Envelope(c, (first + 1) - 1 + i)
    <3> TAKE i \in 1..Len(Tail(p))
    <3>0. Len(p) \in Nat /\ Len(Tail(p)) = Len(p) - 1 /\ first \in Int
      BY <1>2, <2>4, <2>5
    <3> HIDE DEF p, first
    <3>1. i + 1 \in 1..Len(p) /\ first - 1 + (i + 1) = (first + 1) - 1 + i
      BY <3>0
    <3> QED BY <3>1, <2>1, <2>4
  <2>7. Complete(w)' <=>
           /\ \A i \in 1..Len(Tail(p)) :
                 Tail(p)[i] = Envelope(c, (s - Len(Tail(p)) + 1) - 1 + i)
           /\ cursor'[w] < s - Len(Tail(p)) + 1
           /\ cursor'[w] > 0 =>
                \A n \in (cursor'[w] + 1)..((s - Len(Tail(p)) + 1) - 1) :
                   n \in told[w] \/ n <= cursor'[w] + GapAhead(w)'
    BY DEF Complete
  <2> HIDE DEF p, c, s
  <2>8. cursor'[w] < first + 1 /\ (cursor'[w] + 1)..((first + 1) - 1) = {}
    BY <2>3, <2>5
  <2>9. cursor'[w] <= s
    BY <2>2, <2>3, <1>1, <1>2
  <2> QED BY <2>5, <2>6, <2>7, <2>8, <2>9
<1>4. Shape(w)'
  BY <1>3 DEF Shape
<1> QED BY <1>3, <1>4 DEF FeedOk

LEMMA FeedPullBacklog ==
    ASSUME TypeOK, NEW w \in Watchers, FeedOk(w), PullBacklog(w)
    PROVE  FeedOk(w)'
<1> DEFINE c == ConvOf[w]
           b == backlog[w]
<1>1. /\ c \in Conversations /\ seqs[c] \in Nat /\ cursor[w] \in Nat
      /\ b \in Seq(Envelopes \union Gaps) /\ b # <<>>
      /\ \A i \in 2..Len(b) : b[i] \in Envelopes
      /\ queue[w] \in Seq(Envelopes)
  BY ConvAssumption DEF TypeOK, PullBacklog
<1>2. /\ pc[w] = "backlog" /\ pc' = pc /\ queue' = queue
      /\ seqs' = seqs /\ clears' = clears
      /\ backlog'[w] = Tail(b) /\ Hand(w, b[1])
  BY <1>1, HeadTailProperties DEF PullBacklog, logVars, TypeOK
<1> HIDE DEF b
<1>3. /\ Len(Tail(b)) = Len(b) - 1 /\ Len(b) \in Nat
      /\ \A i \in 1..Len(Tail(b)) : Tail(b)[i] = b[i + 1]
      /\ b[1] \in Envelopes \union Gaps
      /\ Tail(b) \in Seq(Envelopes \union Gaps)
  BY <1>1, HeadTailProperties
<1>4. ~GapIsFirst(w)'
  <2>1. Tail(b) # <<>> => 1 \in 1..Len(Tail(b))
    BY <1>3, EmptySeq
  <2>2. Tail(b) # <<>> => Tail(b)[1] = b[2] /\ 2 \in 2..Len(b)
    BY <2>1, <1>3
  <2>3. Tail(b) # <<>> => Tail(b)[1] \in Envelopes
    BY <2>2, <1>1
  <2> QED BY <2>3, <1>2 DEF GapIsFirst, Envelopes
<1>5. Pending(w)' = Tail(b) \o queue[w] /\ GapAhead(w)' = 0
  BY <1>2, <1>4 DEF Pending, GapAhead
<1>6. Listening(w) /\ Listening(w)'
  BY <1>2 DEF Listening
<1>7. CASE GapIsFirst(w)
  <2>1. b[1].type = "gap" /\ b[1].seq = cursor[w] /\ GapAhead(w) = b[1].missed
    BY <1>6, <1>7 DEF GapIsFirst, GapAhead, FeedOk, Shape, b
  <2>2. b[1] \in Gaps /\ b[1].missed \in Nat
    BY <2>1, <1>3 DEF Envelopes, Gaps
  <2>3. /\ cursor' = cursor
        /\ told'[w] = told[w] \union ((cursor[w] + 1)..(cursor[w] + GapAhead(w)))
    BY <2>1, <1>2 DEF Hand, TypeOK
  <2>4. Pending(w)' = Pending(w)
    BY <1>5, <1>7 DEF Pending, b
  <2>5. Shape(w)'
    BY <1>2, <1>4, <2>3 DEF FeedOk, Shape
  <2>6. ASSUME clears[c] = 0 PROVE Complete(w)'
    <3> DEFINE p == Pending(w)
               first == seqs[c] - Len(p) + 1
    <3>1. /\ \A i \in 1..Len(p) : p[i] = Envelope(c, first - 1 + i)
          /\ cursor[w] < first
          /\ cursor[w] > 0 =>
               \A n \in (cursor[w] + 1)..(first - 1) :
                  n \in told[w] \/ n <= cursor[w] + GapAhead(w)
      BY <2>6, <1>6 DEF FeedOk, Complete
    <3>2. cursor[w] > 0 => \A n \in (cursor[w] + 1)..(first - 1) : n \in told'[w]
      <4> SUFFICES ASSUME cursor[w] > 0, NEW n \in (cursor[w] + 1)..(first - 1)
                   PROVE  n \in told'[w]
        OBVIOUS
      <4>1. CASE n \in told[w]
        BY <4>1, <2>3
      <4>2. CASE n <= cursor[w] + GapAhead(w)
        <5>1. n \in Int /\ cursor[w] + 1 <= n /\ GapAhead(w) \in Nat /\ cursor[w] \in Nat
          BY <2>1, <2>2, <1>1, PendingParts
        <5>2. n \in (cursor[w] + 1)..(cursor[w] + GapAhead(w))
          BY <5>1, <4>2
        <5> QED BY <5>2, <2>3
      <4> QED BY <3>1, <4>1, <4>2
    <3>3. seqs'[c] - Len(Pending(w)') + 1 = first
      BY <2>4, <1>2
    <3> HIDE DEF p, first
    <3> QED BY <2>3, <2>4, <3>1, <3>2, <3>3, <1>2 DEF Complete, p
  <2> QED BY <2>5, <2>6, <1>2 DEF FeedOk
<1>8. CASE ~GapIsFirst(w)
  <2>1. Pending(w) = b \o queue[w]
    BY <1>8 DEF Pending, b
  <2>2. b[1].type # "gap"
    BY <1>1, <1>8 DEF GapIsFirst, b
  <2>3. cursor'[w] = b[1].seq /\ told' = told
    BY <2>2, <1>2 DEF Hand, TypeOK
  <2>4. queue[w] \in Seq(Envelopes \union Gaps)
    BY <1>1, SeqMonotonic
  <2>5. /\ b \o queue[w] # <<>>
        /\ (b \o queue[w])[1] = b[1]
        /\ Tail(b \o queue[w]) = Tail(b) \o queue[w]
    BY <1>1, <2>4, HeadTailProperties
  <2>6. pc'[w] = "backlog"
    BY <1>2
  <2> QED BY <2>1, <2>3, <2>5, <2>6, <1>2, <1>4, <1>5, <1>6, FeedTakes
<1> QED BY <1>7, <1>8

LEMMA FeedPullLive ==
    ASSUME TypeOK, NEW w \in Watchers, FeedOk(w), PullLive(w)
    PROVE  FeedOk(w)'
<1> DEFINE q == queue[w]
<1>1. Listening(w) /\ backlog[w] = <<>>
  BY DEF PullLive, AtQueue, Listening, FeedOk, Shape
<1>2. q \in Seq(Envelopes) /\ q # <<>>
  BY DEF PullLive, TypeOK
<1>3. /\ backlog' = backlog /\ seqs' = seqs /\ clears' = clears
      /\ queue'[w] = Tail(q) /\ Hand(w, q[1])
  BY <1>2, HeadTailProperties DEF PullLive, logVars, TypeOK
<1> HIDE DEF q
<1>4. Tail(q) \in Seq(Envelopes) /\ q[1] \in Envelopes
  BY <1>2, HeadTailProperties
<1>5. ~GapIsFirst(w) /\ ~GapIsFirst(w)'
  BY <1>1, <1>3 DEF GapIsFirst
<1>6. Pending(w) = q /\ Pending(w)' = Tail(q)
  <2>1. Pending(w) = <<>> \o q /\ Pending(w)' = <<>> \o Tail(q)
    BY <1>1, <1>3, <1>5 DEF Pending, q
  <2> QED BY <2>1, <1>2, <1>4, ConcatEmptySeq
<1>7. cursor'[w] = q[1].seq /\ told' = told
  BY <1>3, <1>4 DEF Hand, Envelopes, TypeOK
<1> QED BY <1>1, <1>2, <1>3, <1>5, <1>6, <1>7, FeedTakes

LEMMA FeedStep == IInv /\ [Next]_vars => (FeedShape /\ FeedIsComplete)'
<1> SUFFICES ASSUME IInv, [Next]_vars, NEW w \in Watchers PROVE FeedOk(w)'
  BY DEF FeedShape, FeedIsComplete, FeedOk
<1>0. TypeOK /\ BufferIsSuffix /\ FeedOk(w) /\ ConvOf[w] \in Conversations
  BY ConvAssumption DEF IInv, FeedShape, FeedIsComplete, FeedOk
<1>1. ASSUME NEW c \in Conversations, Publish(c) PROVE FeedOk(w)'
  <2>1. CASE c = ConvOf[w]
    BY <2>1, <1>0, <1>1, FeedPublish
  <2>2. CASE c # ConvOf[w]
    <3>1. /\ seqs'[ConvOf[w]] = seqs[ConvOf[w]] /\ clears' = clears
          /\ backlog' = backlog /\ cursor' = cursor /\ told' = told
      BY <2>2, <1>0, <1>1 DEF Publish, TypeOK, consumerVars
    <3>2. queue'[w] = queue[w] /\ pc'[w] = pc[w]
      BY <2>2, <1>0, <1>1, EnvelopeFields DEF Publish, Push, Listening, TypeOK
    <3> QED BY <3>1, <3>2, <1>0, FeedFrame DEF FeedOk, Shape, Listening
  <2> QED BY <2>1, <2>2
<1>2. ASSUME NEW c \in Conversations, Clear(c) PROVE FeedOk(w)'
  <2>1. CASE c = ConvOf[w]
    <3>1. clears'[ConvOf[w]] # 0
      BY <2>1, <1>0, <1>2 DEF Clear, TypeOK
    <3>2. UNCHANGED <<pc, backlog, cursor>>
      BY <1>2 DEF Clear, feedVars, consumerVars
    <3> QED BY <3>1, <3>2, <1>0 DEF FeedOk, Shape, Listening, GapIsFirst
  <2>2. CASE c # ConvOf[w]
    BY <2>2, <1>0, <1>2, FeedFrame
       DEF Clear, TypeOK, feedVars, consumerVars, FeedOk, Shape, Listening
  <2> QED BY <2>1, <2>2
(* A step of another consumer's feed is not seen by the feed of w. *)
<1>3. ASSUME NEW v \in Watchers \ {w}, Watch(v) \/ Pull(v) \/ Break(v) PROVE FeedOk(w)'
  <2>1. /\ UNCHANGED <<seqs, clears>>
        /\ backlog'[w] = backlog[w] /\ queue'[w] = queue[w] /\ pc'[w] = pc[w]
        /\ cursor'[w] = cursor[w] /\ told'[w] = told[w]
    BY <1>0, <1>3 DEF Watch, Pull, PullBacklog, PullLive, PullWait, PullEnd, Break, Hand,
                      TypeOK, logVars, consumerVars
  <2> QED BY <2>1, <1>0, FeedFrame DEF FeedOk, Shape, Listening
<1>4. ASSUME Watch(w) PROVE FeedOk(w)'
  BY <1>4, <1>0, FeedWatch
<1>5. ASSUME PullBacklog(w) PROVE FeedOk(w)'
  BY <1>5, <1>0, FeedPullBacklog
<1>6. ASSUME PullLive(w) PROVE FeedOk(w)'
  BY <1>6, <1>0, FeedPullLive
<1>7. ASSUME PullWait(w) \/ PullEnd(w) PROVE FeedOk(w)'
  <2>1. /\ UNCHANGED <<seqs, clears, backlog, queue, cursor, told>>
        /\ Listening(w) /\ (pc'[w] # "backlog" => backlog[w] = <<>>)
    BY <1>0, <1>7 DEF PullWait, PullEnd, AtQueue, Listening, TypeOK, logVars, consumerVars,
                      FeedOk, Shape
  <2> QED BY <2>1, <1>0, FeedFrame
<1>8. ASSUME Break(w) PROVE FeedOk(w)'
  <2>1. ~Listening(w)' /\ UNCHANGED <<seqs, clears, cursor>>
    BY <1>0, <1>8 DEF Break, Listening, TypeOK, logVars, consumerVars
  <2> QED BY <2>1, <1>0 DEF FeedOk, Shape
<1>9. ASSUME Lost PROVE FeedOk(w)'
  <2>1. /\ UNCHANGED <<seqs, clears, backlog, queue, cursor, told>>
        /\ Listening(w)' = Listening(w)
        /\ pc'[w] # "backlog" => pc[w] # "backlog"
    BY <1>0, <1>9 DEF Lost, Listening, TypeOK, logVars, consumerVars
  <2> QED BY <2>1, <1>0, FeedFrame DEF FeedOk, Shape
<1>10. ASSUME UNCHANGED vars PROVE FeedOk(w)'
  BY <1>10, <1>0, FeedFrame DEF vars, logVars, feedVars, consumerVars, Listening, FeedOk, Shape
<1> QED BY <1>1, <1>2, <1>3, <1>4, <1>5, <1>6, <1>7, <1>8, <1>9, <1>10 DEF Next, Pull

LEMMA IInvStep == IInv /\ [Next]_vars => IInv'
BY LogStep, TypeStep, FeedStep DEF IInv

LEMMA Inductive == Spec => []IInv
BY InitIInv, IInvStep, PTL DEF Spec

-----------------------------------------------------------------------------
(* The variables keep their types, and a gap is only ever the first thing  *)
(* a feed yields (events.mjs, the whole module).                           *)
THEOREM TypeCorrect == Spec => []TypeOK
BY Inductive, PTL DEF IInv

(* For every replayBufferSize, publish() leaves exactly the last           *)
(* min(bufferSize, seq) envelopes of the conversation in the buffer, in    *)
(* order and with no hole (events.mjs, lines 33-42).                       *)
THEOREM BufferCorrect == Spec => []BufferIsSuffix
BY Inductive, PTL DEF IInv

(* For every replayBufferSize, since(c, n) returns the buffered envelopes   *)
(* after n, in order and once each, and what it reports as missed is        *)
(* exactly the rest (events.mjs, lines 48-53).                              *)
THEOREM SinceCorrect == Spec => []SinceIsExact
BY Inductive, SinceExact, PTL DEF IInv

(* Every open feed of a conversation that was never cleared holds, once    *)
(* and in order, all that its consumer has still to see, and announces     *)
(* what it cannot hold any more (events.mjs, lines 72-101).                *)
THEOREM FeedCorrect == Spec => []FeedIsComplete
BY Inductive, PTL DEF IInv

LEMMA WaitingStep == TypeOK /\ WaitingMeansIdle /\ [Next]_vars => WaitingMeansIdle'
<1> SUFFICES ASSUME TypeOK, WaitingMeansIdle, [Next]_vars, NEW w \in Watchers, pc'[w] = "waiting"
             PROVE  queue'[w] = <<>> /\ ~closed'[w]
  BY DEF WaitingMeansIdle
<1>1. ASSUME NEW c \in Conversations, Publish(c) PROVE queue'[w] = <<>> /\ ~closed'[w]
  BY <1>1 DEF Publish, Push, TypeOK, WaitingMeansIdle, Listening
<1>2. ASSUME NEW c \in Conversations, Clear(c) PROVE queue'[w] = <<>> /\ ~closed'[w]
  BY <1>2 DEF Clear, feedVars, WaitingMeansIdle
<1>3. ASSUME NEW v \in Watchers, Watch(v) \/ Break(v) PROVE queue'[w] = <<>> /\ ~closed'[w]
  BY <1>3 DEF Watch, Break, TypeOK, WaitingMeansIdle
<1>4. ASSUME NEW v \in Watchers, Pull(v) PROVE queue'[w] = <<>> /\ ~closed'[w]
  BY <1>4 DEF Pull, PullBacklog, PullLive, PullWait, PullEnd, TypeOK, WaitingMeansIdle
<1>5. ASSUME Lost PROVE queue'[w] = <<>> /\ ~closed'[w]
  BY <1>5 DEF Lost, TypeOK, WaitingMeansIdle
<1>6. ASSUME UNCHANGED vars PROVE queue'[w] = <<>> /\ ~closed'[w]
  BY <1>6 DEF vars, feedVars, WaitingMeansIdle
<1> QED BY <1>1, <1>2, <1>3, <1>4, <1>5, <1>6 DEF Next

(* A consumer suspended on its feed has nothing to read and its owner is   *)
(* still connected: no publication and no loss slips between the test of   *)
(* the queue and the wait (events.mjs, lines 76-81 and 91-93).             *)
THEOREM WaitingCorrect == Spec => []WaitingMeansIdle
<1>1. Init => WaitingMeansIdle
  BY DEF Init, WaitingMeansIdle
<1> QED BY <1>1, WaitingStep, TypeCorrect, PTL DEF Spec
=============================================================================
