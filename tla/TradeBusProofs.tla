---------------------------- MODULE TradeBusProofs ----------------------------
(***************************************************************************)
(* Theorems about the trade component.  Inductive shows the invariant TInv *)
(* of TradeBus.  Its heart is the way of the batches of a pool: from       *)
(* #currentBatch through #queue, #addQueue of the manager and the IPC      *)
(* channel to the queue of the trader, older batches are always ahead, so  *)
(* none is on the way twice or sent after its outcome was told.  From that *)
(* follow what a job knows of its batch (LiveOK, JobOK, ToldWhenSent),     *)
(* what took effect (EffectOK, RanOK) and the nonces (NonceOK).            *)
(***************************************************************************)
EXTENDS TradeBus, FiniteSetTheorems, TLAPS
-------------------------------------------------------------------------------
(* The inductive invariant, in named parts.                                *)

Statuses == {"waiting", "preprocessing", "enqueued", "reporting", "working", "succeeded", "failed",
             "stalling"}

Actions == {"MA_BATCH_ADDED", "MA_BATCH_WORKING", "MA_BATCH_FINISHED", "MA_BATCH_FAILED"}

Outcomes == {"MA_BATCH_FINISHED", "MA_BATCH_FAILED"}

Batches == [pool : Pools, calls : Seq(Jobs), callToJobId : Seq(Jobs),
            finished : {"pending", "resolved", "rejected"}, failed : SUBSET Nat]

Messages == [action : Actions, id : Nat, failedCalls : SUBSET Nat]

\* The types TypeOK leaves open: what the sequences are made of.
Typed ==
    /\ batches \in Seq(Batches)
    /\ queue \in [Pools -> Seq(Nat)]
    /\ tq \in [Pools -> Seq(Nat)]
    /\ sent \in [Pools -> Seq(Nat)]
    /\ addQueue \in Seq(Nat)
    /\ toTrader \in Seq(Nat)
    /\ fromTrader \in Seq(Messages)
    /\ addSent => addQueue # <<>>

OfPool(p) == {b \in BatchIds : batches[b].pool = p}

\* Every queue of a pool holds batches of that pool.
PoolsOK(p) ==
    /\ Range(queue[p]) \cup Range(tq[p]) \cup Range(sent[p]) \subseteq OfPool(p)
    /\ current[p] # None => current[p] \in OfPool(p)

\* The calls of a job are side by side, Calls[j] of them, in a batch of its pool.
Together(b, j) ==
    \E s \in Nat :
        /\ s + Calls[j] <= Len(batches[b].calls)
        /\ \A k \in 1..Len(batches[b].calls) :
            (batches[b].calls[k] = j) <=> (s < k /\ k <= s + Calls[j])

BatchOK(b) ==
    /\ batches[b].callToJobId = batches[b].calls
    /\ JobsOf(b) # {}
    /\ \A j \in JobsOf(b) : PoolOf[j] = batches[b].pool /\ Together(b, j)

\* A batch whose outcome the trader has told.
Told(b) ==
    \/ batches[b].finished # "pending"
    \/ \E m \in Range(fromTrader) : m.id = b /\ m.action \in Outcomes

Busy(p, b) == sending[p] # "no" /\ b = Head(tq[p])

Done(p) == {b \in OfPool(p) : Told(b) \/ (b \in Range(sent[p]) /\ ~Busy(p, b))}

Unsent == IF addSent THEN Tail(addQueue) ELSE addQueue

\* The way of the batches of a pool, from its end to its beginning.
Stages(p) ==
    [s \in 0..5 |->
        CASE s = 0 -> Done(p)
          [] s = 1 -> Range(tq[p])
          [] s = 2 -> Range(toTrader) \cap OfPool(p)
          [] s = 3 -> Range(Unsent) \cap OfPool(p)
          [] s = 4 -> Range(queue[p])
          [] s = 5 -> {current[p]} \ {None}]

\* The batches that are ahead on the way are older, so none is on it twice.
Chained(F) == \A s, t \in 0..5 : s < t => \A a \in F[s], b \in F[t] : a < b

Rising(s, P) == \A i, k \in 1..Len(s) : i < k /\ s[i] \in P /\ s[k] \in P => s[i] < s[k]

WayOK(p) ==
    /\ Chained(Stages(p))
    /\ Rising(tq[p], OfPool(p))
    /\ Rising(toTrader, OfPool(p))
    /\ Rising(Unsent, OfPool(p))
    /\ Rising(queue[p], OfPool(p))

OnTheWay(p) == UNION {Stages(p)[s] : s \in 1..5}

\* The job waits for its batch.
Attached(j, b) == jobBatch[j] = b /\ Unsettled(j)

\* The jobs of a batch that has no outcome yet wait for that batch, but those whose progress
\* was refused when the batch had been sent.
LiveOK(p) ==
    \A b \in OnTheWay(p) : \A j \in JobsOf(b) :
        Attached(j, b) \/ (j \in unreported /\ b \in Range(sent[p]))

JobOK(j) ==
    /\ job[j] \in {"waiting", "preprocessing", "stalling"} => jobBatch[j] = None
    /\ job[j] \in {"enqueued", "reporting", "working", "succeeded"} => jobBatch[j] # None
    /\ jobBatch[j] # None => j \in JobsOf(jobBatch[j])
    /\ job[j] \in {"reporting", "working"} => wasSent(j)
    /\ retries[j] > 0 => j \in MayRetry

\* The trader tells that a batch is worked on when it sends it.
ToldWhenSent ==
    \A m \in Range(fromTrader) :
        m.action = "MA_BATCH_WORKING" => m.id \in Range(sent[batches[m.id].pool])

SendingOK(p) ==
    sending[p] # "no" => tq[p] # <<>> /\ Head(tq[p]) \in Range(sent[p])

Shared(p) == \E q \in Pools \ {p} : OperatorOf[q] = OperatorOf[p]

NonceOK(p) ==
    /\ nonce[p] # Unread /\ sending[p] = "no" => nonce[p] = nextIndex[OperatorOf[p]] \/ Shared(p)
    /\ sending[p] = "clash" => Shared(p)

\* The calls of b that are not among the failed ones took effect.
Effective(b, failed) ==
    \A i \in 1..Len(batches[b].calls) : i \notin failed => ran[callId(b, i)] > 0

EffectOK ==
    /\ \A b \in BatchIds : batches[b].finished = "resolved" => Effective(b, batches[b].failed)
    /\ \A m \in Range(fromTrader) :
        /\ m.failedCalls \subseteq 1..Len(batches[m.id].calls)
        /\ m.action = "MA_BATCH_FINISHED" => Effective(m.id, m.failedCalls)

\* The i-th call of b is not reported as one that failed.
Spared(b, i) ==
    /\ batches[b].finished # "rejected"
    /\ batches[b].finished = "resolved" => i \notin batches[b].failed
    /\ \A m \in Range(fromTrader) :
        m.id = b => /\ m.action # "MA_BATCH_FAILED"
                    /\ m.action = "MA_BATCH_FINISHED" => i \notin m.failedCalls

\* A call that took effect did so once, in the batch its job is in, which is done.
Landed(c) ==
    LET b == jobBatch[c[1]] IN
    /\ ran[c] = 1
    /\ b # None
    /\ b \in Range(sent[PoolOf[c[1]]]) \cap Done(PoolOf[c[1]])
    /\ \E i \in 1..Len(batches[b].calls) : callId(b, i) = c /\ Spared(b, i)

RanOK(c) == ran[c] > 0 /\ ~Doubtful(c[1]) => Landed(c)

TInv ==
    /\ TypeOK /\ Typed
    /\ \A p \in Pools : PoolsOK(p) /\ WayOK(p) /\ LiveOK(p) /\ SendingOK(p) /\ NonceOK(p)
    /\ \A b \in BatchIds : BatchOK(b)
    /\ \A j \in Jobs : JobOK(j)
    /\ ToldWhenSent
    /\ floating \subseteq givenUp
    /\ EffectOK
    /\ \A c \in CallIds : RanOK(c)
    /\ OutcomeIsTrue
    /\ SentInOrder
-------------------------------------------------------------------------------
(* Sequences, and the sets a batch passes through.                         *)

LEMMA RangeIs ==
    ASSUME NEW S, NEW s \in Seq(S)
    PROVE  Range(s) = {s[i] : i \in 1..Len(s)}
  BY DEF Range

LEMMA RangeOfAppend ==
    ASSUME NEW S, NEW s \in Seq(S), NEW x \in S
    PROVE  /\ Append(s, x) \in Seq(S)
           /\ Range(Append(s, x)) = Range(s) \cup {x}
<1>1. /\ Append(s, x) \in Seq(S) /\ Len(Append(s, x)) = Len(s) + 1 /\ Len(s) \in Nat
      /\ \A i \in 1..Len(s) : Append(s, x)[i] = s[i]
      /\ Append(s, x)[Len(s) + 1] = x
  OBVIOUS
<1>2. /\ Range(s) = {s[i] : i \in 1..Len(s)}
      /\ Range(Append(s, x)) = {Append(s, x)[i] : i \in 1..(Len(s) + 1)}
  BY <1>1 DEF Range
<1>3. QED
  BY <1>1, <1>2

LEMMA RangeOfTail ==
    ASSUME NEW S, NEW s \in Seq(S), s # <<>>
    PROVE  /\ Tail(s) \in Seq(S) /\ Head(s) \in S
           /\ Range(s) = Range(Tail(s)) \cup {Head(s)}
<1>1. /\ Tail(s) \in Seq(S) /\ Len(Tail(s)) = Len(s) - 1 /\ Len(s) \in Nat \ {0}
      /\ \A i \in 1..(Len(s) - 1) : Tail(s)[i] = s[i + 1]
      /\ Head(s) = s[1] /\ s[1] \in S
  OBVIOUS
<1>2. /\ Range(s) = {s[i] : i \in 1..Len(s)}
      /\ Range(Tail(s)) = {Tail(s)[i] : i \in 1..(Len(s) - 1)}
  BY ZenonT(60), <1>1, RangeIs
<1>3. ASSUME NEW x \in Range(s) PROVE x \in Range(Tail(s)) \cup {Head(s)}
  <2>1. PICK i \in 1..Len(s) : x = s[i]
    BY <1>2
  <2>2. i = 1 \/ (i - 1 \in 1..(Len(s) - 1) /\ i = (i - 1) + 1)
    BY <1>1
  <2>3. QED
    BY <1>1, <1>2, <2>1, <2>2
<1>4. Range(Tail(s)) \cup {Head(s)} \subseteq Range(s)
  BY <1>1, <1>2
<1>5. QED
  BY <1>1, <1>3, <1>4

LEMMA RangeOfPart ==
    ASSUME NEW S, NEW s \in Seq(S), NEW n \in 0..Len(s)
    PROVE  /\ SubSeq(s, 1, n) \in Seq(S) /\ Range(SubSeq(s, 1, n)) \subseteq Range(s)
           /\ Range(SubSeq(s, n + 1, Len(s))) \subseteq Range(s)
<1>1. /\ SubSeq(s, 1, n) \in Seq(S) /\ Len(SubSeq(s, 1, n)) = n
      /\ \A i \in 1..n : SubSeq(s, 1, n)[i] = s[i]
  OBVIOUS
<1>2. /\ SubSeq(s, n + 1, Len(s)) \in Seq(S) /\ Len(SubSeq(s, n + 1, Len(s))) = Len(s) - n
      /\ \A i \in 1..(Len(s) - n) : SubSeq(s, n + 1, Len(s))[i] = s[n + i] /\ n + i \in 1..Len(s)
  OBVIOUS
<1>3. QED
  BY <1>1, <1>2 DEF Range

LEMMA RangeOfEmpty ==
    ASSUME NEW S PROVE Range(<<>>) = {} /\ \A s \in Seq(S) : s # <<>> => Head(s) \in Range(s)
  BY DEF Range

LEMMA RangeInside ==
    ASSUME NEW S, NEW s \in Seq(S)
    PROVE  Range(s) \subseteq S
  BY DEF Range

LEMMA RisingAppend ==
    ASSUME NEW s \in Seq(Nat), NEW P, NEW x \in Nat, Rising(s, P),
           x \in P => \A y \in Range(s) \cap P : y < x
    PROVE  Rising(Append(s, x), P)
<1>1. /\ Len(Append(s, x)) = Len(s) + 1 /\ Len(s) \in Nat
      /\ \A i \in 1..Len(s) : Append(s, x)[i] = s[i] /\ s[i] \in Range(s)
      /\ Append(s, x)[Len(s) + 1] = x
  BY DEF Range
<1>2. QED
  BY <1>1 DEF Rising

LEMMA RisingTail ==
    ASSUME NEW s \in Seq(Nat), NEW P, s # <<>>, Rising(s, P)
    PROVE  /\ Rising(Tail(s), P)
           /\ Head(s) \in P => \A y \in Range(Tail(s)) \cap P : Head(s) < y
<1>1. /\ Len(Tail(s)) = Len(s) - 1 /\ Len(s) \in Nat \ {0} /\ Tail(s) \in Seq(Nat)
      /\ \A i \in 1..(Len(s) - 1) : Tail(s)[i] = s[i + 1]
      /\ Head(s) = s[1]
  OBVIOUS
<1>2. Range(Tail(s)) = {Tail(s)[i] : i \in 1..(Len(s) - 1)}
  BY <1>1, RangeIs
<1>3. Rising(Tail(s), P)
  BY <1>1 DEF Rising
<1>4. ASSUME Head(s) \in P, NEW y \in Range(Tail(s)) \cap P PROVE Head(s) < y
  <2>1. PICK i \in 1..(Len(s) - 1) : y = s[i + 1]
    BY <1>1, <1>2
  <2>2. 1 < i + 1 /\ i + 1 \in 1..Len(s) /\ 1 \in 1..Len(s)
    BY <1>1
  <2>3. QED
    BY <1>1, <1>4, <2>1, <2>2 DEF Rising
<1>5. QED
  BY <1>3, <1>4

LEMMA RisingLess ==
    ASSUME NEW s \in Seq(Nat), NEW P, NEW Q, Rising(s, P), Range(s) \cap Q \subseteq P
    PROVE  Rising(s, Q)
  BY DEF Rising, Range

\* Whatever is in a stage was there before, or came from the stage behind it, where it was
\* the oldest, or is a new batch.
Flows(F, G) ==
    \A s \in 0..5 : \A x \in G[s] :
        \/ x \in F[s]
        \/ s < 5 /\ x \in F[s + 1] /\ x \notin G[s + 1] /\ \A y \in F[s + 1] : x <= y
        \/ s = 5 /\ \A t \in 0..5 : \A y \in F[t] : y < x

LEMMA FlowKeeps ==
    ASSUME NEW F, NEW G, \A s \in 0..5 : F[s] \subseteq Nat /\ G[s] \subseteq Nat,
           Chained(F), Flows(F, G)
    PROVE  Chained(G)
<1> SUFFICES ASSUME NEW s \in 0..5, NEW t \in 0..5, s < t, NEW a \in G[s], NEW b \in G[t]
             PROVE  a < b
  BY DEF Chained
<1>1. a \in Nat /\ b \in Nat
  OBVIOUS
<1>2. \A u, v \in 0..5 : u < v => \A x \in F[u], y \in F[v] : x < y
  BY DEF Chained
<1>3. \/ a \in F[s]
      \/ s + 1 \in 0..5 /\ a \in F[s + 1] /\ a \notin G[s + 1] /\ \A y \in F[s + 1] : a <= y
  BY DEF Flows
<1>4. CASE b \in F[t]
  <2>1. CASE a \in F[s]
    BY <1>2, <1>4, <2>1
  <2>2. CASE s + 1 \in 0..5 /\ a \in F[s + 1] /\ a \notin G[s + 1] /\ \A y \in F[s + 1] : a <= y
    <3>1. CASE t = s + 1
      BY <1>1, <1>4, <2>2, <3>1
    <3>2. CASE t > s + 1
      BY <1>2, <1>4, <2>2, <3>2
    <3>3. QED
      BY <3>1, <3>2
  <2>3. QED
    BY <1>3, <2>1, <2>2
<1>5. CASE t < 5 /\ b \in F[t + 1]
  BY <1>2, <1>3, <1>5
<1>6. CASE t = 5 /\ \A u \in 0..5 : \A y \in F[u] : y < b
  BY <1>3, <1>6
<1>7. QED
  BY <1>4, <1>5, <1>6 DEF Flows
-------------------------------------------------------------------------------
(* The calls of a batch.                                                   *)

LEMMA BatchFacts ==
    ASSUME Typed, NEW b \in BatchIds
    PROVE  /\ batches[b] \in Batches /\ batches[b].pool \in Pools
           /\ batches[b].calls \in Seq(Jobs) /\ batches[b].callToJobId \in Seq(Jobs)
           /\ JobsOf(b) \subseteq Jobs /\ Len(batches[b].calls) \in Nat
           /\ \A i \in 1..Len(batches[b].calls) : batches[b].calls[i] \in JobsOf(b)
<1>1. batches[b] \in Batches
  BY DEF Typed, BatchIds
<1>2. batches[b].pool \in Pools /\ batches[b].calls \in Seq(Jobs) /\ batches[b].callToJobId \in Seq(Jobs)
  BY <1>1 DEF Batches
<1>3. JobsOf(b) = {batches[b].calls[i] : i \in 1..Len(batches[b].calls)}
  BY <1>2, RangeIs DEF JobsOf
<1>4. QED
  BY <1>1, <1>2, <1>3

LEMMA CallIdFacts ==
    ASSUME NEW c \in CallIds
    PROVE  c[1] \in Jobs /\ c[2] \in 1..Calls[c[1]] /\ c = <<c[1], c[2]>>
  BY DEF CallIds

\* The calls of a job are numbered one by one.
LEMMA CallsAreNumbered ==
    ASSUME Typed, NEW b \in BatchIds, NEW j \in Jobs, NEW s \in Nat,
           s + Calls[j] <= Len(batches[b].calls),
           \A k \in 1..Len(batches[b].calls) :
                (batches[b].calls[k] = j) <=> (s < k /\ k <= s + Calls[j]),
           NEW i \in 1..Len(batches[b].calls), batches[b].calls[i] = j
    PROVE  callId(b, i) = <<j, i - s>> /\ i - s \in 1..Calls[j]
<1>1. Len(batches[b].calls) \in Nat /\ Calls[j] \in Nat
  BY BatchFacts, TradeAssumption
<1>2. {k \in 1..i : batches[b].calls[k] = j} = (s + 1)..i
  BY <1>1
<1>3. Cardinality((s + 1)..i) = i - s
  <2>1. s + 1 \in Int /\ i \in Int /\ s + 1 <= i /\ i - (s + 1) + 1 = i - s
    BY <1>1
  <2> DEFINE a == s + 1
  <2> HIDE DEF a
  <2>2. Cardinality(a..i) = IF a > i THEN 0 ELSE i - a + 1
    BY <2>1, FS_Interval DEF a
  <2>3. QED
    BY <2>1, <2>2 DEF a
<1>4. callId(b, i) = <<j, Cardinality({k \in 1..i : batches[b].calls[k] = j})>>
  BY DEF callId
<1>5. i - s \in 1..Calls[j]
  BY <1>1
<1>6. QED
  BY <1>2, <1>3, <1>4, <1>5

LEMMA CallIdsOf ==
    ASSUME Typed, NEW b \in BatchIds, BatchOK(b), NEW i \in 1..Len(batches[b].calls)
    PROVE  callId(b, i) \in CallIds /\ callId(b, i)[1] = batches[b].calls[i]
<1> DEFINE j == batches[b].calls[i]
<1>1. j \in Jobs /\ j \in JobsOf(b) /\ Calls[j] \in Nat
  BY BatchFacts, TradeAssumption
<1>2. PICK s \in Nat :
        /\ s + Calls[j] <= Len(batches[b].calls)
        /\ \A k \in 1..Len(batches[b].calls) :
            (batches[b].calls[k] = j) <=> (s < k /\ k <= s + Calls[j])
  BY <1>1 DEF BatchOK, Together
<1>3. callId(b, i) = <<j, i - s>> /\ i - s \in 1..Calls[j]
  BY <1>1, <1>2, CallsAreNumbered
<1>4. QED
  BY <1>1, <1>3 DEF CallIds

LEMMA CallsOf ==
    ASSUME Typed, NEW b \in BatchIds, BatchOK(b), NEW c \in CallIds, c[1] \in JobsOf(b)
    PROVE  \E i \in 1..Len(batches[b].calls) : callId(b, i) = c /\ batches[b].calls[i] = c[1]
<1> DEFINE j == c[1]
<1>1. j \in Jobs /\ Calls[j] \in Nat /\ c[2] \in 1..Calls[j] /\ c = <<j, c[2]>>
      /\ Len(batches[b].calls) \in Nat
  BY CallIdFacts, BatchFacts, TradeAssumption
<1>2. PICK s \in Nat :
        /\ s + Calls[j] <= Len(batches[b].calls)
        /\ \A k \in 1..Len(batches[b].calls) :
            (batches[b].calls[k] = j) <=> (s < k /\ k <= s + Calls[j])
  BY <1>1 DEF BatchOK, Together
<1> DEFINE i == s + c[2]
<1>3. i \in 1..Len(batches[b].calls) /\ s < i /\ i <= s + Calls[j] /\ i - s = c[2]
  BY <1>1, <1>2
<1>4. batches[b].calls[i] = j
  BY <1>2, <1>3
<1>5. callId(b, i) = <<j, i - s>>
  BY <1>1, <1>2, <1>3, <1>4, CallsAreNumbered
<1>6. QED
  BY <1>1, <1>3, <1>4, <1>5

\* A call of a job that is made of one call is the only one of it in a batch.
LEMMA SingleCall ==
    ASSUME Typed, NEW b \in BatchIds, BatchOK(b), NEW j \in JobsOf(b), Calls[j] = 1,
           NEW i \in 1..Len(batches[b].calls), NEW k \in 1..Len(batches[b].calls),
           batches[b].calls[i] = j, batches[b].calls[k] = j
    PROVE  i = k
  BY DEF BatchOK, Together

\* The calls of job j are put at the end of batch id, which may be a new one.
Joined(j, id) ==
    /\ BatchIds' = BatchIds \cup {id}
    /\ id \in Nat \ {0}
    /\ \A b \in BatchIds \ {id} : batches'[b] = batches[b]
    /\ batches' \in Seq(Batches)
    /\ batches'[id].pool = PoolOf[j]
    /\ id \in BatchIds => batches'[id].finished = batches[id].finished
                          /\ batches'[id].failed = batches[id].failed
    /\ id \notin BatchIds => /\ batches'[id].finished = "pending" /\ batches'[id].failed = {}
                             /\ \A b \in BatchIds : b < id
    /\ LET calls == IF id \in BatchIds THEN batches[id].calls ELSE <<>> IN
       batches'[id].calls = calls \o [i \in 1..Calls[j] |-> j]
    /\ batches'[id].callToJobId = batches'[id].calls

LEMMA AddCallsFacts ==
    ASSUME NEW batch \in Batches, NEW j \in Jobs, batch.callToJobId = batch.calls
    PROVE  /\ addCalls(batch, j) \in Batches
           /\ addCalls(batch, j).calls = batch.calls \o [i \in 1..Calls[j] |-> j]
           /\ addCalls(batch, j).callToJobId = addCalls(batch, j).calls
           /\ addCalls(batch, j).pool = batch.pool
           /\ addCalls(batch, j).finished = batch.finished
           /\ addCalls(batch, j).failed = batch.failed
<1> DEFINE n == Calls[j]
           more == [i \in 1..n |-> j]
           calls == batch.calls \o more
           ids == callToJobId(batch, j)
<1>1. n \in Nat /\ batch.calls \in Seq(Jobs) /\ Len(batch.calls) \in Nat
  BY TradeAssumption DEF Batches
<1>2. more \in Seq(Jobs) /\ Len(more) = n /\ \A i \in 1..n : more[i] = j
  BY <1>1
<1>3. /\ calls \in Seq(Jobs) /\ Len(calls) = Len(batch.calls) + n
      /\ \A i \in 1..Len(batch.calls) : calls[i] = batch.calls[i]
      /\ \A i \in 1..(Len(batch.calls) + n) : i > Len(batch.calls) => calls[i] = j
  <2> HIDE DEF n
  <2>1. calls \in Seq(Jobs) /\ Len(calls) = Len(batch.calls) + n
    BY <1>1, <1>2
  <2>2. ASSUME NEW i \in 1..Len(batch.calls) PROVE calls[i] = batch.calls[i]
    BY <1>1, <1>2
  <2>3. ASSUME NEW i \in 1..(Len(batch.calls) + n), i > Len(batch.calls) PROVE calls[i] = j
    <3>1. calls[i] = more[i - Len(batch.calls)] /\ i - Len(batch.calls) \in 1..n
      <4> HIDE DEF more
      <4>1. QED
        BY <1>1, <1>2, <2>3
    <3>2. QED
      BY <1>2, <3>1
  <2>4. QED
    BY <2>1, <2>2, <2>3
<1>4. ids = calls
  <2>1. ids = [i \in 1..(Len(batch.calls) + n) |->
                IF i > Len(batch.calls) THEN j ELSE batch.calls[i]]
    BY DEF callToJobId
  <2>2. DOMAIN calls = 1..(Len(batch.calls) + n)
    <3> HIDE DEF calls, n
    <3>1. QED
      BY <1>3
  <2>3. \A i \in 1..(Len(batch.calls) + n) : calls[i] = ids[i]
    <3>1. ASSUME NEW i \in 1..(Len(batch.calls) + n) PROVE calls[i] = ids[i]
      <4>1. ids[i] = IF i > Len(batch.calls) THEN j ELSE batch.calls[i]
        BY <2>1
      <4>2. i > Len(batch.calls) \/ i \in 1..Len(batch.calls)
        <5> HIDE DEF n
        <5>1. QED
          BY <1>1
      <4>3. QED
        BY <1>3, <4>1, <4>2
    <3>2. QED
      BY <3>1
  <2>4. calls = [i \in DOMAIN calls |-> calls[i]]
    <3> HIDE DEF calls
    <3>1. QED
      BY <1>3
  <2>5. QED
    <3> HIDE DEF calls, ids, n
    <3>1. QED
      BY <2>1, <2>2, <2>3, <2>4
<1>5. addCalls(batch, j) = [batch EXCEPT !.calls = calls, !.callToJobId = ids]
  BY DEF addCalls
<1>6. QED
  <2> HIDE DEF calls, ids
  <2>1. addCalls(batch, j) \in Batches
    BY <1>3, <1>4, <1>5 DEF Batches
  <2>2. QED
    BY <1>4, <1>5, <2>1 DEF calls, Batches
-------------------------------------------------------------------------------
(* How a job gets into a batch.                                            *)

\* What becomes of the batch that was current in pool p.
Kept(p, id) == id \in BatchIds /\ id = current[p] /\ queue' = queue

Begun(p, id) == id \notin BatchIds /\ current[p] = None /\ queue' = queue

Replaced(p, id) ==
    /\ id \notin BatchIds /\ current[p] \in OfPool(p)
    /\ queue' = [queue EXCEPT ![p] = Append(@, current[p])]

Put(j, id) ==
    /\ Joined(j, id)
    /\ Kept(PoolOf[j], id) \/ Begun(PoolOf[j], id) \/ Replaced(PoolOf[j], id)
    /\ current' = [current EXCEPT ![PoolOf[j]] = id]
    /\ jobBatch' = [jobBatch EXCEPT ![j] = id]

LEMMA NewBatchFacts ==
    ASSUME NEW p \in Pools
    PROVE  /\ NewBatch(p) \in Batches /\ NewBatch(p).pool = p
           /\ NewBatch(p).calls = <<>> /\ NewBatch(p).callToJobId = <<>>
           /\ NewBatch(p).finished = "pending" /\ NewBatch(p).failed = {}
  BY DEF NewBatch, Batches

LEMMA AddJobFacts ==
    ASSUME TypeOK, Typed, \A p \in Pools : PoolsOK(p), \A b \in BatchIds : BatchOK(b),
           NEW j \in Jobs, AddJob(j)
    PROVE  \E id : Put(j, id)
<1> DEFINE p == PoolOf[j]
           new == current[p] = None \/ isFull(p)
           id == IF new THEN Len(batches) + 1 ELSE current[p]
           base == IF new THEN Append(batches, NewBatch(p)) ELSE batches
<1>1. /\ batches' = [base EXCEPT ![id] = addCalls(@, j)]
      /\ current' = [current EXCEPT ![p] = id]
      /\ queue' = commitFull(p)
      /\ jobBatch' = [jobBatch EXCEPT ![j] = id]
  BY DEF AddJob
<1>2. p \in Pools /\ Len(batches) \in Nat /\ batches \in Seq(Batches)
  BY TradeAssumption DEF Typed
<1>3. current[p] # None => current[p] \in OfPool(p) /\ current[p] \in BatchIds
                           /\ batches[current[p]].pool = p
  BY <1>2 DEF PoolsOK, OfPool
<1>4. isFull(p) => current[p] # None
  BY DEF isFull
<1> HIDE DEF p
<1>5. CASE ~new
  <2>1. id = current[p] /\ id \in BatchIds /\ base = batches /\ batches[id].pool = p
    BY <1>3, <1>5
  <2>2. Kept(p, id)
    BY <1>1, <1>5, <2>1 DEF Kept, commitFull
  <2>3. batches[id] \in Batches /\ batches[id].callToJobId = batches[id].calls
    BY <2>1, BatchFacts DEF BatchOK
  <2> DEFINE b == addCalls(batches[id], j)
  <2>4. /\ b \in Batches /\ b.calls = batches[id].calls \o [i \in 1..Calls[j] |-> j]
        /\ b.callToJobId = b.calls /\ b.pool = p
        /\ b.finished = batches[id].finished /\ b.failed = batches[id].failed
    BY <2>1, <2>3, AddCallsFacts
  <2>5. batches' = [batches EXCEPT ![id] = b]
    BY <1>1, <2>1
  <2> HIDE DEF b, id
  <2>6. /\ batches' \in Seq(Batches) /\ Len(batches') = Len(batches) /\ batches'[id] = b
        /\ \A c \in BatchIds \ {id} : batches'[c] = batches[c]
    BY <1>2, <2>1, <2>4, <2>5 DEF BatchIds
  <2>7. BatchIds' = BatchIds \cup {id} /\ id \in Nat \ {0}
    BY <1>2, <2>1, <2>6 DEF BatchIds
  <2>8. Joined(j, id)
    BY <2>1, <2>4, <2>6, <2>7 DEF Joined, p
  <2>9. QED
    BY <1>1, <2>2, <2>8 DEF Put, id, p
<1>6. CASE new
  <2> DEFINE empty == NewBatch(p)
             b == addCalls(empty, j)
  <2>1. id = Len(batches) + 1 /\ base = Append(batches, empty)
    BY <1>6
  <2>2. /\ empty \in Batches /\ empty.pool = p /\ empty.calls = <<>> /\ empty.callToJobId = <<>>
        /\ empty.finished = "pending" /\ empty.failed = {}
    BY <1>2, NewBatchFacts
  <2>3. /\ b \in Batches /\ b.calls = <<>> \o [i \in 1..Calls[j] |-> j]
        /\ b.callToJobId = b.calls /\ b.pool = p /\ b.finished = "pending" /\ b.failed = {}
    <3> HIDE DEF empty, id, base, new
    <3>1. /\ addCalls(empty, j) \in Batches
          /\ addCalls(empty, j).calls = empty.calls \o [i \in 1..Calls[j] |-> j]
          /\ addCalls(empty, j).callToJobId = addCalls(empty, j).calls
          /\ addCalls(empty, j).pool = empty.pool
          /\ addCalls(empty, j).finished = empty.finished
          /\ addCalls(empty, j).failed = empty.failed
      BY <2>2, AddCallsFacts
    <3>2. QED
      BY <2>2, <3>1
  <2>4. base[id] = empty /\ base \in Seq(Batches) /\ Len(base) = id
        /\ \A c \in BatchIds : base[c] = batches[c]
    <3> HIDE DEF empty
    <3>1. QED
      BY <1>2, <2>1, <2>2 DEF BatchIds
  <2>5. batches' = [base EXCEPT ![id] = b]
    BY <1>1, <2>4
  <2> HIDE DEF b, id, base, empty, new
  <2>6. /\ id \notin BatchIds /\ id \in Nat \ {0} /\ \A c \in BatchIds : c < id
        /\ 1..id = BatchIds \cup {id}
    BY <1>2, <2>1 DEF BatchIds
  <2>7. /\ batches' \in Seq(Batches) /\ Len(batches') = id /\ batches'[id] = b
        /\ \A c \in BatchIds : batches'[c] = batches[c]
    BY <2>3, <2>4, <2>5, <2>6
  <2>8. BatchIds' = BatchIds \cup {id}
    BY <2>6, <2>7 DEF BatchIds
  <2>9. Joined(j, id)
    BY <2>3, <2>6, <2>7, <2>8 DEF Joined, p
  <2>10. Begun(p, id) \/ Replaced(p, id)
    <3>1. CASE current[p] = None
      BY <1>1, <1>4, <2>6, <3>1 DEF Begun, commitFull
    <3>2. CASE current[p] # None
      BY <1>1, <1>3, <1>6, <2>6, <3>2 DEF Replaced, commitFull, new
    <3>3. QED
      BY <3>1, <3>2
  <2>11. QED
    BY <1>1, <2>9, <2>10 DEF Put, id, p
<1>7. QED
  BY <1>5, <1>6
-------------------------------------------------------------------------------
(* Types.                                                                  *)

Types == TypeOK /\ Typed

\* What is known of the batches and of the sequences they are in.
LEMMA IdFacts ==
    ASSUME Types
    PROVE  /\ BatchIds \subseteq Nat \ {0} /\ None \notin BatchIds
           /\ \A p \in Pools :
                /\ queue[p] \in Seq(Nat) /\ Range(queue[p]) \subseteq BatchIds
                /\ tq[p] \in Seq(Nat) /\ Range(tq[p]) \subseteq BatchIds
                /\ sent[p] \in Seq(Nat) /\ Range(sent[p]) \subseteq BatchIds
                /\ current[p] \in BatchIds \cup {None}
           /\ addQueue \in Seq(Nat) /\ Range(addQueue) \subseteq BatchIds
           /\ toTrader \in Seq(Nat) /\ Range(toTrader) \subseteq BatchIds
<1>1. Len(batches) \in Nat
  BY DEF Types, Typed
<1>2. BatchIds \subseteq Nat \ {0} /\ None \notin BatchIds
  BY <1>1 DEF BatchIds, None
<1>3. QED
  BY <1>2 DEF Types, TypeOK, Typed

LEMMA MessageFacts ==
    ASSUME Types, NEW m \in Range(fromTrader)
    PROVE  /\ m \in Messages /\ m.id \in BatchIds /\ m.action \in Actions
           /\ m.failedCalls \in SUBSET Nat
<1>1. m \in Messages
  BY RangeInside DEF Types, Typed
<1>2. m.id \in BatchIds
  BY DEF Types, TypeOK
<1>3. QED
  BY <1>1, <1>2 DEF Messages

LEMMA HeadFacts ==
    ASSUME NEW S, NEW s \in Seq(S), s # <<>>
    PROVE  /\ Head(s) \in Range(s) /\ Head(s) \in S
           /\ Tail(s) \in Seq(S) /\ Range(Tail(s)) \subseteq Range(s)
  BY RangeOfTail, RangeOfEmpty

\* The trader sends a message about batch b.
Says(action, b, failed) ==
    fromTrader' = Append(fromTrader, [action |-> action, id |-> b, failedCalls |-> failed])

LEMMA SaysFacts ==
    ASSUME Types, NEW b \in BatchIds, NEW action \in Actions, NEW failed \in SUBSET Nat,
           Says(action, b, failed)
    PROVE  /\ fromTrader' \in Seq(Messages)
           /\ Range(fromTrader') =
                Range(fromTrader) \cup {[action |-> action, id |-> b, failedCalls |-> failed]}
           /\ {m.id : m \in Range(fromTrader')} \subseteq BatchIds
<1> DEFINE m == [action |-> action, id |-> b, failedCalls |-> failed]
<1>1. m \in Messages /\ m.id = b
  BY IdFacts DEF Messages
<1>2. fromTrader \in Seq(Messages) /\ fromTrader' = Append(fromTrader, m)
  BY DEF Types, Typed, Says
<1>3. {n.id : n \in Range(fromTrader)} \subseteq BatchIds
  BY DEF Types, TypeOK
<1> HIDE DEF m
<1>4. fromTrader' \in Seq(Messages) /\ Range(fromTrader') = Range(fromTrader) \cup {m}
  BY <1>1, <1>2, RangeOfAppend
<1>5. QED
  BY <1>1, <1>3, <1>4 DEF m

\* A message is taken from the channel.
Heard == fromTrader # <<>> /\ fromTrader' = Tail(fromTrader)

LEMMA HeardFacts ==
    ASSUME Types, Heard
    PROVE  /\ fromTrader' \in Seq(Messages) /\ Range(fromTrader') \subseteq Range(fromTrader)
           /\ {m.id : m \in Range(fromTrader')} \subseteq BatchIds
           /\ Head(fromTrader) \in Range(fromTrader) /\ Head(fromTrader).id \in BatchIds
<1>1. fromTrader \in Seq(Messages) /\ {m.id : m \in Range(fromTrader)} \subseteq BatchIds
  BY DEF Types, Typed, TypeOK
<1>2. QED
  BY <1>1, HeadFacts DEF Heard
-------------------------------------------------------------------------------
(* Every step keeps the types.                                             *)

rest == <<dequeuing, managerVars, ipcVars, traderVars, chainVars, sent, givenUp, stranded>>

LEMMA FaultFacts ==
    ASSUME Types, Fault
    PROVE  faults' \in 0..MaxFaults
<1>1. MaxFaults \in Nat /\ faults \in 0..MaxFaults
  BY TradeAssumption DEF Types, TypeOK
<1>2. QED
  BY <1>1 DEF Fault

\* What the two ways in which processJob rejects have in common.
LEMMA RejectsFacts ==
    ASSUME Types, NEW j \in Jobs, Rejects(j)
    PROVE  /\ unreported \subseteq unreported' /\ unreported' \subseteq unreported \cup {j}
           /\ unreported' \subseteq Jobs /\ faults' \in 0..MaxFaults
           /\ job[j] \in {"reporting", "working"}
           /\ j \in unreported' \/ (batches[jobBatch[j]].finished # "pending" /\ jobFailed(j))
<1>1. unreported \subseteq Jobs /\ faults \in 0..MaxFaults
  BY DEF Types, TypeOK
<1>2. CASE ToldOfFailure(j)
  BY <1>1, <1>2 DEF ToldOfFailure
<1>3. CASE ReportRefused(j)
  <2>1. /\ unreported' = unreported \cup {j} /\ job[j] \in {"reporting", "working"}
    BY <1>3 DEF ReportRefused
  <2>2. faults' \in 0..MaxFaults
    BY <1>3, FaultFacts DEF ReportRefused
  <2>3. QED
    BY <1>1, <2>1, <2>2
<1>4. QED
  BY <1>2, <1>3 DEF Rejects

LEMMA JoinedLengths ==
    ASSUME Types, NEW j \in Jobs, NEW id, Joined(j, id)
    PROVE  /\ Len(batches'[id].calls) \in Nat
           /\ id \in BatchIds => Len(batches[id].calls) <= Len(batches'[id].calls)
           /\ DOMAIN batches'[id].callToJobId = 1..Len(batches'[id].calls)
           /\ batches'[id].failed \subseteq 1..Len(batches'[id].calls)
           /\ batches'[id].finished \in {"pending", "resolved", "rejected"}
<1> DEFINE old == IF id \in BatchIds THEN batches[id].calls ELSE <<>>
           more == [i \in 1..Calls[j] |-> j]
<1>1. old \in Seq(Jobs) /\ more \in Seq(Jobs) /\ Len(old) \in Nat
  BY BatchFacts, TradeAssumption DEF Types
<1>2. /\ batches'[id].calls = old \o more /\ batches'[id].callToJobId = batches'[id].calls
      /\ id \in BatchIds => batches'[id].failed = batches[id].failed
      /\ id \notin BatchIds => batches'[id].failed = {}
      /\ id \in BatchIds => batches'[id].finished = batches[id].finished
      /\ id \notin BatchIds => batches'[id].finished = "pending"
  BY DEF Joined
<1>3. id \in BatchIds => old = batches[id].calls
  OBVIOUS
<1> HIDE DEF old, more
<1>4. Len(old \o more) \in Nat /\ Len(old) <= Len(old \o more)
      /\ DOMAIN (old \o more) = 1..Len(old \o more)
  BY <1>1
<1>5. id \in BatchIds => /\ batches[id].failed \subseteq 1..Len(old)
                         /\ batches[id].finished \in {"pending", "resolved", "rejected"}
  BY <1>3 DEF Types, TypeOK
<1>6. 1..Len(old) \subseteq 1..Len(old \o more)
  BY <1>1, <1>4
<1>7. QED
  BY <1>2, <1>3, <1>4, <1>5, <1>6

LEMMA PutTypes ==
    ASSUME Types, NEW j \in Jobs, NEW id, Put(j, id), UNCHANGED rest,
           job' \in [Jobs -> Statuses], retries' \in [Jobs -> 0..TxRetryTimes],
           unreported' \subseteq Jobs, faults' \in 0..MaxFaults
    PROVE  Types'
<1>1. Joined(j, id) /\ PoolOf[j] \in Pools
  BY TradeAssumption DEF Put
<1>2. /\ BatchIds \subseteq BatchIds' /\ id \in BatchIds' /\ batches' \in Seq(Batches)
      /\ \A b \in BatchIds' : b = id \/ (b \in BatchIds /\ batches'[b] = batches[b])
      /\ batches'[id].pool \in Pools
  BY <1>1 DEF Joined
<1>3. \A b \in BatchIds' :
        /\ batches'[b].pool \in Pools
        /\ batches'[b].finished \in {"pending", "resolved", "rejected"}
        /\ DOMAIN batches'[b].callToJobId = 1..Len(batches'[b].calls)
        /\ batches'[b].failed \subseteq 1..Len(batches'[b].calls)
  <2>1. ASSUME NEW b \in BatchIds, batches'[b] = batches[b]
        PROVE  /\ batches'[b].pool \in Pools
               /\ batches'[b].finished \in {"pending", "resolved", "rejected"}
               /\ DOMAIN batches'[b].callToJobId = 1..Len(batches'[b].calls)
               /\ batches'[b].failed \subseteq 1..Len(batches'[b].calls)
    BY <2>1 DEF Types, TypeOK
  <2>2. QED
    BY <1>1, <1>2, <2>1, JoinedLengths
<1>4. current' \in [Pools -> BatchIds' \cup {None}] /\ jobBatch' \in [Jobs -> BatchIds' \cup {None}]
  BY <1>1, <1>2 DEF Put, Types, TypeOK
<1>5. queue' \in [Pools -> Seq(Nat)] /\ \A p \in Pools : Range(queue'[p]) \subseteq BatchIds'
  <2>1. queue \in [Pools -> Seq(Nat)] /\ \A p \in Pools : Range(queue[p]) \subseteq BatchIds'
    BY <1>2 DEF Types, TypeOK, Typed
  <2>2. CASE queue' = queue
    BY <2>1, <2>2
  <2>3. CASE Replaced(PoolOf[j], id)
    <3> DEFINE p == PoolOf[j]
    <3>1. current[p] \in Nat /\ current[p] \in BatchIds'
      BY <1>2, <2>3, IdFacts DEF Replaced, OfPool
    <3>2. queue[p] \in Seq(Nat) /\ Range(queue[p]) \subseteq BatchIds'
      BY <1>1, <2>1
    <3>3. Append(queue[p], current[p]) \in Seq(Nat)
          /\ Range(Append(queue[p], current[p])) = Range(queue[p]) \cup {current[p]}
      BY <3>1, <3>2, RangeOfAppend
    <3>4. QED
      BY <1>1, <2>1, <2>3, <3>1, <3>2, <3>3 DEF Replaced
  <2>4. QED
    BY <2>2, <2>3 DEF Put, Kept, Begun
<1>6. QED
  BY <1>2, <1>3, <1>4, <1>5
     DEF Types, TypeOK, Typed, rest, managerVars, ipcVars, traderVars, chainVars, Statuses

LEMMA EnqueueTypes ==
    ASSUME Types, NEW j \in Jobs, NEW id, Put(j, id), Enqueue(j)
    PROVE  Types'
<1>1. job' \in [Jobs -> Statuses]
  BY DEF Enqueue, Types, TypeOK, Statuses
<1>2. TxRetryTimes \in 0..TxRetryTimes /\ 0 \in 0..TxRetryTimes
  BY TradeAssumption
<1>3. retries' \in [Jobs -> 0..TxRetryTimes]
  BY <1>2 DEF Enqueue, Types, TypeOK
<1>4. UNCHANGED rest /\ unreported' \subseteq Jobs /\ faults' \in 0..MaxFaults
  BY DEF Enqueue, rest, histVars, Types, TypeOK
<1>5. QED
  BY <1>1, <1>3, <1>4, PutTypes

LEMMA RetryTypes ==
    ASSUME Types, NEW j \in Jobs, NEW id, Put(j, id), RetryJob(j)
    PROVE  Types'
<1>1. job' \in [Jobs -> Statuses]
  BY DEF RetryJob, Types, TypeOK, Statuses
<1>2. retries[j] - 1 \in 0..TxRetryTimes
  BY TradeAssumption DEF RetryJob, mayRetry, Types, TypeOK
<1>3. retries' \in [Jobs -> 0..TxRetryTimes]
  BY <1>2 DEF RetryJob, Types, TypeOK
<1>4. UNCHANGED rest /\ Rejects(j)
  BY DEF RetryJob, rest
<1>5. QED
  BY <1>1, <1>3, <1>4, PutTypes, RejectsFacts

\* A job goes on, and no batch is touched.
Moves(j) ==
    Take(j) \/ PreprocessFails(j) \/ WaitUntilFinished(j) \/ JobSucceeds(j) \/ JobFails(j)

LEMMA MovesFacts ==
    ASSUME Types, NEW j \in Jobs, Moves(j)
    PROVE  /\ job' \in [Jobs -> Statuses] /\ \A k \in Jobs \ {j} : job'[k] = job[k]
           /\ UNCHANGED <<retries, jobBatch, busVars, managerVars, ipcVars, traderVars, chainVars,
                          sent, givenUp, stranded>>
           /\ unreported \subseteq unreported' /\ unreported' \subseteq Jobs
           /\ faults' \in 0..MaxFaults
<1>1. job \in [Jobs -> Statuses] /\ unreported \subseteq Jobs /\ faults \in 0..MaxFaults
  BY DEF Types, TypeOK, Statuses
<1>2. CASE Take(j) \/ WaitUntilFinished(j) \/ JobSucceeds(j)
  BY <1>1, <1>2 DEF Take, WaitUntilFinished, JobSucceeds, histVars, Statuses
<1>3. CASE PreprocessFails(j)
  BY <1>1, <1>3, FaultFacts DEF PreprocessFails, histVars, Statuses
<1>4. CASE JobFails(j)
  BY <1>1, <1>4, RejectsFacts DEF JobFails, Statuses
<1>5. QED
  BY <1>2, <1>3, <1>4 DEF Moves

LEMMA JobTypes ==
    ASSUME Types, NEW j \in Jobs, Moves(j)
    PROVE  Types'
  BY MovesFacts DEF Types, TypeOK, Typed, BatchIds, Statuses, busVars, managerVars, ipcVars,
                    traderVars, chainVars

LEMMA CommitTypes ==
    ASSUME Types, NEW p \in Pools, CommitTimeout(p)
    PROVE  Types'
<1>1. /\ current[p] \in BatchIds /\ current[p] \in Nat
      /\ queue \in [Pools -> Seq(Nat)] /\ \A q \in Pools : Range(queue[q]) \subseteq BatchIds
  BY IdFacts DEF CommitTimeout, Types, Typed
<1>2. Append(queue[p], current[p]) \in Seq(Nat) /\ Range(Append(queue[p], current[p])) \subseteq BatchIds
  BY <1>1, RangeOfAppend
<1>3. queue' \in [Pools -> Seq(Nat)] /\ \A q \in Pools : Range(queue'[q]) \subseteq BatchIds
  BY <1>1, <1>2 DEF CommitTimeout
<1>4. current' \in [Pools -> BatchIds \cup {None}]
  BY DEF CommitTimeout, afterCommit, Types, TypeOK
<1>5. QED
  BY <1>3, <1>4 DEF CommitTimeout, Types, TypeOK, Typed, BatchIds, jobVars, managerVars, ipcVars,
                    traderVars, chainVars, histVars

LEMMA DequeueTypes ==
    ASSUME Types, NEW p \in Pools, Dequeue(p)
    PROVE  Types'
<1>1. /\ queue[p] \in Seq(Nat) /\ queue[p] # <<>> /\ Range(queue[p]) \subseteq BatchIds
      /\ queue \in [Pools -> Seq(Nat)] /\ \A q \in Pools : Range(queue[q]) \subseteq BatchIds
      /\ addQueue \in Seq(Nat) /\ Range(addQueue) \subseteq BatchIds
  BY IdFacts DEF Dequeue, Types, Typed
<1>2. /\ Head(queue[p]) \in BatchIds /\ Head(queue[p]) \in Nat
      /\ Tail(queue[p]) \in Seq(Nat) /\ Range(Tail(queue[p])) \subseteq BatchIds
  BY <1>1, HeadFacts
<1>3. queue' \in [Pools -> Seq(Nat)] /\ \A q \in Pools : Range(queue'[q]) \subseteq BatchIds
  BY <1>1, <1>2 DEF Dequeue
<1>4. addQueue' \in Seq(Nat) /\ Range(addQueue') \subseteq BatchIds /\ addQueue' # <<>>
  BY <1>1, <1>2, RangeOfAppend DEF Dequeue
<1>5. dequeuing' \in [Pools -> BatchIds \cup {None}]
  BY <1>2 DEF Dequeue, Types, TypeOK
<1>6. QED
  BY <1>3, <1>4, <1>5 DEF Dequeue, Types, TypeOK, Typed, BatchIds, jobVars, managerVars, ipcVars,
                    traderVars, chainVars, histVars

LEMMA SendAddTypes ==
    ASSUME Types, SendAddBatch
    PROVE  Types'
<1>1. addQueue # <<>> /\ Head(addQueue) \in BatchIds /\ Head(addQueue) \in Nat
  BY IdFacts, HeadFacts DEF SendAddBatch
<1>2. toTrader' \in Seq(Nat) /\ Range(toTrader') \subseteq BatchIds
  <2>1. Append(toTrader, Head(addQueue)) \in Seq(Nat)
        /\ Range(Append(toTrader, Head(addQueue))) = Range(toTrader) \cup {Head(addQueue)}
    BY <1>1, IdFacts, RangeOfAppend
  <2>2. toTrader' = toTrader \/ toTrader' = Append(toTrader, Head(addQueue))
    BY DEF SendAddBatch
  <2>3. toTrader \in Seq(Nat) /\ Range(toTrader) \subseteq BatchIds
    BY IdFacts
  <2>4. CASE toTrader' = toTrader
    BY <2>3, <2>4
  <2>5. CASE toTrader' = Append(toTrader, Head(addQueue))
    BY <1>1, <2>1, <2>3, <2>5
  <2>6. QED
    BY <2>2, <2>4, <2>5
<1>3. stranded' \subseteq BatchIds
  BY <1>1 DEF SendAddBatch, Types, TypeOK
<1>4. addSent' = TRUE
  BY DEF SendAddBatch
<1>5. QED
  BY <1>1, <1>2, <1>3, <1>4 DEF SendAddBatch, Types, TypeOK, Typed, BatchIds, jobVars, busVars,
                    traderVars, chainVars, histVars

LEMMA BatchAddedTypes ==
    ASSUME Types, OnBatchAdded
    PROVE  Types'
<1>1. /\ fromTrader' \in Seq(Messages) /\ {m.id : m \in Range(fromTrader')} \subseteq BatchIds
  BY HeardFacts DEF OnBatchAdded, Received, Heard
<1>2. /\ addQueue' \in Seq(Nat) /\ Range(addQueue') \subseteq BatchIds
      /\ addSent' \in BOOLEAN /\ (addSent' => addQueue' # <<>>)
      /\ dequeuing' \in [Pools -> BatchIds \cup {None}]
  <2>1. CASE addSent /\ Head(addQueue) = Head(fromTrader).id
    <3>1. addQueue # <<>>
      BY <2>1 DEF Types, Typed
    <3>2. Tail(addQueue) \in Seq(Nat) /\ Range(Tail(addQueue)) \subseteq BatchIds
      BY <3>1, IdFacts, HeadFacts
    <3>3. dequeuing' \in [Pools -> BatchIds \cup {None}]
      BY <2>1 DEF OnBatchAdded, resumed, Types, TypeOK
    <3>4. QED
      BY <2>1, <3>2, <3>3 DEF OnBatchAdded
  <2>2. CASE ~(addSent /\ Head(addQueue) = Head(fromTrader).id)
    BY <2>2 DEF OnBatchAdded, Types, Typed, TypeOK
  <2>3. QED
    BY <2>1, <2>2
<1>3. QED
  BY <1>1, <1>2 DEF OnBatchAdded, Types, TypeOK, Typed, BatchIds, jobVars, traderVars, chainVars,
                    histVars

LEMMA BatchWorkingTypes ==
    ASSUME Types, OnBatchWorking
    PROVE  Types'
<1>1. /\ fromTrader' \in Seq(Messages) /\ {m.id : m \in Range(fromTrader')} \subseteq BatchIds
  BY HeardFacts DEF OnBatchWorking, Received, Heard
<1>2. job' \in [Jobs -> Statuses]
  BY DEF OnBatchWorking, Types, TypeOK, Statuses
<1>3. QED
  BY <1>1, <1>2 DEF OnBatchWorking, Types, TypeOK, Typed, BatchIds, Statuses, busVars, managerVars,
                    traderVars, chainVars, histVars

\* The outcome of batch b is told to its jobs.
Outcome(b, finished, failed) ==
    /\ batches' \in Seq(Batches) /\ BatchIds' = BatchIds
    /\ \A c \in BatchIds : /\ batches'[c].pool = batches[c].pool
                           /\ batches'[c].calls = batches[c].calls
                           /\ batches'[c].callToJobId = batches[c].callToJobId
    /\ \A c \in BatchIds \ {b} : batches'[c] = batches[c]
    /\ batches'[b].finished = finished /\ batches'[b].failed = failed

LEMMA FinishedOutcome ==
    ASSUME Types, OnBatchFinished
    PROVE  Outcome(Head(fromTrader).id, "resolved", Head(fromTrader).failedCalls)
<1> DEFINE m == Head(fromTrader)
           b == m.id
           old == batches[b]
           new == [old EXCEPT !.finished = "resolved", !.failed = m.failedCalls]
<1>1. m \in Range(fromTrader)
  BY HeardFacts DEF OnBatchFinished, Received, Heard
<1>2. b \in BatchIds /\ m.failedCalls \in SUBSET Nat
  BY <1>1, MessageFacts
<1>3. batches' = [batches EXCEPT ![b].finished = "resolved", ![b].failed = m.failedCalls]
  BY DEF OnBatchFinished
<1>4. batches \in Seq(Batches) /\ Len(batches) \in Nat
  BY DEF Types, Typed
<1> HIDE DEF m
<1>5. old \in Batches
  BY <1>2, BatchFacts DEF Types
<1>6. batches' = [batches EXCEPT ![b] = new]
  BY <1>2, <1>3, <1>4 DEF BatchIds
<1>7. /\ new \in Batches /\ new.pool = old.pool /\ new.calls = old.calls
      /\ new.callToJobId = old.callToJobId
      /\ new.finished = "resolved" /\ new.failed = m.failedCalls
  BY <1>2, <1>5 DEF Batches
<1> HIDE DEF new
<1>8. /\ batches' \in Seq(Batches) /\ Len(batches') = Len(batches) /\ batches'[b] = new
      /\ \A c \in BatchIds \ {b} : batches'[c] = batches[c]
  BY <1>2, <1>4, <1>6, <1>7 DEF BatchIds
<1>9. QED
  BY <1>7, <1>8 DEF Outcome, BatchIds, m

LEMMA FailedOutcome ==
    ASSUME Types, OnBatchFailed
    PROVE  Outcome(Head(fromTrader).id, "rejected", batches[Head(fromTrader).id].failed)
<1> DEFINE b == Head(fromTrader).id
           old == batches[b]
           new == [old EXCEPT !.finished = "rejected"]
<1>1. b \in BatchIds
  BY HeardFacts DEF OnBatchFailed, Received, Heard
<1>2. batches' = [batches EXCEPT ![b].finished = "rejected"]
  BY DEF OnBatchFailed
<1>3. batches \in Seq(Batches) /\ Len(batches) \in Nat
  BY DEF Types, Typed
<1> HIDE DEF b
<1>4. old \in Batches
  BY <1>1, BatchFacts DEF Types
<1>5. batches' = [batches EXCEPT ![b] = new]
  BY <1>1, <1>2, <1>3 DEF BatchIds
<1>6. /\ new \in Batches /\ new.pool = old.pool /\ new.calls = old.calls
      /\ new.callToJobId = old.callToJobId
      /\ new.finished = "rejected" /\ new.failed = old.failed
  BY <1>4 DEF Batches
<1> HIDE DEF new
<1>7. /\ batches' \in Seq(Batches) /\ Len(batches') = Len(batches) /\ batches'[b] = new
      /\ \A c \in BatchIds \ {b} : batches'[c] = batches[c]
  BY <1>1, <1>3, <1>5, <1>6 DEF BatchIds
<1>8. QED
  BY <1>6, <1>7 DEF Outcome, BatchIds, b

LEMMA OutcomeTypes ==
    ASSUME Types, OnBatchFinished \/ OnBatchFailed, EffectOK
    PROVE  Types'
<1> DEFINE m == Head(fromTrader)
           b == m.id
<1>1. /\ Heard
      /\ UNCHANGED <<jobVars, current, queue, dequeuing, managerVars, toTrader, traderVars,
                     chainVars, histVars, faults>>
  BY DEF OnBatchFinished, OnBatchFailed, Received, Heard
<1>2. /\ fromTrader' \in Seq(Messages) /\ {n.id : n \in Range(fromTrader')} \subseteq BatchIds
      /\ m \in Range(fromTrader) /\ b \in BatchIds
  BY <1>1, HeardFacts
<1>3. m.failedCalls \subseteq 1..Len(batches[b].calls)
  BY <1>2 DEF EffectOK
<1>4. \E finished \in {"resolved", "rejected"} : \E failed \in SUBSET (1..Len(batches[b].calls)) :
        Outcome(b, finished, failed)
  <2>1. CASE OnBatchFinished
    BY <1>3, <2>1, FinishedOutcome
  <2>2. CASE OnBatchFailed
    BY <1>2, <2>2, FailedOutcome DEF Types, TypeOK
  <2>3. QED
    BY <2>1, <2>2
<1> HIDE DEF b
<1>5. PICK finished \in {"resolved", "rejected"}, failed \in SUBSET (1..Len(batches[b].calls)) :
        Outcome(b, finished, failed)
  BY <1>4
<1>6. \A c \in BatchIds' :
        /\ batches'[c].pool \in Pools
        /\ batches'[c].finished \in {"pending", "resolved", "rejected"}
        /\ DOMAIN batches'[c].callToJobId = 1..Len(batches'[c].calls)
        /\ batches'[c].failed \subseteq 1..Len(batches'[c].calls)
  BY ZenonT(60), <1>5 DEF Outcome, Types, TypeOK
<1>7. batches' \in Seq(Batches) /\ BatchIds' = BatchIds
  BY <1>5 DEF Outcome
<1>8. QED
  BY <1>1, <1>2, <1>6, <1>7 DEF Types, TypeOK, Typed, jobVars, managerVars, traderVars, chainVars,
                                histVars
-------------------------------------------------------------------------------
LEMMA AddBatchJobTypes ==
    ASSUME Types, AddBatchJob
    PROVE  Types'
<1> DEFINE b == Head(toTrader)
<1>1. /\ toTrader # <<>> /\ toTrader' = Tail(toTrader) /\ Says("MA_BATCH_ADDED", b, {})
      /\ tq' = [tq EXCEPT ![batches[b].pool] = Append(@, b)]
  BY DEF AddBatchJob, Says, ToManager
<1>2. toTrader \in Seq(Nat) /\ Range(toTrader) \subseteq BatchIds
  BY IdFacts
<1>3. /\ b \in BatchIds /\ b \in Nat
      /\ toTrader' \in Seq(Nat) /\ Range(toTrader') \subseteq BatchIds
  BY <1>1, <1>2, HeadFacts
<1> HIDE DEF b
<1>4. /\ fromTrader' \in Seq(Messages) /\ {m.id : m \in Range(fromTrader')} \subseteq BatchIds
  BY <1>1, <1>3, SaysFacts DEF Actions
<1>5. batches[b].pool \in Pools
  BY <1>3 DEF Types, TypeOK
<1>6. /\ tq \in [Pools -> Seq(Nat)] /\ \A q \in Pools : Range(tq[q]) \subseteq BatchIds
  BY IdFacts DEF Types, Typed
<1>7. Append(tq[batches[b].pool], b) \in Seq(Nat)
      /\ Range(Append(tq[batches[b].pool], b)) \subseteq BatchIds
  BY <1>3, <1>5, <1>6, RangeOfAppend
<1>8. tq' \in [Pools -> Seq(Nat)] /\ \A q \in Pools : Range(tq'[q]) \subseteq BatchIds
  BY <1>1, <1>5, <1>6, <1>7
<1>9. QED
  BY <1>3, <1>4, <1>8 DEF AddBatchJob, Types, TypeOK, Typed, BatchIds, jobVars, busVars, managerVars,
                          chainVars, histVars

\* The first batch leaves the queue of a pool in the trader.
Leaves(p) == tq[p] # <<>> /\ tq' = [tq EXCEPT ![p] = Tail(@)]

LEMMA LeavesFacts ==
    ASSUME Types, NEW p \in Pools, Leaves(p)
    PROVE  /\ tq' \in [Pools -> Seq(Nat)] /\ \A q \in Pools : Range(tq'[q]) \subseteq BatchIds
           /\ Head(tq[p]) \in BatchIds /\ Head(tq[p]) \in Range(tq[p])
           /\ Head(tq[p]) \in Nat
<1>1. /\ tq \in [Pools -> Seq(Nat)] /\ \A q \in Pools : Range(tq[q]) \subseteq BatchIds
      /\ tq[p] \in Seq(Nat) /\ tq[p] # <<>>
  BY IdFacts DEF Types, Typed, Leaves
<1>2. /\ Head(tq[p]) \in Range(tq[p]) /\ Head(tq[p]) \in Nat
      /\ Tail(tq[p]) \in Seq(Nat) /\ Range(Tail(tq[p])) \subseteq Range(tq[p])
  BY <1>1, HeadFacts
<1>3. QED
  BY <1>1, <1>2 DEF Leaves

LEMMA ThrowTypes ==
    ASSUME Types, NEW p \in Pools, ProcessBatchThrows(p) \/ ProcessBatchFails(p)
    PROVE  Types'
<1>1. Leaves(p)
  BY DEF ProcessBatchThrows, ProcessBatchFails, AtHead, Leaves
<1>2. faults' \in 0..MaxFaults
  BY TradeAssumption DEF ProcessBatchThrows, ProcessBatchFails, Fault, Types, TypeOK
<1>3. CASE ProcessBatchThrows(p)
  <2>1. stranded' \subseteq BatchIds
    BY <1>1, <1>3, LeavesFacts DEF ProcessBatchThrows, Types, TypeOK
  <2>2. QED
    BY <1>1, <1>2, <1>3, <2>1, LeavesFacts
       DEF ProcessBatchThrows, Types, TypeOK, Typed, BatchIds, jobVars, busVars, managerVars,
           ipcVars, chainVars
<1>4. CASE ProcessBatchFails(p)
  <2>1. Says("MA_BATCH_FAILED", Head(tq[p]), {})
    BY <1>4 DEF ProcessBatchFails, Says, ToManager
  <2>2. /\ fromTrader' \in Seq(Messages) /\ {m.id : m \in Range(fromTrader')} \subseteq BatchIds
    BY <1>1, <2>1, LeavesFacts, SaysFacts DEF Actions
  <2>3. QED
    BY <1>1, <1>2, <1>4, <2>2, LeavesFacts
       DEF ProcessBatchFails, Types, TypeOK, Typed, BatchIds, jobVars, busVars, managerVars,
           chainVars, histVars
<1>5. QED
  BY <1>3, <1>4

LEMMA ReadNonceTypes ==
    ASSUME Types, NEW p \in Pools, ReadNonce(p)
    PROVE  Types'
<1>1. faults' \in 0..MaxFaults
  BY TradeAssumption DEF ReadNonce, Fault, Types, TypeOK
<1>2. OperatorOf[p] \in Operators
  BY TradeAssumption DEF Operators, Range
<1>3. nonce' \in [Pools -> Nat \cup {Unread}]
  BY <1>2 DEF ReadNonce, Types, TypeOK
<1>4. QED
  BY <1>1, <1>3 DEF ReadNonce, Types, TypeOK, Typed, BatchIds, jobVars, busVars, managerVars,
                    ipcVars, chainVars, histVars

\* ProcessBatch sends the first batch, which stays where it is.
Sends(p) ==
    /\ tq[p] # <<>> /\ sending[p] = "no" /\ nonce[p] # Unread
    /\ Says("MA_BATCH_WORKING", Head(tq[p]), {})
    /\ sent' = [sent EXCEPT ![p] = Append(@, Head(tq[p]))]
    /\ \/ /\ nonce[p] = nextIndex[OperatorOf[p]]
          /\ sending' = [sending EXCEPT ![p] = "taken"]
          /\ nextIndex' = [nextIndex EXCEPT ![OperatorOf[p]] = @ + 1]
       \/ /\ nonce[p] # nextIndex[OperatorOf[p]]
          /\ sending' = [sending EXCEPT ![p] = "clash"]
          /\ UNCHANGED nextIndex
    /\ UNCHANGED <<jobVars, busVars, managerVars, toTrader, alive, tq, nonce, floating, ran,
                   givenUp, unreported, stranded, faults>>

LEMMA SendsFacts ==
    ASSUME Types, NEW p \in Pools, ProcessBatch(p)
    PROVE  Sends(p)
<1>1. tq \in [Pools -> Seq(Nat)] /\ Len(tq[p]) \in Nat
  BY DEF Types, Typed
<1>2. PICK i \in 1..Len(tq[p]) :
        /\ mayProcess(p, i)
        /\ fromTrader' = ToManager("MA_BATCH_WORKING", tq[p][i])
        /\ sent' = [sent EXCEPT ![p] = Append(@, tq[p][i])]
        /\ tq' = [tq EXCEPT ![p] = <<tq[p][i]>> \o RemoveAt(@, i)]
  BY DEF ProcessBatch
<1>3. i = 1 /\ tq[p] # <<>> /\ tq[p][1] = Head(tq[p])
  BY <1>1, <1>2 DEF mayProcess
<1>4. <<tq[p][1]>> \o RemoveAt(tq[p], 1) = tq[p]
  <2> DEFINE s == tq[p]
  <2>1. s \in Seq(Nat) /\ s # <<>>
    BY <1>1, <1>3
  <2> HIDE DEF s
  <2>2. SubSeq(s, 1, 1 - 1) = <<>>
    BY <2>1
  <2>3. <<>> \o SubSeq(s, 1 + 1, Len(s)) = Tail(s)
    BY <2>1
  <2>4. <<s[1]>> \o Tail(s) = s
    BY <2>1
  <2>5. QED
    BY <2>2, <2>3, <2>4 DEF RemoveAt, s
<1>5. tq' = tq
  BY <1>1, <1>2, <1>3, <1>4
<1>6. QED
  BY <1>2, <1>3, <1>5 DEF ProcessBatch, Sends, Says, ToManager

LEMMA SendsTypes ==
    ASSUME Types, NEW p \in Pools, Sends(p)
    PROVE  Types'
<1>1. Head(tq[p]) \in BatchIds /\ Head(tq[p]) \in Nat
  BY IdFacts, HeadFacts DEF Sends
<1>2. /\ fromTrader' \in Seq(Messages) /\ {m.id : m \in Range(fromTrader')} \subseteq BatchIds
  BY <1>1, SaysFacts DEF Sends, Actions
<1>3. /\ sent \in [Pools -> Seq(Nat)] /\ \A q \in Pools : Range(sent[q]) \subseteq BatchIds
  BY IdFacts DEF Types, Typed
<1>4. Append(sent[p], Head(tq[p])) \in Seq(Nat) /\ Range(Append(sent[p], Head(tq[p]))) \subseteq BatchIds
  BY <1>1, <1>3, RangeOfAppend
<1>5. sent' \in [Pools -> Seq(Nat)] /\ \A q \in Pools : Range(sent'[q]) \subseteq BatchIds
  BY <1>3, <1>4 DEF Sends
<1>6. OperatorOf[p] \in Operators
  BY TradeAssumption DEF Operators, Range
<1>7. sending' \in [Pools -> {"no", "taken", "clash"}] /\ nextIndex' \in [Operators -> Nat]
  <2>1. sending \in [Pools -> {"no", "taken", "clash"}] /\ nextIndex \in [Operators -> Nat]
    BY DEF Types, TypeOK
  <2>2. nextIndex[OperatorOf[p]] + 1 \in Nat
    BY <1>6, <2>1
  <2>3. nextIndex' = nextIndex \/ nextIndex' = [nextIndex EXCEPT ![OperatorOf[p]] = @ + 1]
    BY DEF Sends
  <2>4. nextIndex' \in [Operators -> Nat]
    BY <1>6, <2>1, <2>2, <2>3
  <2>5. sending' \in [Pools -> {"no", "taken", "clash"}]
    BY <2>1 DEF Sends
  <2>6. QED
    BY <2>4, <2>5
<1>8. QED
  BY <1>2, <1>5, <1>7 DEF Sends, Types, TypeOK, Typed, BatchIds, jobVars, busVars, managerVars

\* The transaction of the first batch is settled; the batch leaves the trader.
Settles(p) ==
    /\ sending[p] # "no" /\ tq[p] # <<>>
    /\ sending' = [sending EXCEPT ![p] = "no"]
    /\ nonce' = [nonce EXCEPT ![p] = Unread]
    /\ Leaves(p)
    /\ UNCHANGED <<jobVars, busVars, managerVars, toTrader, alive, nextIndex, sent, unreported,
                   stranded>>

TxEnds(p) == TxInBlock(p) \/ TxUnreadable(p) \/ TxRefused(p) \/ TxClashes(p) \/ TxTimeout(p)

\* Calls of batch b take effect.
Takes(b, failed) == TakeEffect(b, failed)

LEMMA TakesTypes ==
    ASSUME Types, NEW b, NEW failed, Takes(b, failed)
    PROVE  /\ ran' \in [CallIds -> Nat]
           /\ \A c \in CallIds :
                ran'[c] = IF c \in {callId(b, i) : i \in (1..Len(batches[b].calls)) \ failed}
                          THEN ran[c] + 1 ELSE ran[c]
<1>1. ran \in [CallIds -> Nat]
  BY DEF Types, TypeOK
<1> DEFINE done == {callId(b, i) : i \in (1..Len(batches[b].calls)) \ failed}
<1>2. ran' = [c \in CallIds |-> IF c \in done THEN ran[c] + 1 ELSE ran[c]]
  BY <1>1 DEF Takes, TakeEffect
<1> HIDE DEF done
<1>3. \A c \in CallIds : ran[c] \in Nat /\ ran[c] + 1 \in Nat
  BY <1>1
<1>4. ran' \in [CallIds -> Nat] /\ \A c \in CallIds : ran'[c] = IF c \in done THEN ran[c] + 1 ELSE ran[c]
  BY <1>2, <1>3
<1>5. QED
  BY <1>4 DEF done

LEMMA SettledFacts ==
    ASSUME Types, NEW p \in Pools, SendingOK(p), TxEnds(p)
    PROVE  Settles(p)
<1>1. sending[p] # "no" /\ tq[p] # <<>>
  BY DEF TxEnds, TxInBlock, TxUnreadable, TxRefused, TxClashes, TxTimeout, Settled, SendingOK
<1>2. QED
  BY <1>1 DEF TxEnds, TxInBlock, TxUnreadable, TxRefused, TxClashes, TxTimeout, Settled, Settles,
              Leaves, histVars, chainVars

LEMMA SettlesTypes ==
    ASSUME Types, NEW p \in Pools, Settles(p), ran' \in [CallIds -> Nat],
           faults' \in 0..MaxFaults, floating' \cup givenUp' \subseteq BatchIds,
           fromTrader' \in Seq(Messages), {m.id : m \in Range(fromTrader')} \subseteq BatchIds
    PROVE  Types'
<1>1. /\ sending' \in [Pools -> {"no", "taken", "clash"}]
      /\ nonce' \in [Pools -> Nat \cup {Unread}]
  BY DEF Settles, Types, TypeOK
<1>2. tq' \in [Pools -> Seq(Nat)] /\ \A q \in Pools : Range(tq'[q]) \subseteq BatchIds
  BY LeavesFacts DEF Settles
<1>3. QED
  BY <1>1, <1>2 DEF Settles, Types, TypeOK, Typed, BatchIds, jobVars, busVars, managerVars

\* What a settled transaction is reported as.
LEMMA SettledSays ==
    ASSUME NEW p \in Pools, TxEnds(p)
    PROVE  \/ /\ Says("MA_BATCH_FAILED", Head(tq[p]), {})
              /\ ran' = ran
              /\ \/ UNCHANGED <<floating, givenUp>>
                 \/ /\ floating' = floating \cup {Head(tq[p])}
                    /\ givenUp' = givenUp \cup {Head(tq[p])}
           \/ \E failed \in SUBSET (1..Len(batches[Head(tq[p])].calls)) :
                /\ Says("MA_BATCH_FINISHED", Head(tq[p]), failed)
                /\ Takes(Head(tq[p]), failed)
                /\ UNCHANGED <<floating, givenUp>>
           \/ \E failed \in SUBSET (1..Len(batches[Head(tq[p])].calls)) :
                /\ Says("MA_BATCH_FAILED", Head(tq[p]), {})
                /\ Takes(Head(tq[p]), failed)
                /\ floating' = floating /\ givenUp' = givenUp \cup {Head(tq[p])}
<1>1. CASE TxInBlock(p)
  BY <1>1 DEF TxInBlock, Says, Takes, histVars
<1>2. CASE TxRefused(p)
  BY <1>2 DEF TxRefused, Says, ToManager, chainVars, histVars
<1>3. CASE TxClashes(p)
  BY <1>3 DEF TxClashes, Says, ToManager, chainVars, histVars
<1>4. CASE TxTimeout(p)
  BY <1>4 DEF TxTimeout, Says, ToManager
<1>5. CASE TxUnreadable(p)
  BY <1>5 DEF TxUnreadable, Says, ToManager, Takes
<1>6. QED
  BY <1>1, <1>2, <1>3, <1>4, <1>5 DEF TxEnds

LEMMA TxTypes ==
    ASSUME Types, NEW p \in Pools, SendingOK(p), TxEnds(p)
    PROVE  Types'
<1> DEFINE b == Head(tq[p])
<1>1. Settles(p) /\ b \in BatchIds
  BY SettledFacts, LeavesFacts DEF Settles
<1>2. faults' \in 0..MaxFaults
  <2>1. UNCHANGED faults \/ Fault
    BY DEF TxEnds, TxInBlock, TxUnreadable, TxRefused, TxClashes, TxTimeout
  <2>2. QED
    BY <2>1, FaultFacts DEF Types, TypeOK
<1>3. ran \in [CallIds -> Nat] /\ floating \cup givenUp \subseteq BatchIds
  BY DEF Types, TypeOK
<1>4. CASE /\ Says("MA_BATCH_FAILED", b, {})
           /\ ran' = ran
           /\ \/ UNCHANGED <<floating, givenUp>>
              \/ floating' = floating \cup {b} /\ givenUp' = givenUp \cup {b}
  <2>1. {} \in SUBSET Nat /\ "MA_BATCH_FAILED" \in Actions
    BY DEF Actions
  <2> HIDE DEF b
  <2>2. fromTrader' \in Seq(Messages) /\ {m.id : m \in Range(fromTrader')} \subseteq BatchIds
    BY <1>1, <1>4, <2>1, SaysFacts
  <2>3. floating' \cup givenUp' \subseteq BatchIds
    BY <1>1, <1>3, <1>4
  <2>4. QED
    BY <1>1, <1>2, <1>3, <1>4, <2>2, <2>3, SettlesTypes
<1>5. ASSUME NEW failed \in SUBSET (1..Len(batches[b].calls)),
             Says("MA_BATCH_FINISHED", b, failed), Takes(b, failed), UNCHANGED <<floating, givenUp>>
      PROVE  Types'
  <2>1. failed \in SUBSET Nat /\ "MA_BATCH_FINISHED" \in Actions
    BY DEF Actions
  <2> HIDE DEF b
  <2>2. fromTrader' \in Seq(Messages) /\ {m.id : m \in Range(fromTrader')} \subseteq BatchIds
    BY <1>1, <1>5, <2>1, SaysFacts
  <2>3. ran' \in [CallIds -> Nat]
    BY <1>5, TakesTypes
  <2>4. QED
    BY <1>1, <1>2, <1>3, <1>5, <2>2, <2>3, SettlesTypes
<1>6. ASSUME NEW failed \in SUBSET (1..Len(batches[b].calls)),
             Says("MA_BATCH_FAILED", b, {}), Takes(b, failed),
             floating' = floating, givenUp' = givenUp \cup {b}
      PROVE  Types'
  <2>1. {} \in SUBSET Nat /\ "MA_BATCH_FAILED" \in Actions
    BY DEF Actions
  <2> HIDE DEF b
  <2>2. fromTrader' \in Seq(Messages) /\ {m.id : m \in Range(fromTrader')} \subseteq BatchIds
    BY <1>1, <1>6, <2>1, SaysFacts
  <2>3. ran' \in [CallIds -> Nat] /\ floating' \cup givenUp' \subseteq BatchIds
    BY <1>1, <1>3, <1>6, TakesTypes
  <2>4. QED
    BY <1>1, <1>2, <2>2, <2>3, SettlesTypes
<1>7. QED
  BY <1>4, <1>5, <1>6, SettledSays

LEMMA LateTypes ==
    ASSUME Types, NEW b \in BatchIds, LateInBlock(b)
    PROVE  Types'
<1>1. PICK failed \in SUBSET (1..Len(batches[b].calls)) : Takes(b, failed)
  BY DEF LateInBlock, Takes
<1>2. ran' \in [CallIds -> Nat]
  BY <1>1, TakesTypes
<1>3. floating' \subseteq BatchIds
  BY DEF LateInBlock, Types, TypeOK
<1>4. QED
  BY <1>2, <1>3 DEF LateInBlock, Types, TypeOK, Typed, BatchIds, jobVars, busVars, managerVars,
                    ipcVars, traderVars, histVars

LEMMA GoneFacts ==
    ASSUME Types, \A p \in Pools : SendingOK(p), TraderGone
    PROVE  /\ tq' \in [Pools -> Seq(Nat)] /\ \A p \in Pools : tq'[p] = <<>> /\ Range(tq'[p]) = {}
           /\ nonce' \in [Pools -> Nat \cup {Unread}]
           /\ sending' \in [Pools -> {"no", "taken", "clash"}]
           /\ \A p \in Pools : sending'[p] = "no" /\ nonce'[p] = Unread
           /\ InFlight \subseteq BatchIds /\ floating' \subseteq BatchIds
<1>1. <<>> \in Seq(Nat) /\ Range(<<>>) = {}
  BY RangeOfEmpty
<1>2. ASSUME NEW p \in Pools, sending[p] = "taken" PROVE Head(tq[p]) \in BatchIds
  BY <1>2, IdFacts, HeadFacts DEF SendingOK
<1>3. InFlight \subseteq BatchIds
  BY <1>2 DEF InFlight
<1>4. QED
  BY <1>1, <1>3 DEF TraderGone, Types, TypeOK

LEMMA ExitTypes ==
    ASSUME Types, \A p \in Pools : SendingOK(p), TraderExit
    PROVE  Types'
<1>1. TraderGone /\ toTrader' = <<>> /\ givenUp' = givenUp \cup InFlight /\ alive' = FALSE
  BY DEF TraderExit
<1>2. PICK n \in 0..Len(fromTrader) :
        /\ fromTrader' = SubSeq(fromTrader, 1, n)
        /\ stranded' = stranded \cup InTrader \cup Range(toTrader)
               \cup {m.id : m \in Range(SubSeq(fromTrader, n + 1, Len(fromTrader)))}
  BY DEF TraderExit
<1>3. fromTrader \in Seq(Messages) /\ {m.id : m \in Range(fromTrader)} \subseteq BatchIds
  BY DEF Types, TypeOK, Typed
<1>4. /\ fromTrader' \in Seq(Messages) /\ {m.id : m \in Range(fromTrader')} \subseteq BatchIds
      /\ {m.id : m \in Range(SubSeq(fromTrader, n + 1, Len(fromTrader)))} \subseteq BatchIds
  <2>1. /\ fromTrader' \in Seq(Messages) /\ Range(fromTrader') \subseteq Range(fromTrader)
        /\ Range(SubSeq(fromTrader, n + 1, Len(fromTrader))) \subseteq Range(fromTrader)
    BY <1>2, <1>3, RangeOfPart
  <2>2. QED
    BY <1>3, <2>1
<1>5. InTrader \cup Range(toTrader) \subseteq BatchIds
  BY IdFacts DEF InTrader
<1>6. stranded \cup givenUp \subseteq BatchIds
  BY DEF Types, TypeOK
<1>7. stranded' \subseteq BatchIds /\ givenUp' \subseteq BatchIds
  BY <1>1, <1>2, <1>4, <1>5, <1>6, GoneFacts
<1>8. faults' \in 0..MaxFaults
  BY TradeAssumption DEF TraderExit, Fault, Types, TypeOK
<1>9. toTrader' \in Seq(Nat) /\ Range(toTrader') = {}
  BY <1>1, RangeOfEmpty
<1>10. QED
  BY <1>1, <1>4, <1>7, <1>8, <1>9, GoneFacts
     DEF TraderExit, Types, TypeOK, Typed, BatchIds, jobVars, busVars, managerVars

LEMMA DiesTypes ==
    ASSUME Types, \A p \in Pools : SendingOK(p), MasterDies, faults' \in 0..MaxFaults
    PROVE  Types'
<1>1. TraderGone
  BY DEF MasterDies
<1>2. job' \in [Jobs -> Statuses] /\ jobBatch' \in [Jobs -> BatchIds \cup {None}]
  BY DEF MasterDies, afterRestart, Types, TypeOK, Statuses
<1>3. <<>> \in Seq(Nat) /\ <<>> \in Seq(Messages) /\ Range(<<>>) = {}
  BY RangeOfEmpty
<1>4. /\ current' \in [Pools -> BatchIds \cup {None}] /\ dequeuing' \in [Pools -> BatchIds \cup {None}]
      /\ queue' \in [Pools -> Seq(Nat)] /\ \A p \in Pools : Range(queue'[p]) = {}
  BY <1>3 DEF MasterDies
<1>5. givenUp' \subseteq BatchIds
  <2>1. ASSUME NEW j \in Jobs, wasSent(j) PROVE jobBatch[j] \in BatchIds
    BY <2>1, IdFacts, TradeAssumption DEF wasSent
  <2>2. InFlight \subseteq BatchIds /\ givenUp \subseteq BatchIds
    BY <1>1, GoneFacts DEF Types, TypeOK
  <2>3. QED
    BY <2>1, <2>2 DEF MasterDies
<1>6. /\ addQueue' = <<>> /\ addSent' = FALSE /\ status' = "starting" /\ alive' = FALSE
      /\ toTrader' = <<>> /\ fromTrader' = <<>>
      /\ UNCHANGED <<retries, batches, nextIndex, ran, sent, unreported, stranded>>
  BY DEF MasterDies
<1>7. Typed'
  BY <1>1, <1>3, <1>4, <1>6, GoneFacts DEF Types, Typed
<1>8. TypeOK'
  BY ZenonT(60), <1>1, <1>2, <1>3, <1>4, <1>5, <1>6, GoneFacts DEF Types, TypeOK, BatchIds, Statuses
<1>9. QED
  BY <1>7, <1>8 DEF Types

LEMMA ProcessTypes ==
    ASSUME Types, OnProcessExited \/ TraderOnline
    PROVE  Types'
<1>1. /\ status' \in {"up", "starting"} /\ alive' \in BOOLEAN
      /\ UNCHANGED <<jobVars, busVars, addQueue, addSent, ipcVars, tq, nonce, sending, chainVars,
                     histVars, faults>>
  BY DEF OnProcessExited, TraderOnline, Types, TypeOK, traderVars
<1>2. QED
  BY <1>1 DEF Types, TypeOK, Typed, BatchIds, jobVars, busVars, ipcVars, chainVars, histVars

\* What the proofs of the types use of the rest of the invariant.
TypeAid ==
    /\ Types /\ EffectOK
    /\ \A p \in Pools : PoolsOK(p) /\ SendingOK(p)
    /\ \A b \in BatchIds : BatchOK(b)

LEMMA PutExists ==
    ASSUME TypeAid, NEW j \in Jobs, AddJob(j)
    PROVE  \E id : Put(j, id)
  BY AddJobFacts DEF TypeAid, Types

LEMMA StepKeepsTypes ==
    ASSUME TypeAid, [Next]_vars
    PROVE  Types'
<1> USE DEF TypeAid
<1>1. CASE UNCHANGED vars
  BY <1>1 DEF vars, Types, TypeOK, Typed, BatchIds, jobVars, busVars, managerVars, ipcVars,
              traderVars, chainVars, histVars
<1>2. ASSUME NEW j \in Jobs, JobStep(j) PROVE Types'
  <2>1. CASE Enqueue(j)
    BY <2>1, PutExists, EnqueueTypes DEF Enqueue
  <2>2. CASE RetryJob(j)
    BY <2>2, PutExists, RetryTypes DEF RetryJob
  <2>3. QED
    BY <1>2, <2>1, <2>2, JobTypes DEF JobStep, Moves
<1>3. ASSUME NEW p \in Pools, CommitTimeout(p) \/ Dequeue(p) \/ Trader(p) \/ Faults(p) PROVE Types'
  <2>1. CASE CommitTimeout(p) \/ Dequeue(p)
    BY <2>1, CommitTypes, DequeueTypes
  <2>2. CASE ReadNonce(p) \/ ProcessBatch(p)
    BY <2>2, ReadNonceTypes, SendsFacts, SendsTypes
  <2>3. CASE ProcessBatchThrows(p) \/ ProcessBatchFails(p)
    BY <2>3, ThrowTypes
  <2>4. CASE TxEnds(p)
    BY <2>4, TxTypes
  <2>5. QED
    BY <1>3, <2>1, <2>2, <2>3, <2>4 DEF Trader, Faults, TxEnds
<1>4. ASSUME MasterDies, UNCHANGED faults \/ Fault PROVE Types'
  <2>1. faults' \in 0..MaxFaults
    BY <1>4, FaultFacts DEF Types, TypeOK
  <2>2. QED
    BY <1>4, <2>1, DiesTypes
<1>5. CASE OnMessage
  BY <1>4, <1>5, BatchAddedTypes, BatchWorkingTypes, OutcomeTypes DEF OnMessage, OnBatchFailedUnhandled
<1>6. CASE Manager \/ AddBatchJob
  BY <1>6, SendAddTypes, ProcessTypes, AddBatchJobTypes DEF Manager
<1>7. ASSUME NEW b \in 1..Len(batches), LateInBlock(b) PROVE Types'
  BY <1>7, LateTypes DEF BatchIds
<1>8. CASE TraderExit \/ MasterCrash
  BY <1>4, <1>8, ExitTypes DEF MasterCrash
<1>9. QED
  BY <1>1, <1>2, <1>3, <1>5, <1>6, <1>7, <1>8 DEF Next
-------------------------------------------------------------------------------
(* The way of the batches of a pool.                                       *)

InChannel(p) == Range(toTrader) \cap OfPool(p)

InUnsent(p) == Range(Unsent) \cap OfPool(p)

Open(p) == {current[p]} \ {None}

\* The oldest of A leaves for the stage ahead; A2 is what is left.
Ahead(x, A, A2) == x \in A /\ x \notin A2 /\ \A y \in A : x <= y

WayAid(p) == Types /\ PoolsOK(p) /\ WayOK(p) /\ SendingOK(p)

\* What a step that begins no batch does to the way of pool p.
Passes(p) ==
    /\ PoolsOK(p)' /\ WayOK(p)'
    /\ OnTheWay(p)' \subseteq OnTheWay(p)
    /\ Done(p) \cap Range(sent[p]) \subseteq Done(p)'

LEMMA StageFacts ==
    ASSUME NEW p
    PROVE  /\ Stages(p)[0] = Done(p) /\ Stages(p)[1] = Range(tq[p])
           /\ Stages(p)[2] = InChannel(p) /\ Stages(p)[3] = InUnsent(p)
           /\ Stages(p)[4] = Range(queue[p]) /\ Stages(p)[5] = Open(p)
  BY DEF Stages, InChannel, InUnsent, Open

LEMMA OnTheWayIs ==
    ASSUME NEW p
    PROVE  OnTheWay(p) = Range(tq[p]) \cup InChannel(p) \cup InUnsent(p) \cup Range(queue[p]) \cup Open(p)
<1>1. OnTheWay(p) = UNION {Stages(p)[s] : s \in 1..5}
  BY DEF OnTheWay
<1>2. 1..5 = {1, 2, 3, 4, 5}
  OBVIOUS
<1> HIDE DEF OnTheWay
<1>3. OnTheWay(p) = Stages(p)[1] \cup Stages(p)[2] \cup Stages(p)[3] \cup Stages(p)[4] \cup Stages(p)[5]
  BY <1>1, <1>2
<1>4. QED
  BY <1>3, StageFacts

\* The stages of a pool hold its batches, and those ahead are older.
LEMMA WayFacts ==
    ASSUME NEW p \in Pools, WayAid(p)
    PROVE  /\ OfPool(p) \subseteq BatchIds /\ OfPool(p) \subseteq Nat /\ None \notin OfPool(p)
           /\ Done(p) \subseteq OfPool(p) /\ Range(tq[p]) \subseteq OfPool(p)
           /\ Range(queue[p]) \subseteq OfPool(p) /\ Open(p) \subseteq OfPool(p)
           /\ InChannel(p) \subseteq OfPool(p) /\ InUnsent(p) \subseteq OfPool(p)
           /\ \A a \in Done(p), b \in Range(tq[p]) : a < b
           /\ \A a \in Done(p) \cup Range(tq[p]), b \in InChannel(p) : a < b
           /\ \A a \in Done(p) \cup Range(tq[p]) \cup InChannel(p), b \in InUnsent(p) : a < b
           /\ \A a \in Done(p) \cup Range(tq[p]) \cup InChannel(p) \cup InUnsent(p),
                 b \in Range(queue[p]) : a < b
           /\ \A a \in Done(p) \cup Range(tq[p]) \cup InChannel(p) \cup InUnsent(p)
                         \cup Range(queue[p]), b \in Open(p) : a < b
           /\ Unsent \in Seq(Nat) /\ Range(Unsent) \subseteq Range(addQueue)
<1>1. /\ OfPool(p) \subseteq BatchIds /\ OfPool(p) \subseteq Nat /\ None \notin OfPool(p)
  BY IdFacts DEF OfPool, WayAid
<1>2. /\ Done(p) \subseteq OfPool(p) /\ Range(tq[p]) \subseteq OfPool(p)
      /\ Range(queue[p]) \subseteq OfPool(p) /\ Open(p) \subseteq OfPool(p)
      /\ InChannel(p) \subseteq OfPool(p) /\ InUnsent(p) \subseteq OfPool(p)
  BY DEF WayAid, PoolsOK, Done, Open, InChannel, InUnsent
<1>3. \A s, t \in 0..5 : s < t => \A a \in Stages(p)[s], b \in Stages(p)[t] : a < b
  BY DEF WayAid, WayOK, Chained
<1>4. /\ \A a \in Stages(p)[0], b \in Stages(p)[1] : a < b
      /\ \A a \in Stages(p)[0] \cup Stages(p)[1], b \in Stages(p)[2] : a < b
  BY <1>3
<1>5. \A a \in Stages(p)[0] \cup Stages(p)[1] \cup Stages(p)[2], b \in Stages(p)[3] : a < b
  BY <1>3
<1>6. \A a \in Stages(p)[0] \cup Stages(p)[1] \cup Stages(p)[2] \cup Stages(p)[3],
         b \in Stages(p)[4] : a < b
  BY <1>3
<1>7. \A a \in Stages(p)[0] \cup Stages(p)[1] \cup Stages(p)[2] \cup Stages(p)[3]
              \cup Stages(p)[4], b \in Stages(p)[5] : a < b
  BY <1>3
<1>8. Unsent \in Seq(Nat) /\ Range(Unsent) \subseteq Range(addQueue)
  BY HeadFacts, IdFacts DEF Unsent, WayAid, Types, Typed
<1>9. QED
  BY SMTT(30), <1>1, <1>2, <1>4, <1>5, <1>6, <1>7, <1>8, StageFacts

\* The six flows from stage to stage, spelled out.
Flow(p) ==
    /\ \A x \in Done(p)' : x \in Done(p) \/ Ahead(x, Range(tq[p]), Range(tq'[p]))
    /\ \A x \in Range(tq'[p]) : x \in Range(tq[p]) \/ Ahead(x, InChannel(p), InChannel(p)')
    /\ \A x \in InChannel(p)' : x \in InChannel(p) \/ Ahead(x, InUnsent(p), InUnsent(p)')
    /\ \A x \in InUnsent(p)' : x \in InUnsent(p) \/ Ahead(x, Range(queue[p]), Range(queue'[p]))
    /\ \A x \in Range(queue'[p]) : x \in Range(queue[p]) \/ Ahead(x, Open(p), Open(p)')

LEMMA FlowIs ==
    ASSUME NEW p \in Pools, Flow(p), WayAid(p),
           \A x \in Open(p)' : x \in Open(p) \/ (x \in Nat /\ \A y \in BatchIds : y < x)
    PROVE  Flows(Stages(p), Stages(p)')
<1> DEFINE F == Stages(p)
           G == Stages(p)'
<1>1. /\ G[0] = Done(p)' /\ G[1] = Range(tq'[p]) /\ G[2] = InChannel(p)'
      /\ G[3] = InUnsent(p)' /\ G[4] = Range(queue'[p]) /\ G[5] = Open(p)'
  BY DEF Stages, InChannel, InUnsent, Open
<1>2. /\ F[0] = Done(p) /\ F[1] = Range(tq[p]) /\ F[2] = InChannel(p)
      /\ F[3] = InUnsent(p) /\ F[4] = Range(queue[p]) /\ F[5] = Open(p)
  BY StageFacts
<1>3. \A t \in 0..5 : F[t] \subseteq BatchIds
  BY <1>2, WayFacts
<1> HIDE DEF F, G
<1>4. /\ \A x \in G[0] : x \in F[0] \/ Ahead(x, F[1], G[1])
      /\ \A x \in G[1] : x \in F[1] \/ Ahead(x, F[2], G[2])
      /\ \A x \in G[2] : x \in F[2] \/ Ahead(x, F[3], G[3])
      /\ \A x \in G[3] : x \in F[3] \/ Ahead(x, F[4], G[4])
      /\ \A x \in G[4] : x \in F[4] \/ Ahead(x, F[5], G[5])
  BY <1>1, <1>2 DEF Flow
<1>5. \A x \in G[5] : x \in F[5] \/ \A t \in 0..5 : \A y \in F[t] : y < x
  BY <1>1, <1>2, <1>3
<1>6. ASSUME NEW s \in 0..5, NEW x \in G[s]
      PROVE  \/ x \in F[s]
             \/ s < 5 /\ Ahead(x, F[s + 1], G[s + 1])
             \/ s = 5 /\ \A t \in 0..5 : \A y \in F[t] : y < x
  <2>1. s = 0 \/ s = 1 \/ s = 2 \/ s = 3 \/ s = 4 \/ s = 5
    OBVIOUS
  <2>2. QED
    BY <1>4, <1>5, <1>6, <2>1
<1>7. Flows(F, G)
  BY <1>6 DEF Flows, Ahead
<1>8. QED
  BY <1>7 DEF F, G

RisingOK(p) ==
    /\ Rising(tq[p], OfPool(p)) /\ Rising(toTrader, OfPool(p))
    /\ Rising(Unsent, OfPool(p)) /\ Rising(queue[p], OfPool(p))

LEMMA FlowKeepsChain ==
    ASSUME NEW p \in Pools, WayAid(p), Types', PoolsOK(p)', Flow(p), RisingOK(p)',
           \A x \in Open(p)' : x \in Open(p) \/ (x \in Nat /\ \A y \in BatchIds : y < x)
    PROVE  WayOK(p)'
<1>1. OfPool(p)' \subseteq Nat
  BY DEF Types, Typed, OfPool, BatchIds
<1>2. /\ Done(p)' \subseteq Nat /\ Range(tq'[p]) \subseteq Nat /\ InChannel(p)' \subseteq Nat
      /\ InUnsent(p)' \subseteq Nat /\ Range(queue'[p]) \subseteq Nat /\ Open(p)' \subseteq Nat
  BY <1>1 DEF PoolsOK, Done, InChannel, InUnsent, Open
<1> DEFINE F == Stages(p)
           G == Stages(p)'
<1>3. /\ G[0] = Done(p)' /\ G[1] = Range(tq'[p]) /\ G[2] = InChannel(p)'
      /\ G[3] = InUnsent(p)' /\ G[4] = Range(queue'[p]) /\ G[5] = Open(p)'
  BY DEF Stages, InChannel, InUnsent, Open
<1>4. /\ F[0] \subseteq Nat /\ F[1] \subseteq Nat /\ F[2] \subseteq Nat /\ F[3] \subseteq Nat
      /\ F[4] \subseteq Nat /\ F[5] \subseteq Nat
  BY StageFacts, WayFacts
<1>5. Flows(F, G) /\ Chained(F)
  BY FlowIs DEF WayAid, WayOK
<1> HIDE DEF F, G
<1>6. \A s \in 0..5 : F[s] \subseteq Nat /\ G[s] \subseteq Nat
  <2>1. ASSUME NEW s \in 0..5 PROVE s = 0 \/ s = 1 \/ s = 2 \/ s = 3 \/ s = 4 \/ s = 5
    OBVIOUS
  <2>2. QED
    BY <1>2, <1>3, <1>4, <2>1
<1>7. Chained(G)
  BY <1>5, <1>6, FlowKeeps
<1>8. Chained(Stages(p))'
  BY <1>7 DEF G, Chained
<1>9. QED
  BY <1>8 DEF WayOK, RisingOK

LEMMA OnTheWayNext ==
    ASSUME NEW p
    PROVE  OnTheWay(p)' = Range(tq'[p]) \cup InChannel(p)' \cup InUnsent(p)' \cup Range(queue'[p])
                            \cup Open(p)'
<1>1. OnTheWay(p)' = UNION {Stages(p)'[s] : s \in 1..5}
  BY DEF OnTheWay
<1>2. 1..5 = {1, 2, 3, 4, 5}
  OBVIOUS
<1>3. /\ Stages(p)'[1] = Range(tq'[p]) /\ Stages(p)'[2] = InChannel(p)'
      /\ Stages(p)'[3] = InUnsent(p)' /\ Stages(p)'[4] = Range(queue'[p])
      /\ Stages(p)'[5] = Open(p)'
  BY DEF Stages, InChannel, InUnsent, Open
<1> DEFINE G == Stages(p)'
<1> HIDE DEF G
<1>4. UNION {G[s] : s \in {1, 2, 3, 4, 5}} = G[1] \cup G[2] \cup G[3] \cup G[4] \cup G[5]
  OBVIOUS
<1>5. QED
  BY <1>1, <1>2, <1>3, <1>4 DEF G

LEMMA FlowPasses ==
    ASSUME NEW p \in Pools, WayAid(p), Types', PoolsOK(p)', Flow(p), RisingOK(p)',
           Open(p)' \subseteq Open(p), Done(p) \cap Range(sent[p]) \subseteq Done(p)'
    PROVE  Passes(p)
<1>1. WayOK(p)'
  BY FlowKeepsChain
<1>2. OnTheWay(p) = Range(tq[p]) \cup InChannel(p) \cup InUnsent(p) \cup Range(queue[p]) \cup Open(p)
  BY OnTheWayIs
<1>3. OnTheWay(p)' = Range(tq'[p]) \cup InChannel(p)' \cup InUnsent(p)' \cup Range(queue'[p]) \cup Open(p)'
  BY OnTheWayNext
<1>4. OnTheWay(p)' \subseteq OnTheWay(p)
  BY <1>2, <1>3 DEF Flow, Ahead
<1>5. QED
  BY <1>1, <1>4 DEF Passes

LEMMA NotBusy ==
    ASSUME NEW p \in Pools, WayAid(p), NEW b \in Done(p)
    PROVE  b \notin Range(tq[p]) /\ ~Busy(p, b) /\ b \in OfPool(p)
<1>1. b \in OfPool(p) /\ b \in Nat /\ \A c \in Range(tq[p]) : b < c
  BY WayFacts
<1>0. b \notin Range(tq[p])
  BY <1>1
<1>2. sending[p] # "no" => Head(tq[p]) \in Range(tq[p])
  BY HeadFacts, IdFacts DEF WayAid, SendingOK
<1>3. QED
  BY <1>0, <1>1, <1>2 DEF Busy

\* Every step that only takes a message, or nothing, from the way.
Idle(p) ==
    /\ OfPool(p)' = OfPool(p)
    /\ \A b \in OfPool(p) : Told(b)' => Told(b)
    /\ Unsent' = Unsent
    /\ UNCHANGED <<current, queue, toTrader, tq, sent, sending>>

LEMMA IdlePasses ==
    ASSUME NEW p \in Pools, WayAid(p), Types', Idle(p)
    PROVE  Passes(p)
<1>1. PoolsOK(p)' /\ RisingOK(p)'
  BY DEF Idle, WayAid, PoolsOK, WayOK, RisingOK
<1>2. /\ Range(tq'[p]) = Range(tq[p]) /\ InChannel(p)' = InChannel(p) /\ InUnsent(p)' = InUnsent(p)
      /\ Range(queue'[p]) = Range(queue[p]) /\ Open(p)' = Open(p)
  BY DEF Idle, InChannel, InUnsent, Open
<1>3. Done(p)' \subseteq Done(p)
  BY DEF Idle, Done, Busy
<1>4. Done(p) \cap Range(sent[p]) \subseteq Done(p)'
  BY NotBusy DEF Idle, Done, Busy
<1>5. Flow(p)
  BY <1>2, <1>3 DEF Flow
<1>6. QED
  BY <1>1, <1>2, <1>4, <1>5, FlowPasses

LEMMA SendsPasses ==
    ASSUME NEW p \in Pools, NEW q \in Pools, WayAid(p), WayAid(q), Types', Sends(q)
    PROVE  Passes(p)
<1> DEFINE x == Head(tq[q])
<1>1. /\ UNCHANGED <<jobVars, busVars, managerVars, toTrader, tq>>
      /\ sent' = [sent EXCEPT ![q] = Append(@, x)]
      /\ sending[q] = "no" /\ tq[q] # <<>>
      /\ \A r \in Pools \ {q} : sending'[r] = sending[r]
      /\ sending'[q] # "no"
      /\ Says("MA_BATCH_WORKING", x, {})
  BY DEF Sends, WayAid, Types, TypeOK
<1>2. UNCHANGED <<batches, current, queue, addQueue, addSent>>
  BY <1>1 DEF busVars, managerVars
<1>3. x \in Range(tq[q]) /\ x \in OfPool(q) /\ x \in Nat /\ x \in BatchIds
  BY <1>1, IdFacts, HeadFacts DEF WayAid, PoolsOK
<1>4. Range(fromTrader') =
        Range(fromTrader) \cup {[action |-> "MA_BATCH_WORKING", id |-> x, failedCalls |-> {}]}
  BY <1>1, <1>3, SaysFacts DEF WayAid, Actions
<1>5. OfPool(p)' = OfPool(p) /\ \A b \in OfPool(p) : Told(b)' => Told(b)
  BY <1>2, <1>4 DEF OfPool, BatchIds, Told, Outcomes
<1>6. \A r \in Pools \ {q} : sent'[r] = sent[r]
  BY <1>1 DEF WayAid, Types, Typed
<1>7. Range(sent'[q]) = Range(sent[q]) \cup {x}
  <2>1. sent[q] \in Seq(Nat) /\ sent'[q] = Append(sent[q], x)
    BY <1>1 DEF WayAid, Types, Typed
  <2> HIDE DEF x
  <2>2. QED
    BY <1>3, <2>1, RangeOfAppend
<1> HIDE DEF x
<1>8. Unsent' = Unsent
  BY <1>2 DEF Unsent
<1>9. PoolsOK(p)' /\ RisingOK(p)'
  BY <1>1, <1>2, <1>3, <1>5, <1>6, <1>7, <1>8 DEF WayAid, PoolsOK, WayOK, RisingOK
<1>10. /\ Range(tq'[p]) = Range(tq[p]) /\ InChannel(p)' = InChannel(p) /\ InUnsent(p)' = InUnsent(p)
       /\ Range(queue'[p]) = Range(queue[p]) /\ Open(p)' = Open(p)
  BY <1>1, <1>2, <1>5, <1>8 DEF InChannel, InUnsent, Open
<1>11. Done(p)' \subseteq Done(p)
  <2>1. CASE p = q
    BY <1>1, <1>5, <1>7, <2>1 DEF Done, Busy, x
  <2>2. CASE p # q
    BY <1>1, <1>5, <1>6, <2>2 DEF Done, Busy
  <2>3. QED
    BY <2>1, <2>2
<1>12. Done(p) \cap Range(sent[p]) \subseteq Done(p)'
  <2>1. \A b \in Done(p) : b \notin Range(tq[p]) /\ ~Busy(p, b) /\ b \in OfPool(p)
    BY NotBusy
  <2>2. CASE p = q
    BY <1>1, <1>3, <1>5, <1>7, <2>1, <2>2 DEF Done, Busy, x
  <2>3. CASE p # q
    BY <1>1, <1>5, <1>6, <2>1, <2>3 DEF Done, Busy
  <2>4. QED
    BY <2>2, <2>3
<1>13. Flow(p)
  BY <1>10, <1>11 DEF Flow
<1>14. QED
  BY <1>9, <1>10, <1>12, <1>13, FlowPasses

LEMMA HeadIsOldest ==
    ASSUME NEW s \in Seq(Nat), NEW P, s # <<>>, Rising(s, P), Head(s) \in P
    PROVE  /\ Head(s) \in Range(s) /\ Head(s) \in Nat
           /\ Ahead(Head(s), Range(s) \cap P, Range(Tail(s)) \cap P)
<1>1. /\ Range(s) = Range(Tail(s)) \cup {Head(s)} /\ Head(s) \in Nat
      /\ Tail(s) \in Seq(Nat)
  BY RangeOfTail
<1>2. \A y \in Range(Tail(s)) \cap P : Head(s) < y
  BY RisingTail
<1>3. Range(Tail(s)) \subseteq Nat
  BY <1>1, RangeInside
<1>4. Head(s) \notin Range(Tail(s)) \cap P
  BY <1>1, <1>2
<1>5. \A y \in Range(s) \cap P : Head(s) <= y
  BY <1>1, <1>2, <1>3
<1>6. QED
  BY <1>1, <1>4, <1>5 DEF Ahead

LEMMA HeadOfPool ==
    ASSUME NEW p \in Pools, WayAid(p), tq[p] # <<>>
    PROVE  /\ Head(tq[p]) \in OfPool(p) /\ Head(tq[p]) \in Range(tq[p]) /\ Head(tq[p]) \in Nat
           /\ Ahead(Head(tq[p]), Range(tq[p]), Range(Tail(tq[p])))
           /\ Range(Tail(tq[p])) \subseteq Range(tq[p])
           /\ Rising(Tail(tq[p]), OfPool(p))
<1> DEFINE s == tq[p]
<1>1. s \in Seq(Nat) /\ s # <<>> /\ Rising(s, OfPool(p)) /\ Range(s) \subseteq OfPool(p)
  BY IdFacts DEF WayAid, WayOK, PoolsOK
<1> HIDE DEF s
<1>2. Head(s) \in OfPool(p) /\ Range(Tail(s)) \subseteq Range(s)
  BY <1>1, HeadFacts
<1>3. /\ Head(s) \in Range(s) /\ Head(s) \in Nat
      /\ Ahead(Head(s), Range(s) \cap OfPool(p), Range(Tail(s)) \cap OfPool(p))
  BY <1>1, <1>2, HeadIsOldest
<1>4. Range(s) \cap OfPool(p) = Range(s) /\ Range(Tail(s)) \cap OfPool(p) = Range(Tail(s))
  BY <1>1, <1>2
<1>5. Rising(Tail(s), OfPool(p))
  BY <1>1, RisingTail
<1>6. QED
  BY <1>2, <1>3, <1>4, <1>5 DEF s

\* The first batch of q leaves the trader, with its outcome told or without.
Goes(q) ==
    /\ Leaves(q)
    /\ sending' = [sending EXCEPT ![q] = "no"]
    /\ \A b \in BatchIds : Told(b)' => Told(b) \/ b = Head(tq[q])
    /\ UNCHANGED <<batches, current, queue, addQueue, addSent, toTrader, sent>>

LEMMA GoesPasses ==
    ASSUME NEW p \in Pools, NEW q \in Pools, WayAid(p), WayAid(q), Types', Goes(q)
    PROVE  Passes(p)
<1> DEFINE x == Head(tq[q])
<1>1. /\ UNCHANGED <<batches, current, queue, addQueue, addSent, toTrader, sent>>
      /\ \A b \in BatchIds : Told(b)' => Told(b) \/ b = x
      /\ tq[q] # <<>> /\ tq'[q] = Tail(tq[q]) /\ \A r \in Pools \ {q} : tq'[r] = tq[r]
      /\ sending'[q] = "no" /\ \A r \in Pools \ {q} : sending'[r] = sending[r]
  BY DEF Goes, Leaves, WayAid, Types, TypeOK, Typed
<1>2. /\ x \in OfPool(q) /\ x \in Range(tq[q])
      /\ Ahead(x, Range(tq[q]), Range(tq'[q]))
      /\ Range(tq'[q]) \subseteq Range(tq[q]) /\ Rising(tq'[q], OfPool(q))
  BY <1>1, HeadOfPool
<1> HIDE DEF x
<1>3. OfPool(p)' = OfPool(p) /\ OfPool(p) \subseteq BatchIds /\ Unsent' = Unsent
  BY <1>1 DEF OfPool, BatchIds, Unsent
<1>4. /\ InChannel(p)' = InChannel(p) /\ InUnsent(p)' = InUnsent(p)
      /\ Range(queue'[p]) = Range(queue[p]) /\ Open(p)' = Open(p)
  BY <1>1, <1>3 DEF InChannel, InUnsent, Open
<1>5. Done(p) \cap Range(sent[p]) \subseteq Done(p)'
  <2>1. \A b \in Done(p) : b \notin Range(tq[p]) /\ ~Busy(p, b) /\ b \in OfPool(p)
    BY NotBusy
  <2>2. QED
    BY <1>1, <1>3, <2>1 DEF Done, Busy
<1>6. Range(tq'[p]) \subseteq Range(tq[p]) /\ Rising(tq'[p], OfPool(p))
  BY <1>1, <1>2 DEF WayAid, WayOK
<1>7. PoolsOK(p)' /\ RisingOK(p)'
  BY <1>1, <1>3, <1>6 DEF WayAid, PoolsOK, WayOK, RisingOK
<1>8. \A y \in Done(p)' : y \in Done(p) \/ (p = q /\ y = x)
  <2>1. CASE p = q
    BY <1>1, <1>3, <2>1 DEF Done, Busy, x
  <2>2. CASE p # q
    <3>1. x \notin OfPool(p)
      BY <1>2, <2>2 DEF OfPool
    <3>2. QED
      BY <1>1, <1>3, <2>2, <3>1 DEF Done, Busy
  <2>3. QED
    BY <2>1, <2>2
<1>9. Flow(p)
  BY <1>2, <1>4, <1>6, <1>8 DEF Flow
<1>10. QED
  BY <1>4, <1>5, <1>7, <1>9, FlowPasses

LEMMA AddBatchJobPasses ==
    ASSUME NEW p \in Pools, \A q \in Pools : WayAid(q), Types', AddBatchJob
    PROVE  Passes(p)
<1> DEFINE x == Head(toTrader)
           q == batches[x].pool
<1>0. WayAid(p) /\ Types
  BY DEF WayAid
<1>1. /\ toTrader # <<>> /\ toTrader' = Tail(toTrader) /\ Says("MA_BATCH_ADDED", x, {})
      /\ tq' = [tq EXCEPT ![q] = Append(@, x)]
      /\ UNCHANGED <<batches, current, queue, addQueue, addSent, sent, sending>>
  BY DEF AddBatchJob, Says, ToManager, busVars, managerVars, histVars
<1>2. toTrader \in Seq(Nat) /\ Range(toTrader) \subseteq BatchIds
  BY <1>0, IdFacts
<1>3. x \in Range(toTrader) /\ x \in BatchIds /\ x \in Nat /\ q \in Pools /\ x \in OfPool(q)
  BY <1>0, <1>1, <1>2, HeadFacts DEF OfPool, Types, TypeOK
<1>4. Range(fromTrader') =
        Range(fromTrader) \cup {[action |-> "MA_BATCH_ADDED", id |-> x, failedCalls |-> {}]}
  BY <1>0, <1>1, <1>3, SaysFacts DEF Actions
<1>5. OfPool(p)' = OfPool(p) /\ \A b \in OfPool(p) : Told(b)' => Told(b)
  BY <1>1, <1>4 DEF OfPool, BatchIds, Told, Outcomes
<1>6. tq \in [Pools -> Seq(Nat)] /\ tq[q] \in Seq(Nat)
  BY <1>0, <1>3 DEF Types, Typed
<1>7. tq'[q] = Append(tq[q], x) /\ \A r \in Pools \ {q} : tq'[r] = tq[r]
  BY <1>1, <1>3, <1>6
<1>8. p # q => x \notin OfPool(p)
  BY <1>3 DEF OfPool
<1> HIDE DEF x, q
<1>9. Range(toTrader) = Range(toTrader') \cup {x} /\ toTrader' \in Seq(Nat)
  BY <1>1, <1>2, RangeOfTail DEF x
<1>10. Rising(toTrader', OfPool(p))
  BY <1>0, <1>1, <1>2, RisingTail DEF WayAid, WayOK
<1>11. p = q => Ahead(x, InChannel(p), InChannel(p)')
  <2>1. ASSUME p = q PROVE Ahead(x, InChannel(p), InChannel(p)')
    <3>1. x \in OfPool(p) /\ Rising(toTrader, OfPool(p)) /\ x = Head(toTrader)
      BY <1>0, <1>3, <2>1 DEF WayAid, WayOK, x
    <3>2. Ahead(x, Range(toTrader) \cap OfPool(p), Range(Tail(toTrader)) \cap OfPool(p))
      BY <1>1, <1>2, <3>1, HeadIsOldest
    <3>3. QED
      BY <1>1, <1>5, <3>2 DEF InChannel
  <2>2. QED
    BY <2>1
<1>12. InChannel(p)' \subseteq InChannel(p)
  BY <1>5, <1>9 DEF InChannel
<1>13. Range(tq'[p]) = IF p = q THEN Range(tq[p]) \cup {x} ELSE Range(tq[p])
  <2>1. Range(Append(tq[q], x)) = Range(tq[q]) \cup {x}
    BY <1>3, <1>6, RangeOfAppend
  <2>2. QED
    BY <1>7, <2>1
<1>14. Rising(tq'[p], OfPool(p))
  <2>1. Rising(tq[p], OfPool(p))
    BY <1>0 DEF WayAid, WayOK
  <2>2. ASSUME p = q PROVE \A y \in Range(tq[p]) : y < x
    <3>1. x \in InChannel(p)
      BY <1>3, <2>2 DEF InChannel
    <3>2. QED
      BY <1>0, <3>1, WayFacts
  <2>3. CASE p = q
    BY <1>3, <1>6, <1>7, <2>1, <2>2, <2>3, RisingAppend
  <2>4. QED
    BY <1>7, <2>1, <2>3
<1>15. Unsent' = Unsent
  BY <1>1 DEF Unsent
<1>16. PoolsOK(p)' /\ RisingOK(p)'
  BY <1>0, <1>1, <1>3, <1>5, <1>10, <1>13, <1>14, <1>15 DEF WayAid, PoolsOK, WayOK, RisingOK
<1>17. /\ InUnsent(p)' = InUnsent(p) /\ Range(queue'[p]) = Range(queue[p]) /\ Open(p)' = Open(p)
  BY <1>1, <1>5, <1>15 DEF InUnsent, Open
<1>18. \A b : Busy(p, b) <=> Busy(p, b)'
  <2>1. sending[p] # "no" => tq[p] # <<>>
    BY <1>0 DEF WayAid, SendingOK
  <2>2. tq[p] # <<>> => Head(tq'[p]) = Head(tq[p])
    BY SMTT(30), <1>3, <1>6, <1>7
  <2>3. QED
    BY <1>1, <2>1, <2>2 DEF Busy
<1>19. Done(p)' \subseteq Done(p) /\ Done(p) \cap Range(sent[p]) \subseteq Done(p)'
  <2>1. \A b \in Done(p) : ~Busy(p, b) /\ b \in OfPool(p)
    BY <1>0, NotBusy
  <2>2. QED
    BY <1>1, <1>5, <1>18, <2>1 DEF Done
<1>20. Flow(p)
  BY <1>11, <1>12, <1>13, <1>17, <1>19 DEF Flow
<1>21. QED
  BY <1>0, <1>16, <1>17, <1>19, <1>20, FlowPasses

LEMMA SendAddPasses ==
    ASSUME NEW p \in Pools, WayAid(p), Types', SendAddBatch
    PROVE  Passes(p)
<1> DEFINE x == Head(addQueue)
<1>1. /\ addQueue # <<>> /\ ~addSent /\ addSent'
      /\ toTrader' = toTrader \/ toTrader' = Append(toTrader, x)
      /\ UNCHANGED <<batches, current, queue, addQueue, fromTrader, tq, sent, sending>>
  BY DEF SendAddBatch, busVars, traderVars
<1>2. Unsent = addQueue /\ Unsent' = Tail(addQueue)
  BY <1>1 DEF Unsent
<1>3. /\ addQueue \in Seq(Nat) /\ toTrader \in Seq(Nat) /\ x \in Nat
      /\ Range(addQueue) = Range(Tail(addQueue)) \cup {x}
  BY <1>1, IdFacts, RangeOfTail DEF WayAid
<1>4. OfPool(p)' = OfPool(p) /\ \A b : Told(b)' <=> Told(b)
  BY <1>1 DEF OfPool, BatchIds, Told
<1>5. Rising(Unsent', OfPool(p))
  BY <1>1, <1>2, <1>3, RisingTail DEF WayAid, WayOK
<1>6. x \in OfPool(p) => Ahead(x, InUnsent(p), InUnsent(p)')
  BY <1>1, <1>2, <1>3, <1>4, HeadIsOldest DEF WayAid, WayOK, InUnsent
<1>7. x \in OfPool(p) => x \in InUnsent(p)
  BY <1>2, <1>3 DEF InUnsent
<1> HIDE DEF x
<1>8. Range(Append(toTrader, x)) = Range(toTrader) \cup {x}
  BY <1>3, RangeOfAppend
<1>9. Range(toTrader') \subseteq Range(toTrader) \cup {x}
  BY <1>1, <1>8
<1>10. Rising(toTrader', OfPool(p))
  <2>1. Rising(toTrader, OfPool(p))
    BY DEF WayAid, WayOK
  <2>2. x \in OfPool(p) => \A y \in Range(toTrader) \cap OfPool(p) : y < x
    BY <1>7, WayFacts DEF InChannel
  <2>3. Rising(Append(toTrader, x), OfPool(p))
    BY <1>3, <2>1, <2>2, RisingAppend
  <2>4. QED
    BY <1>1, <2>1, <2>3
<1>11. /\ \A y \in InChannel(p)' : y \in InChannel(p) \/ (y = x /\ x \in OfPool(p))
  BY <1>4, <1>9 DEF InChannel
<1>12. InUnsent(p)' \subseteq InUnsent(p)
  BY <1>2, <1>3, <1>4 DEF InUnsent
<1>13. PoolsOK(p)' /\ RisingOK(p)'
  BY <1>1, <1>4, <1>5, <1>10 DEF WayAid, PoolsOK, WayOK, RisingOK
<1>14. /\ Range(tq'[p]) = Range(tq[p]) /\ Range(queue'[p]) = Range(queue[p]) /\ Open(p)' = Open(p)
       /\ Done(p)' = Done(p)
  BY <1>1, <1>4 DEF Open, Done, Busy
<1>15. Flow(p)
  BY <1>6, <1>11, <1>12, <1>14 DEF Flow
<1>16. QED
  BY <1>13, <1>14, <1>15, FlowPasses

LEMMA DequeuePasses ==
    ASSUME NEW p \in Pools, NEW q \in Pools, WayAid(p), WayAid(q), Types', Dequeue(q)
    PROVE  Passes(p)
<1> DEFINE x == Head(queue[q])
<1>1. /\ queue[q] # <<>> /\ queue' = [queue EXCEPT ![q] = Tail(@)]
      /\ addQueue' = Append(addQueue, x)
      /\ UNCHANGED <<batches, current, addSent, toTrader, fromTrader, tq, sent, sending>>
  BY DEF Dequeue, ipcVars, traderVars, histVars
<1>2. /\ queue \in [Pools -> Seq(Nat)] /\ queue[q] \in Seq(Nat) /\ Range(queue[q]) \subseteq OfPool(q)
      /\ Rising(queue[q], OfPool(q)) /\ addQueue \in Seq(Nat) /\ (addSent => addQueue # <<>>)
  BY DEF WayAid, PoolsOK, WayOK, Types, Typed
<1>3. /\ x \in Nat /\ x \in OfPool(q) /\ x \in Range(queue[q])
      /\ Range(queue[q]) = Range(Tail(queue[q])) \cup {x}
  BY <1>1, <1>2, HeadFacts, RangeOfTail
<1>4. Range(queue[q]) \cap OfPool(q) = Range(queue[q])
      /\ Range(Tail(queue[q])) \cap OfPool(q) = Range(Tail(queue[q]))
  BY <1>2, <1>3
<1>5. Ahead(x, Range(queue[q]), Range(Tail(queue[q]))) /\ Rising(Tail(queue[q]), OfPool(q))
  <2>1. Ahead(x, Range(queue[q]) \cap OfPool(q), Range(Tail(queue[q])) \cap OfPool(q))
    BY <1>1, <1>2, <1>3, HeadIsOldest
  <2>2. Rising(Tail(queue[q]), OfPool(q))
    BY <1>1, <1>2, RisingTail
  <2>3. QED
    BY <1>4, <2>1, <2>2
<1>6. queue'[q] = Tail(queue[q]) /\ \A r \in Pools \ {q} : queue'[r] = queue[r]
  BY <1>1, <1>2
<1>7. OfPool(p)' = OfPool(p) /\ \A b : Told(b)' <=> Told(b)
  BY <1>1 DEF OfPool, BatchIds, Told
<1>8. p # q => x \notin OfPool(p)
  BY <1>3 DEF OfPool
<1> HIDE DEF x
<1>9. Unsent' = Append(Unsent, x) /\ Unsent \in Seq(Nat)
  <2>1. addSent => Tail(Append(addQueue, x)) = Append(Tail(addQueue), x)
    BY SMTT(30), <1>2, <1>3
  <2>2. Unsent \in Seq(Nat)
    BY WayFacts
  <2>3. QED
    BY <1>1, <2>1, <2>2 DEF Unsent
<1>10. Range(Unsent') = Range(Unsent) \cup {x}
  BY <1>3, <1>9, RangeOfAppend
<1>11. InUnsent(p)' = IF p = q THEN InUnsent(p) \cup {x} ELSE InUnsent(p)
  BY <1>3, <1>7, <1>8, <1>10 DEF InUnsent
<1>12. Rising(Unsent', OfPool(p))
  <2>1. Rising(Unsent, OfPool(p))
    BY DEF WayAid, WayOK
  <2>2. x \in OfPool(p) => \A y \in Range(Unsent) \cap OfPool(p) : y < x
    BY <1>3, <1>8, WayFacts DEF InUnsent
  <2>3. QED
    BY <1>3, <1>9, <2>1, <2>2, RisingAppend
<1>13. Rising(queue'[p], OfPool(p)) /\ Range(queue'[p]) \subseteq Range(queue[p])
  BY <1>3, <1>5, <1>6 DEF WayAid, WayOK
<1>14. PoolsOK(p)' /\ RisingOK(p)'
  BY <1>1, <1>7, <1>12, <1>13 DEF WayAid, PoolsOK, WayOK, RisingOK
<1>15. /\ Range(tq'[p]) = Range(tq[p]) /\ InChannel(p)' = InChannel(p) /\ Open(p)' = Open(p)
       /\ Done(p)' = Done(p)
  BY <1>1, <1>7 DEF InChannel, Open, Done, Busy
<1>16. Flow(p)
  BY <1>5, <1>6, <1>11, <1>13, <1>15 DEF Flow
<1>17. QED
  BY <1>14, <1>15, <1>16, FlowPasses

LEMMA CommitPasses ==
    ASSUME NEW p \in Pools, NEW q \in Pools, WayAid(p), WayAid(q), Types', CommitTimeout(q)
    PROVE  Passes(p)
<1> DEFINE x == current[q]
<1>1. /\ x # None /\ queue' = [queue EXCEPT ![q] = Append(@, x)]
      /\ current' = [current EXCEPT ![q] = None]
      /\ UNCHANGED <<batches, addQueue, addSent, toTrader, fromTrader, tq, sent, sending>>
  BY DEF CommitTimeout, afterCommit, managerVars, ipcVars, traderVars, histVars
<1>2. /\ queue \in [Pools -> Seq(Nat)] /\ queue[q] \in Seq(Nat) /\ DOMAIN current = Pools
      /\ x \in OfPool(q) /\ x \in Nat /\ x \in Open(q)
  BY <1>1, WayFacts DEF WayAid, PoolsOK, Types, TypeOK, Typed, Open
<1>3. /\ queue'[q] = Append(queue[q], x) /\ \A r \in Pools \ {q} : queue'[r] = queue[r]
      /\ current'[q] = None /\ \A r \in Pools \ {q} : current'[r] = current[r]
  BY <1>1, <1>2
<1>4. OfPool(p)' = OfPool(p) /\ \A b : Told(b)' <=> Told(b)
  BY <1>1 DEF OfPool, BatchIds, Told
<1>5. Open(q) = {x} /\ Open(q)' = {} /\ Open(p)' \subseteq Open(p)
  BY <1>1, <1>3 DEF Open
<1> HIDE DEF x
<1>6. Range(queue'[q]) = Range(queue[q]) \cup {x}
  BY SMTT(30), <1>2, <1>3, RangeOfAppend
<1>7. Rising(queue'[p], OfPool(p))
  <2>1. Rising(queue[p], OfPool(p))
    BY DEF WayAid, WayOK
  <2>2. CASE p = q
    <3>1. \A y \in Range(queue[p]) \cap OfPool(p) : y < x
      BY <1>2, <2>2, WayFacts
    <3>2. QED
      BY <1>2, <1>3, <2>1, <2>2, <3>1, RisingAppend
  <2>3. QED
    BY <1>3, <2>1, <2>2
<1>8. Unsent' = Unsent
  BY <1>1 DEF Unsent
<1>9. PoolsOK(p)' /\ RisingOK(p)'
  BY <1>1, <1>2, <1>3, <1>4, <1>6, <1>7, <1>8 DEF WayAid, PoolsOK, WayOK, RisingOK
<1>10. /\ Range(tq'[p]) = Range(tq[p]) /\ InChannel(p)' = InChannel(p) /\ InUnsent(p)' = InUnsent(p)
       /\ Done(p)' = Done(p)
  BY <1>1, <1>4, <1>8 DEF InChannel, InUnsent, Done, Busy
<1>11. p = q => Ahead(x, Open(p), Open(p)')
  BY <1>2, <1>5 DEF Ahead
<1>12. Flow(p)
  BY <1>3, <1>6, <1>10, <1>11 DEF Flow
<1>13. QED
  BY <1>5, <1>9, <1>10, <1>12, FlowPasses

\* The trader is gone, with what was on the way to it.
LEMMA GonePasses ==
    ASSUME NEW p \in Pools, \A q \in Pools : WayAid(q), Types', TraderGone,
           toTrader' = <<>>, UNCHANGED <<batches, sent>>,
           \A b \in BatchIds : Told(b)' => Told(b),
           \/ UNCHANGED <<current, queue, addQueue, addSent>>
           \/ current'[p] = None /\ queue'[p] = <<>> /\ addQueue' = <<>> /\ addSent' = FALSE
    PROVE  Passes(p)
<1>1. WayAid(p) /\ Types /\ \A q \in Pools : SendingOK(q)
  BY DEF WayAid
<1>2. OfPool(p)' = OfPool(p) /\ OfPool(p) \subseteq BatchIds
  BY DEF OfPool, BatchIds
<1>3. tq'[p] = <<>> /\ Range(tq'[p]) = {} /\ sending'[p] = "no" /\ Range(toTrader') = {}
  BY <1>1, GoneFacts, RangeOfEmpty
<1>4. Open(p)' \subseteq Open(p) /\ InUnsent(p)' \subseteq InUnsent(p) /\ InChannel(p)' = {}
      /\ Range(queue'[p]) \subseteq Range(queue[p])
  <2>1. CASE UNCHANGED <<current, queue, addQueue, addSent>>
    BY <1>2, <1>3, <2>1 DEF Open, InUnsent, InChannel, Unsent
  <2>2. CASE current'[p] = None /\ queue'[p] = <<>> /\ addQueue' = <<>> /\ addSent' = FALSE
    <3>1. Unsent' = <<>> /\ Range(Unsent') = {} /\ Range(queue'[p]) = {}
      BY <2>2, RangeOfEmpty DEF Unsent
    <3>2. QED
      BY <1>3, <2>2, <3>1 DEF Open, InUnsent, InChannel
  <2>3. QED
    BY <2>1, <2>2
<1>5. RisingOK(p)'
  <2>1. Rising(<<>>, OfPool(p))
    BY DEF Rising
  <2>2. Rising(Unsent', OfPool(p)) /\ Rising(queue'[p], OfPool(p))
    BY <1>1, <2>1 DEF WayAid, WayOK, Unsent
  <2>3. QED
    BY <1>2, <1>3, <2>1, <2>2 DEF RisingOK
<1>6. PoolsOK(p)'
  BY <1>1, <1>2, <1>3, <1>4 DEF WayAid, PoolsOK
<1>7. \A b \in Done(p)' : b \in Done(p) \/ Ahead(b, Range(tq[p]), Range(tq'[p]))
  <2>1. ASSUME NEW b \in Done(p)', b \notin Done(p) PROVE Ahead(b, Range(tq[p]), {})
    <3>1. Busy(p, b)
      BY <1>2, <2>1 DEF Done
    <3>2. tq[p] # <<>> /\ b = Head(tq[p])
      BY <1>1, <3>1 DEF Busy, SendingOK
    <3>3. QED
      BY <1>1, <3>2, HeadOfPool DEF Ahead
  <2>2. QED
    BY <1>3, <2>1
<1>8. Done(p) \cap Range(sent[p]) \subseteq Done(p)'
  BY <1>1, <1>2, <1>3, NotBusy DEF Done, Busy
<1>9. Flow(p)
  BY <1>3, <1>4, <1>7 DEF Flow
<1>10. QED
  BY <1>1, <1>4, <1>5, <1>6, <1>8, <1>9, FlowPasses

\* A job is put into a batch: the way of its pool may get a new, youngest batch.
Enters(p, id) ==
    /\ PoolsOK(p)' /\ WayOK(p)'
    /\ OnTheWay(p)' \subseteq OnTheWay(p) \cup {id}
    /\ Done(p) \cap Range(sent[p]) \subseteq Done(p)'

LEMMA PutEnters ==
    ASSUME NEW j \in Jobs, NEW id, NEW p \in Pools, Put(j, id), WayAid(p), WayAid(PoolOf[j]),
           Types', UNCHANGED rest
    PROVE  Enters(p, id)
<1> DEFINE q == PoolOf[j]
<1>1. q \in Pools
  BY TradeAssumption
<1>2. /\ current' = [current EXCEPT ![q] = id]
      /\ Kept(q, id) \/ Begun(q, id) \/ Replaced(q, id)
      /\ Joined(j, id)
  BY DEF Put
<1>3. /\ UNCHANGED <<addQueue, addSent, toTrader, fromTrader, tq, sent, sending>>
  BY DEF rest, managerVars, ipcVars, traderVars, histVars
<1>4. /\ BatchIds' = BatchIds \cup {id} /\ id \in Nat \ {0}
      /\ \A b \in BatchIds \ {id} : batches'[b] = batches[b]
      /\ batches'[id].pool = q
      /\ id \in BatchIds => batches'[id].finished = batches[id].finished
      /\ id \notin BatchIds => batches'[id].finished = "pending"
      /\ id \notin BatchIds => \A b \in BatchIds : b < id
  BY <1>2 DEF Joined
<1> HIDE DEF q
<1>5. id \in BatchIds => id = current[q] /\ id \in OfPool(q)
  <2>1. id \in BatchIds => id = current[q]
    BY <1>2 DEF Kept, Begun, Replaced
  <2>2. current[q] # None => current[q] \in OfPool(q)
    BY <1>1 DEF WayAid, PoolsOK, q
  <2>3. None \notin BatchIds
    BY IdFacts DEF WayAid
  <2>4. QED
    BY <2>1, <2>2, <2>3
<1>6. OfPool(p)' = IF p = q THEN OfPool(p) \cup {id} ELSE OfPool(p)
  BY <1>4, <1>5 DEF OfPool
<1>7. DOMAIN current = Pools /\ queue \in [Pools -> Seq(Nat)]
  BY DEF WayAid, Types, TypeOK, Typed
<1>8. current'[q] = id /\ \A r \in Pools \ {q} : current'[r] = current[r] /\ queue'[r] = queue[r]
  BY <1>1, <1>2, <1>7 DEF Kept, Begun, Replaced
<1>9. /\ OfPool(p) \subseteq BatchIds
      /\ Range(toTrader) \subseteq BatchIds /\ Range(Unsent) \subseteq BatchIds
      /\ Range(tq[p]) \subseteq OfPool(p) /\ Range(queue[p]) \subseteq OfPool(p)
      /\ Range(sent[p]) \subseteq OfPool(p) /\ Unsent' = Unsent
      /\ \A b \in Range(fromTrader) : b.id \in BatchIds
  <2>1. Range(Unsent) \subseteq Range(addQueue)
    BY WayFacts
  <2>2. QED
    BY <1>3, <2>1, IdFacts, MessageFacts DEF WayAid, PoolsOK, OfPool, Unsent
<1>10. id \notin BatchIds => ~Told(id)'
  BY <1>3, <1>4, <1>9 DEF Told
<1>11. \A b \in BatchIds : Told(b)' <=> Told(b)
  BY <1>3, <1>4 DEF Told
<1>12. /\ Range(tq'[p]) = Range(tq[p])
       /\ \A x \in InChannel(p)' : x \in InChannel(p)
       /\ \A x \in InUnsent(p)' : x \in InUnsent(p)
  BY <1>3, <1>4, <1>5, <1>6, <1>9 DEF InChannel, InUnsent, OfPool
<1>13. Done(p)' = Done(p)
  <2>1. id \notin BatchIds => id \notin Done(p)'
    BY <1>3, <1>9, <1>10 DEF Done
  <2>2. \A b \in OfPool(p) : b \in Done(p)' <=> b \in Done(p)
    BY <1>3, <1>6, <1>9, <1>11 DEF Done, Busy
  <2>3. p = q /\ id \in BatchIds => id \in OfPool(p)
    BY <1>5
  <2>4. QED
    BY <1>6, <2>1, <2>2, <2>3 DEF Done
<1>14. \A x \in Open(p)' : x \in Open(p) \/ (x \in Nat /\ \A y \in BatchIds : y < x)
  BY <1>4, <1>5, <1>8 DEF Open, None
<1>15. /\ \A x \in Range(queue'[p]) : x \in Range(queue[p]) \/ Ahead(x, Open(p), Open(p)')
       /\ Rising(queue'[p], OfPool(p)) /\ Range(queue'[p]) \subseteq OfPool(p)
  <2>1. Rising(queue[p], OfPool(p))
    BY DEF WayAid, WayOK
  <2>2. CASE queue'[p] = queue[p]
    BY <1>9, <2>1, <2>2
  <2>3. CASE p = q /\ Replaced(q, id)
    <3> DEFINE x == current[p]
    <3>1. /\ queue'[p] = Append(queue[p], x) /\ x \in OfPool(p) /\ id \notin BatchIds
          /\ queue[p] \in Seq(Nat)
      BY <1>1, <1>7, <2>3 DEF Replaced
    <3>2. x \in Nat /\ Open(p) = {x} /\ x # id
      BY <1>9, <3>1, WayFacts DEF Open
    <3>3. Open(p)' \subseteq {id}
      BY <1>8, <2>3 DEF Open
    <3>4. \A y \in Range(queue[p]) : y < x
      BY <3>2, WayFacts
    <3> HIDE DEF x
    <3>5. Range(queue'[p]) = Range(queue[p]) \cup {x}
      BY <3>1, <3>2, RangeOfAppend
    <3>6. Rising(queue'[p], OfPool(p))
      BY <2>1, <3>1, <3>2, <3>4, RisingAppend
    <3>7. Ahead(x, Open(p), Open(p)')
      BY <3>2, <3>3 DEF Ahead
    <3>8. QED
      BY <1>9, <3>1, <3>5, <3>6, <3>7
  <2>4. QED
    BY <1>1, <1>2, <1>8, <2>2, <2>3 DEF Kept, Begun
<1>16. RisingOK(p)'
  <2>1. Rising(tq[p], OfPool(p)) /\ Rising(toTrader, OfPool(p)) /\ Rising(Unsent, OfPool(p))
    BY DEF WayAid, WayOK
  <2>2. /\ tq[p] \in Seq(Nat) /\ toTrader \in Seq(Nat) /\ Unsent \in Seq(Nat)
        /\ queue'[p] \in Seq(Nat)
    BY IdFacts, WayFacts DEF WayAid, Types, Typed
  <2>3. \A x \in BatchIds : x \in OfPool(p)' => x \in OfPool(p)
    BY <1>5, <1>6
  <2>4. \A S \in {Range(tq[p]), Range(toTrader), Range(Unsent), Range(queue'[p])} :
            S \cap OfPool(p)' \subseteq OfPool(p)
    BY <1>9, <1>15, <2>3
  <2>5. /\ Rising(tq[p], OfPool(p)') /\ Rising(toTrader, OfPool(p)') /\ Rising(Unsent, OfPool(p)')
        /\ Rising(queue'[p], OfPool(p)')
    <3> DEFINE P == OfPool(p)
               Q == OfPool(p)'
    <3>1. /\ Range(tq[p]) \cap Q \subseteq P /\ Range(toTrader) \cap Q \subseteq P
          /\ Range(Unsent) \cap Q \subseteq P /\ Range(queue'[p]) \cap Q \subseteq P
          /\ Rising(tq[p], P) /\ Rising(toTrader, P) /\ Rising(Unsent, P) /\ Rising(queue'[p], P)
      BY <1>15, <2>1, <2>4
    <3> HIDE DEF P, Q
    <3>2. Rising(tq[p], Q) /\ Rising(toTrader, Q) /\ Rising(Unsent, Q) /\ Rising(queue'[p], Q)
      BY <2>2, <3>1, RisingLess
    <3>3. QED
      BY <3>2 DEF Q
  <2>6. QED
    BY <1>3, <1>9, <2>5 DEF RisingOK, Rising
<1>17. PoolsOK(p)'
  BY <1>3, <1>6, <1>8, <1>9, <1>15 DEF WayAid, PoolsOK
<1>18. Flow(p)
  BY <1>12, <1>13, <1>15 DEF Flow
<1>19. WayOK(p)'
  BY <1>14, <1>16, <1>17, <1>18, FlowKeepsChain
<1>20. OnTheWay(p)' \subseteq OnTheWay(p) \cup {id}
  <2>1. OnTheWay(p) = Range(tq[p]) \cup InChannel(p) \cup InUnsent(p) \cup Range(queue[p]) \cup Open(p)
    BY OnTheWayIs
  <2>2. OnTheWay(p)' = Range(tq'[p]) \cup InChannel(p)' \cup InUnsent(p)' \cup Range(queue'[p]) \cup Open(p)'
    BY OnTheWayNext
  <2>3. Open(p)' \subseteq Open(p) \cup {id}
    BY <1>8 DEF Open
  <2>4. Range(queue'[p]) \subseteq Range(queue[p]) \cup Open(p)
    BY <1>15 DEF Ahead
  <2>5. QED
    BY <1>12, <2>1, <2>2, <2>3, <2>4
<1>21. QED
  BY <1>13, <1>17, <1>19, <1>20 DEF Enters

\* Taking a message tells nothing new, nor does handling it.
LEMMA HeardTells ==
    ASSUME Types, Heard, UNCHANGED batches, NEW b
    PROVE  Told(b)' => Told(b)
  BY HeardFacts DEF Told

LEMMA OutcomeTells ==
    ASSUME Types, OnBatchFinished \/ OnBatchFailed, NEW b \in BatchIds
    PROVE  Told(b)' => Told(b)
<1> DEFINE m == Head(fromTrader)
<1>1. Heard /\ m.action \in Outcomes
  BY DEF OnBatchFinished, OnBatchFailed, Received, Heard, Outcomes
<1>2. m \in Range(fromTrader) /\ Range(fromTrader') \subseteq Range(fromTrader)
  BY <1>1, HeardFacts
<1>3. \A c \in BatchIds \ {m.id} : batches'[c] = batches[c]
  BY FinishedOutcome, FailedOutcome DEF Outcome
<1>4. QED
  BY <1>1, <1>2, <1>3 DEF Told

LEMMA OutcomePools ==
    ASSUME Types, OnBatchFinished \/ OnBatchFailed, NEW p
    PROVE  OfPool(p)' = OfPool(p)
  BY FinishedOutcome, FailedOutcome DEF Outcome, OfPool

\* A message of the trader tells the outcome of its batch, if it is one.
LEMMA SaysTells ==
    ASSUME Types, NEW x \in BatchIds, NEW action \in Actions, NEW failed \in SUBSET Nat,
           Says(action, x, failed), UNCHANGED batches, NEW b
    PROVE  Told(b)' => Told(b) \/ b = x
  BY SaysFacts DEF Told

WaysOK == \A p \in Pools : WayAid(p)

LEMMA QuietIdle ==
    ASSUME NEW p, WaysOK, UNCHANGED <<busVars, addQueue, addSent, toTrader, fromTrader, tq, sent, sending>>
    PROVE  Idle(p)
  BY DEF Idle, busVars, OfPool, BatchIds, Told, Unsent

LEMMA MessageIdle ==
    ASSUME NEW p \in Pools, WaysOK, TypeAid,
           OnBatchAdded \/ OnBatchWorking \/ OnBatchFinished \/ OnBatchFailed
    PROVE  Idle(p)
<1>1. Types /\ Heard
  BY DEF TypeAid, OnBatchAdded, OnBatchWorking, OnBatchFinished, OnBatchFailed, Received, Heard
<1>2. CASE OnBatchAdded
  <2>1. Unsent' = Unsent
    <3>1. CASE addSent /\ Head(addQueue) = Head(fromTrader).id
      <4>1. addQueue' = Tail(addQueue) /\ addSent' = FALSE
        BY <1>2, <3>1 DEF OnBatchAdded
      <4>2. QED
        BY <3>1, <4>1 DEF Unsent
    <3>2. CASE ~(addSent /\ Head(addQueue) = Head(fromTrader).id)
      BY <1>2, <3>2 DEF OnBatchAdded, Unsent
    <3>3. QED
      BY <3>1, <3>2
  <2>2. UNCHANGED <<batches, current, queue, toTrader, tq, sent, sending>>
    BY <1>2 DEF OnBatchAdded, traderVars, histVars
  <2>3. QED
    BY <1>1, <2>1, <2>2, HeardTells DEF Idle, OfPool, BatchIds
<1>3. CASE OnBatchWorking
  <2>1. UNCHANGED <<batches, current, queue, addQueue, addSent, toTrader, tq, sent, sending>>
    BY <1>3 DEF OnBatchWorking, busVars, managerVars, traderVars, histVars
  <2>2. QED
    BY <1>1, <2>1, HeardTells DEF Idle, OfPool, BatchIds, Unsent
<1>4. CASE OnBatchFinished \/ OnBatchFailed
  <2>1. UNCHANGED <<current, queue, addQueue, addSent, toTrader, tq, sent, sending>>
    BY <1>4 DEF OnBatchFinished, OnBatchFailed, managerVars, traderVars, histVars
  <2>2. OfPool(p)' = OfPool(p) /\ \A b \in BatchIds : Told(b)' => Told(b)
    BY <1>1, <1>4, OutcomePools, OutcomeTells
  <2>3. QED
    BY <2>1, <2>2 DEF Idle, OfPool, Unsent
<1>5. QED
  BY <1>2, <1>3, <1>4

LEMMA LeaveGoes ==
    ASSUME NEW q \in Pools, WaysOK,
           ProcessBatchThrows(q) \/ ProcessBatchFails(q) \/ TxEnds(q)
    PROVE  Goes(q)
<1>1. Types /\ SendingOK(q) /\ sending \in [Pools -> {"no", "taken", "clash"}]
  BY DEF WaysOK, WayAid, Types, TypeOK
<1>2. CASE ProcessBatchThrows(q)
  <2>1. /\ Leaves(q) /\ sending' = sending /\ sending[q] = "no"
        /\ UNCHANGED <<batches, current, queue, addQueue, addSent, toTrader, fromTrader, sent>>
    BY <1>2 DEF ProcessBatchThrows, AtHead, Leaves, busVars, managerVars, ipcVars
  <2>2. QED
    BY <1>1, <2>1 DEF Goes, Told
<1>3. CASE ProcessBatchFails(q)
  <2>1. /\ Leaves(q) /\ sending' = sending /\ sending[q] = "no"
        /\ UNCHANGED <<batches, current, queue, addQueue, addSent, toTrader, sent>>
        /\ Says("MA_BATCH_FAILED", Head(tq[q]), {})
    BY <1>3 DEF ProcessBatchFails, AtHead, Leaves, busVars, managerVars, histVars, Says, ToManager
  <2>2. \A b : Told(b)' => Told(b) \/ b = Head(tq[q])
    BY <1>1, <2>1, LeavesFacts, SaysTells DEF Actions
  <2>3. QED
    BY <1>1, <2>1, <2>2 DEF Goes
<1>4. CASE TxEnds(q)
  <2>1. Settles(q)
    BY <1>1, <1>4, SettledFacts
  <2>2. /\ Leaves(q) /\ sending' = [sending EXCEPT ![q] = "no"]
        /\ UNCHANGED <<batches, current, queue, addQueue, addSent, toTrader, sent>>
        /\ Head(tq[q]) \in BatchIds
    BY <1>1, <2>1, LeavesFacts DEF Settles, busVars, managerVars
  <2>3. \E action \in Actions : \E failed \in SUBSET Nat : Says(action, Head(tq[q]), failed)
    <3>1. \A failed \in SUBSET (1..Len(batches[Head(tq[q])].calls)) : failed \in SUBSET Nat
      OBVIOUS
    <3>2. QED
      BY <1>1, <1>4, <3>1, SettledSays DEF Actions
  <2>4. \A b : Told(b)' => Told(b) \/ b = Head(tq[q])
    BY <1>1, <2>2, <2>3, SaysTells
  <2>5. QED
    BY <2>2, <2>4 DEF Goes
<1>5. QED
  BY <1>2, <1>3, <1>4

LEMMA GonesPass ==
    ASSUME NEW p \in Pools, WaysOK, Types', TraderExit \/ MasterDies
    PROVE  Passes(p)
<1>1. /\ TraderGone /\ toTrader' = <<>> /\ UNCHANGED <<batches, sent>>
      /\ \/ UNCHANGED <<current, queue, addQueue, addSent>>
         \/ current'[p] = None /\ queue'[p] = <<>> /\ addQueue' = <<>> /\ addSent' = FALSE
  BY DEF TraderExit, MasterDies, busVars, managerVars
<1>2. \A b \in BatchIds : Told(b)' => Told(b)
  <2>1. Range(fromTrader') \subseteq Range(fromTrader)
    <3>1. CASE TraderExit
      <4>1. fromTrader \in Seq(Messages)
        BY DEF WaysOK, WayAid, Types, Typed
      <4>2. QED
        BY <3>1, <4>1, RangeOfPart DEF TraderExit
    <3>2. CASE MasterDies
      BY <3>2, RangeOfEmpty DEF MasterDies
    <3>3. QED
      BY <3>1, <3>2
  <2>2. QED
    BY <1>1, <2>1 DEF Told
<1>3. QED
  BY <1>1, <1>2, GonePasses DEF WaysOK

\* A step that puts a job into a batch.
Puts == \E j \in Jobs : Enqueue(j) \/ RetryJob(j)

LEMMA StepPasses ==
    ASSUME WaysOK, TypeAid, Types', [Next]_vars, ~Puts, NEW p \in Pools
    PROVE  Passes(p)
<1> USE DEF WaysOK
<1>1. ASSUME UNCHANGED <<busVars, addQueue, addSent, toTrader, fromTrader, tq, sent, sending>>
      PROVE  Passes(p)
  BY <1>1, QuietIdle, IdlePasses
<1>2. CASE UNCHANGED vars
  BY <1>1, <1>2 DEF vars, managerVars, ipcVars, traderVars, histVars
<1>3. ASSUME NEW j \in Jobs, JobStep(j) PROVE Passes(p)
  <2>1. Moves(j)
    BY <1>3 DEF JobStep, Puts, Moves
  <2>2. UNCHANGED <<busVars, managerVars, ipcVars, traderVars, sent>>
    BY <2>1, MovesFacts DEF TypeAid
  <2>3. QED
    BY <1>1, <2>2 DEF managerVars, ipcVars, traderVars
<1>4. ASSUME NEW q \in Pools, CommitTimeout(q) \/ Dequeue(q) \/ Trader(q) \/ Faults(q) PROVE Passes(p)
  <2>1. CASE CommitTimeout(q) \/ Dequeue(q)
    BY <2>1, CommitPasses, DequeuePasses
  <2>2. CASE ReadNonce(q)
    BY <1>1, <2>2 DEF ReadNonce, managerVars, ipcVars, histVars
  <2>3. CASE ProcessBatch(q)
    BY <2>3, SendsFacts, SendsPasses DEF TypeAid
  <2>4. CASE ProcessBatchThrows(q) \/ ProcessBatchFails(q) \/ TxEnds(q)
    BY <2>4, LeaveGoes, GoesPasses
  <2>5. QED
    BY <1>4, <2>1, <2>2, <2>3, <2>4 DEF Trader, Faults, TxEnds
<1>5. CASE MasterDies \/ TraderExit
  BY <1>5, GonesPass
<1>6. CASE OnMessage
  BY <1>5, <1>6, MessageIdle, IdlePasses DEF OnMessage, OnBatchFailedUnhandled
<1>7. CASE Manager
  <2>1. CASE SendAddBatch
    BY <2>1, SendAddPasses
  <2>2. CASE OnProcessExited \/ TraderOnline
    BY <1>1, <2>2 DEF OnProcessExited, TraderOnline, ipcVars, traderVars, histVars
  <2>3. QED
    BY <1>7, <2>1, <2>2 DEF Manager
<1>8. CASE AddBatchJob
  BY <1>8, AddBatchJobPasses
<1>9. ASSUME NEW b \in 1..Len(batches), LateInBlock(b) PROVE Passes(p)
  BY <1>1, <1>9 DEF LateInBlock, managerVars, ipcVars, traderVars, histVars
<1>10. QED
  BY <1>2, <1>3, <1>4, <1>5, <1>6, <1>7, <1>8, <1>9 DEF Next, MasterCrash

LEMMA PutsEnter ==
    ASSUME WaysOK, TypeAid, Types', Puts
    PROVE  \E j \in Jobs : \E id :
                /\ Put(j, id) /\ UNCHANGED rest /\ \A p \in Pools : Enters(p, id)
                /\ Enqueue(j) \/ RetryJob(j)
<1>1. PICK j \in Jobs : Enqueue(j) \/ RetryJob(j)
  BY DEF Puts
<1>2. PICK id : Put(j, id)
  BY <1>1, PutExists DEF Enqueue, RetryJob
<1>3. UNCHANGED rest
  BY <1>1 DEF Enqueue, RetryJob, rest, histVars
<1>4. \A p \in Pools : Enters(p, id)
  BY <1>2, <1>3, PutEnters, TradeAssumption DEF WaysOK
<1>5. QED
  BY <1>1, <1>2, <1>3, <1>4
-------------------------------------------------------------------------------
(* Jobs and batches.                                                       *)

\* What the steps that begin no batch change of the jobs, and of the batches.
LEMMA JobFrame ==
    ASSUME [Next]_vars, ~Puts
    PROVE  \/ UNCHANGED jobVars
           \/ \E j \in Jobs : Moves(j)
           \/ OnBatchWorking
           \/ MasterDies
<1>1. CASE UNCHANGED vars
  BY <1>1 DEF vars
<1>2. ASSUME NEW j \in Jobs, JobStep(j)
      PROVE  Moves(j)
  BY <1>2 DEF JobStep, Puts, Moves
<1>3. ASSUME NEW p \in Pools, CommitTimeout(p) \/ Dequeue(p) \/ Trader(p) \/ Faults(p)
      PROVE  UNCHANGED jobVars
  BY <1>3 DEF CommitTimeout, Dequeue, Trader, ReadNonce, ProcessBatch, TxInBlock, TxClashes, Faults,
              ProcessBatchThrows, ProcessBatchFails, TxUnreadable, TxRefused, TxTimeout
<1>4. CASE OnMessage
  BY <1>4 DEF OnMessage, OnBatchAdded, OnBatchFinished, OnBatchFailed, OnBatchFailedUnhandled
<1>5. ASSUME Manager \/ AddBatchJob \/ TraderExit \/ \E b \in 1..Len(batches) : LateInBlock(b)
      PROVE  UNCHANGED jobVars
  BY <1>5 DEF Manager, SendAddBatch, OnProcessExited, TraderOnline, AddBatchJob, TraderExit, LateInBlock
<1>6. QED
  BY <1>1, <1>2, <1>3, <1>4, <1>5 DEF Next, MasterCrash

LEMMA BatchFrame ==
    ASSUME [Next]_vars, ~Puts
    PROVE  UNCHANGED batches \/ OnBatchFinished \/ OnBatchFailed
<1>1. CASE UNCHANGED vars
  BY <1>1 DEF vars, busVars
<1>2. ASSUME NEW j \in Jobs, JobStep(j)
      PROVE  UNCHANGED batches
  BY <1>2 DEF JobStep, Puts, Take, PreprocessFails, WaitUntilFinished, JobSucceeds, JobFails, busVars
<1>3. ASSUME NEW p \in Pools, CommitTimeout(p) \/ Dequeue(p) \/ Trader(p) \/ Faults(p)
      PROVE  UNCHANGED batches
  BY <1>3 DEF CommitTimeout, Dequeue, Trader, ReadNonce, ProcessBatch, TxInBlock, TxClashes, Faults,
              ProcessBatchThrows, ProcessBatchFails, TxUnreadable, TxRefused, TxTimeout, busVars
<1>4. CASE OnMessage \/ MasterCrash
  BY <1>4 DEF OnMessage, OnBatchAdded, OnBatchWorking, OnBatchFailedUnhandled, MasterCrash, MasterDies,
              busVars
<1>5. ASSUME Manager \/ AddBatchJob \/ TraderExit \/ \E b \in 1..Len(batches) : LateInBlock(b)
      PROVE  UNCHANGED batches
  BY <1>5 DEF Manager, SendAddBatch, OnProcessExited, TraderOnline, AddBatchJob, TraderExit,
              LateInBlock, busVars
<1>6. QED
  BY <1>1, <1>2, <1>3, <1>4, <1>5 DEF Next

\* The batches are the same, but for their outcome.
SameCalls ==
    /\ BatchIds' = BatchIds
    /\ \A b \in BatchIds : /\ batches'[b].pool = batches[b].pool
                           /\ batches'[b].calls = batches[b].calls
                           /\ batches'[b].callToJobId = batches[b].callToJobId

LEMMA CallsStay ==
    ASSUME Types, [Next]_vars, ~Puts
    PROVE  SameCalls
  BY BatchFrame, FinishedOutcome, FailedOutcome DEF SameCalls, Outcome, BatchIds

LEMMA SameCallsFacts ==
    ASSUME SameCalls, NEW b \in BatchIds
    PROVE  /\ JobsOf(b)' = JobsOf(b)
           /\ \A i \in 1..Len(batches[b].calls) : callId(b, i)' = callId(b, i)
  BY DEF SameCalls, JobsOf, callId

LEMMA BatchesStayOK ==
    ASSUME Types, \A b \in BatchIds : BatchOK(b), SameCalls
    PROVE  \A b \in BatchIds' : BatchOK(b)'
<1> SUFFICES ASSUME NEW b \in BatchIds' PROVE BatchOK(b)'
  OBVIOUS
<1>1. b \in BatchIds /\ BatchOK(b) /\ JobsOf(b)' = JobsOf(b)
  BY SameCallsFacts DEF SameCalls
<1>2. /\ batches'[b].pool = batches[b].pool /\ batches'[b].calls = batches[b].calls
      /\ batches'[b].callToJobId = batches[b].callToJobId
  BY <1>1 DEF SameCalls
<1>3. QED
  BY <1>1, <1>2 DEF BatchOK, Together

LEMMA OnTheWayFacts ==
    ASSUME NEW p \in Pools, WayAid(p), NEW b \in OnTheWay(p)
    PROVE  /\ b \in OfPool(p) /\ b \in BatchIds /\ b \notin Done(p)
           /\ batches[b].finished = "pending"
<1>1. OnTheWay(p) = Range(tq[p]) \cup InChannel(p) \cup InUnsent(p) \cup Range(queue[p]) \cup Open(p)
  BY OnTheWayIs
<1>2. b \in OfPool(p) /\ b \in Nat /\ b \in BatchIds /\ \A a \in Done(p) : a < b
  BY <1>1, WayFacts
<1>3. b \notin Done(p)
  BY <1>2
<1>4. QED
  BY <1>2, <1>3 DEF Done, Told

\* The calls of a batch that gets those of job j.
LEMMA JoinedCalls ==
    ASSUME Types, NEW j \in Jobs, NEW id, Joined(j, id)
    PROVE  LET n == IF id \in BatchIds THEN Len(batches[id].calls) ELSE 0 IN
           /\ n \in Nat /\ Len(batches'[id].calls) = n + Calls[j]
           /\ \A i \in 1..n : batches'[id].calls[i] = batches[id].calls[i]
           /\ \A i \in 1..(n + Calls[j]) : i > n => batches'[id].calls[i] = j
           /\ JobsOf(id)' = IF id \in BatchIds THEN JobsOf(id) \cup {j} ELSE {j}
<1> DEFINE old == IF id \in BatchIds THEN batches[id].calls ELSE <<>>
           more == [i \in 1..Calls[j] |-> j]
           n == Len(old)
           all == batches'[id].calls
<1>1. old \in Seq(Jobs) /\ n \in Nat /\ Calls[j] \in Nat \ {0}
      /\ n = IF id \in BatchIds THEN Len(batches[id].calls) ELSE 0
  BY BatchFacts, TradeAssumption DEF Types
<1>2. more \in Seq(Jobs) /\ Len(more) = Calls[j] /\ \A i \in 1..Calls[j] : more[i] = j
  BY <1>1
<1>3. all = old \o more
  BY DEF Joined
<1>4. id \in BatchIds => old = batches[id].calls
  OBVIOUS
<1> HIDE DEF old, more
<1>5. /\ all \in Seq(Jobs) /\ Len(all) = n + Calls[j]
      /\ \A i \in 1..n : all[i] = old[i]
  <2>1. old \o more \in Seq(Jobs) /\ Len(old \o more) = n + Calls[j]
    <3>1. old \in Seq(Jobs) /\ more \in Seq(Jobs) /\ Len(more) = Calls[j]
      BY <1>1, <1>2
    <3>2. old \o more \in Seq(Jobs) /\ Len(old \o more) = Len(old) + Len(more)
      BY <3>1
    <3>3. QED
      BY <3>1, <3>2
  <2>2. ASSUME NEW i \in 1..n PROVE (old \o more)[i] = old[i]
    BY <1>1, <1>2
  <2> HIDE DEF all
  <2>3. QED
    BY <1>3, <2>1, <2>2
<1>6. ASSUME NEW i \in 1..(n + Calls[j]), i > n PROVE all[i] = j
  <2>1. all[i] = more[i - n] /\ i - n \in 1..Calls[j]
    BY SMTT(30), <1>1, <1>2, <1>3, <1>6
  <2>2. QED
    BY <1>2, <2>1
<1>7. JobsOf(id)' = {old[i] : i \in 1..n} \cup {j}
  <2>1. JobsOf(id)' = Range(all)
    BY DEF JobsOf
  <2> HIDE DEF all
  <2>2. Range(all) = {all[i] : i \in 1..(n + Calls[j])}
    BY <1>5, RangeIs
  <2>3. \A i \in 1..(n + Calls[j]) : i \in 1..n \/ i > n
    BY <1>1
  <2>4. n + 1 \in 1..(n + Calls[j]) /\ n + 1 > n /\ 1..n \subseteq 1..(n + Calls[j])
    BY <1>1
  <2>5. QED
    BY <1>5, <1>6, <2>1, <2>2, <2>3, <2>4
<1>8. {old[i] : i \in 1..n} = IF id \in BatchIds THEN JobsOf(id) ELSE {}
  <2>1. CASE id \in BatchIds
    BY <1>1, <1>4, <2>1, RangeIs DEF JobsOf
  <2>2. CASE id \notin BatchIds
    BY <1>1, <2>2
  <2>3. QED
    BY <2>1, <2>2
<1>9. id \in BatchIds => \A i \in 1..n : old[i] = batches[id].calls[i]
  BY <1>4
<1>10. QED
  BY <1>1, <1>4, <1>5, <1>6, <1>7, <1>8, <1>9

\* The jobs of other calls stay where they are; the new ones are side by side.
LEMMA BatchesJoinOK ==
    ASSUME Types, \A b \in BatchIds : BatchOK(b), NEW j \in Jobs, NEW id, Joined(j, id),
           id \in BatchIds => j \notin JobsOf(id) /\ batches[id].pool = PoolOf[j]
    PROVE  \A b \in BatchIds' : BatchOK(b)'
<1> DEFINE n == IF id \in BatchIds THEN Len(batches[id].calls) ELSE 0
           all == batches'[id].calls
<1>1. /\ n \in Nat /\ Calls[j] \in Nat \ {0} /\ Len(all) = n + Calls[j]
      /\ \A i \in 1..n : all[i] = batches[id].calls[i]
      /\ \A i \in 1..(n + Calls[j]) : i > n => all[i] = j
      /\ JobsOf(id)' = IF id \in BatchIds THEN JobsOf(id) \cup {j} ELSE {j}
  BY JoinedCalls, TradeAssumption
<1>2. id \in BatchIds => n = Len(batches[id].calls)
  OBVIOUS
<1>3. id \notin BatchIds => n = 0
  OBVIOUS
<1> HIDE DEF n, all
<1>4. \A i \in 1..n : all[i] # j
  <2>1. ASSUME NEW i \in 1..n PROVE all[i] # j
    <3>1. id \in BatchIds
      BY <1>1, <1>3
    <3>2. batches[id].calls[i] \in JobsOf(id)
      BY <1>2, <3>1, BatchFacts DEF Types
    <3>3. QED
      BY <1>1, <3>1, <3>2
  <2>2. QED
    BY <2>1
<1>5. Together(id, j)'
  <2>1. \A k \in 1..Len(all) : (all[k] = j) <=> (n < k /\ k <= n + Calls[j])
    BY <1>1, <1>4
  <2>2. n \in Nat /\ n + Calls[j] <= Len(all)
    BY <1>1
  <2>3. Together(id, j)' <=> \E s \in Nat :
            /\ s + Calls[j] <= Len(all)
            /\ \A k \in 1..Len(all) : (all[k] = j) <=> (s < k /\ k <= s + Calls[j])
    BY DEF Together, all
  <2>4. QED
    BY <2>1, <2>2, <2>3
<1>6. ASSUME NEW k \in Jobs, k # j, id \in BatchIds, k \in JobsOf(id) PROVE Together(id, k)'
  <2>1. Calls[k] \in Nat
    BY TradeAssumption
  <2>2. PICK s \in Nat :
            /\ s + Calls[k] <= n
            /\ \A i \in 1..n : (batches[id].calls[i] = k) <=> (s < i /\ i <= s + Calls[k])
    BY <1>2, <1>6 DEF BatchOK, Together
  <2>3. \A i \in 1..Len(all) : (all[i] = k) <=> (s < i /\ i <= s + Calls[k])
    <3>1. ASSUME NEW i \in 1..Len(all) PROVE (all[i] = k) <=> (s < i /\ i <= s + Calls[k])
      <4>1. CASE i \in 1..n
        BY <1>1, <2>2, <4>1
      <4>2. CASE i > n
        <5>1. all[i] = j
          BY <1>1, <4>2
        <5>2. ~(i <= s + Calls[k])
          BY <1>1, <2>1, <2>2, <4>2
        <5>3. QED
          BY <1>6, <5>1, <5>2
      <4>3. QED
        BY <1>1, <4>1, <4>2
    <3>2. QED
      BY <3>1
  <2>4. s + Calls[k] <= Len(all)
    BY <1>1, <2>1, <2>2
  <2>5. QED
    BY <2>3, <2>4 DEF Together, all
<1>7. BatchOK(id)'
  <2>1. batches'[id].callToJobId = batches'[id].calls /\ batches'[id].pool = PoolOf[j]
    BY DEF Joined
  <2>2. ASSUME NEW k \in JobsOf(id)' PROVE PoolOf[k] = batches'[id].pool /\ Together(id, k)'
    <3>1. CASE k = j
      BY <1>5, <2>1, <3>1
    <3>2. CASE k # j
      <4>1. id \in BatchIds /\ k \in JobsOf(id)
        BY <1>1, <2>2, <3>2
      <4>2. k \in Jobs /\ PoolOf[k] = batches[id].pool
        BY <4>1, BatchFacts DEF Types, BatchOK
      <4>3. QED
        BY <1>6, <2>1, <3>2, <4>1, <4>2
    <3>3. QED
      BY <3>1, <3>2
  <2>3. JobsOf(id)' # {}
    BY <1>1
  <2>4. QED
    BY <2>1, <2>2, <2>3 DEF BatchOK
<1>8. ASSUME NEW b \in BatchIds', b # id PROVE BatchOK(b)'
  <2>1. b \in BatchIds /\ batches'[b] = batches[b] /\ BatchOK(b)
    BY <1>8 DEF Joined
  <2>2. QED
    BY <2>1 DEF BatchOK, Together, JobsOf
<1>9. QED
  BY <1>7, <1>8

-------------------------------------------------------------------------------
(* What only grows.                                                        *)

Attended(q) ==
    \/ ReadNonce(q) \/ Sends(q) \/ ProcessBatchThrows(q) \/ ProcessBatchFails(q) \/ Settles(q)

LEMMA TraderFrame ==
    ASSUME TypeAid, [Next]_vars
    PROVE  \/ UNCHANGED <<tq, nonce, sending, nextIndex, sent>>
           \/ AddBatchJob \/ (TraderGone /\ UNCHANGED <<nextIndex, sent>>)
           \/ \E q \in Pools : Attended(q)
<1>1. CASE UNCHANGED vars
  BY <1>1 DEF vars, traderVars, chainVars, histVars
<1>2. ASSUME NEW j \in Jobs, JobStep(j)
      PROVE  UNCHANGED <<tq, nonce, sending, nextIndex, sent>>
  BY <1>2 DEF JobStep, Take, PreprocessFails, Enqueue, RetryJob, WaitUntilFinished, JobSucceeds,
              JobFails, traderVars, chainVars, histVars
<1>3. ASSUME NEW p \in Pools, CommitTimeout(p) \/ Dequeue(p)
      PROVE  UNCHANGED <<tq, nonce, sending, nextIndex, sent>>
  BY <1>3 DEF CommitTimeout, Dequeue, traderVars, chainVars, histVars
<1>4. ASSUME NEW p \in Pools, Trader(p) \/ Faults(p)
      PROVE  Attended(p)
  <2>1. Types /\ SendingOK(p)
    BY DEF TypeAid
  <2>2. CASE ProcessBatch(p)
    BY <2>1, <2>2, SendsFacts DEF Attended
  <2>3. CASE TxEnds(p)
    BY <2>1, <2>3, SettledFacts DEF Attended
  <2>4. QED
    BY <1>4, <2>2, <2>3 DEF Trader, Faults, Attended, TxEnds
<1>5. ASSUME MasterDies \/ TraderExit PROVE TraderGone /\ UNCHANGED <<nextIndex, sent>>
  BY <1>5 DEF MasterDies, TraderExit
<1>6. CASE OnMessage \/ MasterCrash
  BY <1>5, <1>6 DEF OnMessage, OnBatchAdded, OnBatchWorking, OnBatchFinished, OnBatchFailed,
       OnBatchFailedUnhandled, MasterCrash, traderVars, chainVars, histVars
<1>7. ASSUME Manager \/ \E b \in 1..Len(batches) : LateInBlock(b)
      PROVE  UNCHANGED <<tq, nonce, sending, nextIndex, sent>>
  BY <1>7 DEF Manager, SendAddBatch, OnProcessExited, TraderOnline, LateInBlock, traderVars, chainVars,
       histVars
<1>8. QED
  BY <1>1, <1>2, <1>3, <1>4, <1>5, <1>6, <1>7 DEF Next

LEMMA SentGrows ==
    ASSUME TypeAid, [Next]_vars, NEW p \in Pools
    PROVE  Range(sent[p]) \subseteq Range(sent'[p])
<1>1. CASE sent' = sent
  BY <1>1
<1>2. ASSUME NEW q \in Pools, Sends(q) PROVE Range(sent[p]) \subseteq Range(sent'[p])
  <2>1. tq[q] # <<>> /\ sent' = [sent EXCEPT ![q] = Append(@, Head(tq[q]))] /\ Types
    BY <1>2 DEF Sends, TypeAid
  <2>2. sent \in [Pools -> Seq(Nat)] /\ Head(tq[q]) \in Nat
    BY <2>1, HeadFacts DEF Types, Typed
  <2> DEFINE x == Head(tq[q])
             s == sent[p]
  <2>3. sent'[p] = s \/ sent'[p] = Append(s, x)
    BY <2>1, <2>2
  <2>4. s \in Seq(Nat) /\ x \in Nat
    BY <2>2
  <2> HIDE DEF x
  <2> HIDE DEF s
  <2>5. Range(s) \subseteq Range(Append(s, x))
    BY <2>4, RangeOfAppend
  <2>6. QED
    BY <2>3, <2>5 DEF s
<1>3. CASE AddBatchJob
  BY <1>1, <1>3 DEF AddBatchJob, histVars
<1>4. ASSUME NEW q \in Pools, Attended(q), ~Sends(q) PROVE sent' = sent
  BY <1>4 DEF Attended, ReadNonce, ProcessBatchThrows, ProcessBatchFails, Settles, histVars
<1>5. QED
  BY <1>1, <1>2, <1>3, <1>4, TraderFrame

LEMMA UnreportedGrows ==
    ASSUME TypeAid, [Next]_vars
    PROVE  unreported \subseteq unreported'
<1>1. Types
  BY DEF TypeAid
<1>2. CASE UNCHANGED vars
  BY <1>2 DEF vars, histVars
<1>3. ASSUME NEW j \in Jobs, JobStep(j) PROVE unreported \subseteq unreported'
  <2>1. CASE Enqueue(j)
    BY <2>1 DEF Enqueue, histVars
  <2>2. CASE RetryJob(j)
    BY <1>1, <2>2, RejectsFacts DEF RetryJob
  <2>3. CASE Moves(j)
    BY <1>1, <2>3, MovesFacts
  <2>4. QED
    BY <1>3, <2>1, <2>2, <2>3 DEF JobStep, Moves
<1>4. ASSUME NEW p \in Pools, CommitTimeout(p) \/ Dequeue(p) \/ Trader(p) \/ Faults(p)
      PROVE  UNCHANGED unreported
  BY <1>4 DEF CommitTimeout, Dequeue, Trader, ReadNonce, ProcessBatch, TxInBlock, TxClashes, Faults,
              ProcessBatchThrows, ProcessBatchFails, TxUnreadable, TxRefused, TxTimeout, histVars
<1>5. CASE OnMessage \/ MasterCrash
  BY <1>5 DEF OnMessage, OnBatchAdded, OnBatchWorking, OnBatchFinished, OnBatchFailed,
              OnBatchFailedUnhandled, MasterCrash, MasterDies, histVars
<1>6. ASSUME Manager \/ AddBatchJob \/ TraderExit \/ \E b \in 1..Len(batches) : LateInBlock(b)
      PROVE  UNCHANGED unreported
  BY <1>6 DEF Manager, SendAddBatch, OnProcessExited, TraderOnline, AddBatchJob, TraderExit,
              LateInBlock, histVars
<1>7. QED
  BY <1>2, <1>3, <1>4, <1>5, <1>6 DEF Next

-------------------------------------------------------------------------------
(* The jobs of the batches on the way.                                     *)

\* What was sent is not the batch that is being filled.
LEMMA OpenIsUnsent ==
    ASSUME NEW p \in Pools, WayAid(p), current[p] # None
    PROVE  current[p] \in OnTheWay(p) /\ current[p] \notin Range(sent[p])
<1>1. current[p] \in Open(p)
  BY DEF Open
<1>2. current[p] \in OnTheWay(p) /\ current[p] \in Nat
  BY <1>1, OnTheWayIs, WayFacts
<1>3. ASSUME current[p] \in Range(sent[p]) PROVE FALSE
  <2>1. current[p] \notin Done(p) /\ current[p] \notin Range(tq[p])
    <3>1. \A a \in Done(p) \cup Range(tq[p]) : a < current[p]
      BY <1>1, WayFacts
    <3>2. QED
      BY <1>2, <3>1
  <2>2. Busy(p, current[p])
    BY <1>3, <2>1 DEF Done, WayAid, PoolsOK
  <2>3. tq[p] # <<>> /\ tq[p] \in Seq(Nat)
    BY <2>2, IdFacts DEF Busy, WayAid, SendingOK
  <2>4. Head(tq[p]) \in Range(tq[p])
    BY <2>3, HeadFacts
  <2>5. QED
    BY <2>1, <2>2, <2>4 DEF Busy
<1>4. QED
  BY <1>2, <1>3

JobsAid ==
    /\ WaysOK /\ TypeAid
    /\ \A p \in Pools : LiveOK(p)
    /\ \A j \in Jobs : JobOK(j)

\* A job that waits for a batch on the way, and leaves it, had its progress refused.
LEMMA LeftBehind ==
    ASSUME JobsAid, NEW j \in Jobs, Rejects(j), NEW p \in Pools, NEW b \in OnTheWay(p),
           j \in JobsOf(b)
    PROVE  j \in unreported' /\ b \in Range(sent[p])
<1>1. /\ Types /\ WayAid(p) /\ LiveOK(p) /\ JobOK(j)
      /\ unreported \subseteq unreported' /\ job[j] \in {"reporting", "working"}
      /\ j \in unreported' \/ batches[jobBatch[j]].finished # "pending"
  BY RejectsFacts DEF JobsAid, TypeAid, WaysOK
<1>2. b \in OfPool(p) /\ b \in BatchIds /\ batches[b].finished = "pending"
  BY <1>1, OnTheWayFacts
<1>3. CASE jobBatch[j] = b
  <2>1. j \in unreported'
    BY <1>1, <1>2, <1>3
  <2>2. PoolOf[j] = p
    BY <1>2 DEF JobsAid, TypeAid, BatchOK, OfPool
  <2>3. b \in Range(sent[p])
    BY <1>1, <1>3, <2>2 DEF JobOK, wasSent
  <2>4. QED
    BY <2>1, <2>3
<1>4. CASE jobBatch[j] # b
  BY <1>1, <1>4 DEF LiveOK, Attached
<1>5. QED
  BY <1>3, <1>4

LEMMA PutIsNew ==
    ASSUME JobsAid, NEW j \in Jobs, Enqueue(j) \/ RetryJob(j), NEW p \in Pools,
           NEW b \in OnTheWay(p), j \in JobsOf(b)
    PROVE  j \in unreported' /\ b \in Range(sent[p])
<1>1. CASE RetryJob(j)
  BY <1>1, LeftBehind DEF RetryJob
<1>2. CASE Enqueue(j)
  <2>1. jobBatch[j] = None /\ unreported' = unreported
    BY <1>2 DEF Enqueue, JobsAid, JobOK, histVars
  <2>2. b \in BatchIds /\ None \notin BatchIds
    BY OnTheWayFacts, IdFacts DEF JobsAid, WaysOK, TypeAid
  <2>3. QED
    BY <2>1, <2>2 DEF JobsAid, LiveOK, Attached
<1>3. QED
  BY <1>1, <1>2

LEMMA PutsLive ==
    ASSUME JobsAid, NEW j \in Jobs, NEW id, Put(j, id), Enqueue(j) \/ RetryJob(j),
           UNCHANGED rest, unreported \subseteq unreported', NEW p \in Pools, Enters(p, id)
    PROVE  LiveOK(p)'
<1> DEFINE Fine(k, b) == Attached(k, b)' \/ (k \in unreported' /\ b \in Range(sent[p]))
<1>1. /\ Joined(j, id) /\ Types /\ sent' = sent
      /\ jobBatch \in [Jobs -> BatchIds \cup {None}] /\ job \in [Jobs -> Statuses]
      /\ p \in Pools /\ PoolOf[j] \in Pools
  BY TradeAssumption DEF Put, JobsAid, TypeAid, Types, TypeOK, Statuses, rest
<1>2. jobBatch' = [jobBatch EXCEPT ![j] = id] /\ job' = [job EXCEPT ![j] = "enqueued"]
  BY DEF Put, Enqueue, RetryJob
<1>3. Attached(j, id)'
  BY <1>1, <1>2 DEF Attached, Unsettled
<1>4. ASSUME NEW k \in Jobs, k # j, NEW b, Attached(k, b) PROVE Attached(k, b)'
  BY <1>1, <1>2, <1>4 DEF Attached, Unsettled
<1>5. ASSUME NEW b \in OnTheWay(p), NEW k \in JobsOf(b) PROVE Fine(k, b)
  <2>1. b \in BatchIds /\ k \in Jobs
    BY <1>1, OnTheWayFacts, BatchFacts DEF JobsAid, WaysOK, Types
  <2>2. CASE k = j
    BY <2>2, PutIsNew
  <2>3. CASE k # j
    BY <1>4, <2>1, <2>3 DEF JobsAid, LiveOK
  <2>4. QED
    BY <2>2, <2>3
<1> SUFFICES ASSUME NEW b \in OnTheWay(p)', NEW k \in JobsOf(b)'
             PROVE  Fine(k, b)
  BY <1>1 DEF LiveOK
<1>6. CASE b # id
  <2>1. b \in OnTheWay(p)
    BY <1>6 DEF Enters
  <2>2. b \in BatchIds /\ batches'[b] = batches[b]
    BY <1>1, <1>6, <2>1, OnTheWayFacts DEF JobsAid, WaysOK, Joined
  <2>3. k \in JobsOf(b)
    BY <2>2 DEF JobsOf
  <2>4. QED
    BY <1>5, <2>1, <2>3
<1>7. CASE b = id
  <2>1. CASE k = j
    BY <1>3, <1>7, <2>1
  <2>2. CASE k # j
    <3> DEFINE q == PoolOf[j]
    <3>1. id \in BatchIds /\ k \in JobsOf(id)
      BY <1>1, <1>7, <2>2, JoinedCalls
    <3>2. id = current[q] /\ id # None
      BY <1>1, <3>1, IdFacts DEF Put, Kept, Begun, Replaced
    <3>3. id \in OnTheWay(q) /\ id \notin Range(sent[q])
      BY <1>1, <3>2, OpenIsUnsent DEF JobsAid, WaysOK
    <3>4. Attached(k, id) /\ k \in Jobs
      BY <1>1, <3>1, <3>3, BatchFacts DEF JobsAid, LiveOK, Types
    <3>5. QED
      BY <1>4, <1>7, <2>2, <3>4
  <2>3. QED
    BY <2>1, <2>2
<1>8. QED
  BY <1>6, <1>7

LEMMA DiesEmpties ==
    ASSUME MasterDies, NEW p \in Pools
    PROVE  OnTheWay(p)' = {}
<1>1. /\ tq'[p] = <<>> /\ queue'[p] = <<>> /\ current'[p] = None
      /\ toTrader' = <<>> /\ addQueue' = <<>> /\ addSent' = FALSE
  BY DEF MasterDies, TraderGone
<1>2. Range(tq'[p]) = {} /\ Range(queue'[p]) = {} /\ Range(toTrader') = {}
      /\ Range(Unsent') = {} /\ Open(p)' = {}
  BY <1>1, RangeOfEmpty DEF Unsent, Open
<1>3. QED
  BY <1>2, OnTheWayNext DEF InChannel, InUnsent

\* A job that moves leaves no batch on the way but by the refusal of its progress.
LEMMA MovesLive ==
    ASSUME JobsAid, NEW j \in Jobs, Moves(j), NEW p \in Pools, NEW b \in OnTheWay(p),
           j \in JobsOf(b), Attached(j, b)
    PROVE  Attached(j, b)' \/ (j \in unreported' /\ b \in Range(sent[p]))
<1>1. /\ Types /\ JobOK(j) /\ b \in BatchIds /\ None \notin BatchIds
      /\ batches[b].finished = "pending" /\ jobBatch[j] = b /\ Unsettled(j)
      /\ job \in [Jobs -> Statuses]
  BY OnTheWayFacts, IdFacts DEF JobsAid, WaysOK, TypeAid, Types, TypeOK, Statuses, Attached
<1>2. job[j] \notin {"waiting", "preprocessing"}
  BY <1>1 DEF JobOK
<1>3. CASE WaitUntilFinished(j)
  BY <1>1, <1>3 DEF WaitUntilFinished, Attached, Unsettled
<1>4. CASE JobFails(j)
  BY <1>4, LeftBehind DEF JobFails
<1>5. CASE Take(j) \/ PreprocessFails(j) \/ JobSucceeds(j)
  BY <1>1, <1>2, <1>5 DEF Take, PreprocessFails, JobSucceeds
<1>6. QED
  BY <1>3, <1>4, <1>5 DEF Moves

LEMMA StepLive ==
    ASSUME JobsAid, [Next]_vars, ~Puts, SameCalls, NEW p \in Pools, Passes(p)
    PROVE  LiveOK(p)'
<1>1. CASE MasterDies
  BY <1>1, DiesEmpties DEF LiveOK
<1>2. CASE ~MasterDies
  <2>1. Range(sent[p]) \subseteq Range(sent'[p]) /\ unreported \subseteq unreported'
    BY SentGrows, UnreportedGrows DEF JobsAid
  <2> SUFFICES ASSUME NEW b \in OnTheWay(p)', NEW k \in JobsOf(b)'
               PROVE  Attached(k, b)' \/ (k \in unreported' /\ b \in Range(sent[p]))
    BY <2>1 DEF LiveOK
  <2>2. b \in OnTheWay(p) /\ b \in BatchIds
    BY OnTheWayFacts DEF JobsAid, WaysOK, Passes
  <2>3. k \in JobsOf(b) /\ k \in Jobs
    BY <2>2, SameCallsFacts, BatchFacts DEF JobsAid, TypeAid, Types
  <2>4. CASE k \in unreported /\ b \in Range(sent[p])
    BY <2>1, <2>4
  <2>5. CASE Attached(k, b)
    <3>1. jobBatch[k] = b /\ Unsettled(k)
      BY <2>5 DEF Attached
    <3>2. CASE UNCHANGED jobVars
      BY <3>1, <3>2 DEF jobVars, Unsettled, Attached
    <3>3. ASSUME NEW j \in Jobs, Moves(j)
          PROVE Attached(k, b)' \/ (k \in unreported' /\ b \in Range(sent[p]))
      <4>1. CASE j = k
        BY <2>2, <2>3, <2>5, <3>3, <4>1, MovesLive
      <4>2. CASE j # k
        <5>1. job'[k] = job[k] /\ jobBatch' = jobBatch
          BY <2>3, <3>3, <4>2, MovesFacts DEF JobsAid, TypeAid
        <5>2. QED
          BY <3>1, <5>1 DEF Attached, Unsettled
      <4>3. QED
        BY <4>1, <4>2
    <3>4. CASE OnBatchWorking
      <4>1. job'[k] = "reporting" \/ job'[k] = job[k]
        BY <2>3, <3>4 DEF OnBatchWorking
      <4>2. jobBatch' = jobBatch
        BY <3>4 DEF OnBatchWorking
      <4>3. QED
        BY <3>1, <4>1, <4>2 DEF Unsettled, Attached
    <3>5. QED
      BY <1>2, <3>2, <3>3, <3>4, JobFrame
  <2>6. QED
    BY <2>2, <2>3, <2>4, <2>5 DEF JobsAid, LiveOK
<1>3. QED
  BY <1>1, <1>2

LEMMA PutsJobs ==
    ASSUME NEW j \in Jobs, NEW id, Put(j, id), Enqueue(j) \/ RetryJob(j), Types,
           UNCHANGED rest, \A k \in Jobs : JobOK(k)
    PROVE  \A k \in Jobs : JobOK(k)'
<1>1. /\ jobBatch' = [jobBatch EXCEPT ![j] = id] /\ job' = [job EXCEPT ![j] = "enqueued"]
      /\ Joined(j, id) /\ id \in Nat \ {0}
  BY DEF Put, Enqueue, RetryJob, Joined
<1>2. /\ jobBatch \in [Jobs -> BatchIds \cup {None}] /\ job \in [Jobs -> Statuses]
      /\ retries \in [Jobs -> 0..TxRetryTimes]
  BY DEF Types, TypeOK, Statuses
<1>3. retries'[j] > 0 => j \in MayRetry
  <2>1. CASE Enqueue(j)
    BY <1>2, <2>1 DEF Enqueue
  <2>2. CASE RetryJob(j)
    BY <1>2, <2>2 DEF RetryJob, mayRetry, JobOK
  <2>3. QED
    BY <2>1, <2>2
<1>4. j \in JobsOf(id)'
  BY <1>1, JoinedCalls
<1>5. JobOK(j)'
  BY <1>1, <1>2, <1>3, <1>4 DEF JobOK, None
<1>6. ASSUME NEW k \in Jobs, k # j PROVE JobOK(k)'
  <2>1. jobBatch'[k] = jobBatch[k] /\ job'[k] = job[k] /\ retries'[k] = retries[k]
    BY <1>1, <1>2, <1>6 DEF Enqueue, RetryJob
  <2>2. ASSUME jobBatch[k] # None PROVE k \in JobsOf(jobBatch[k])'
    <3>1. jobBatch[k] \in BatchIds /\ k \in JobsOf(jobBatch[k])
      BY <1>2, <2>2 DEF JobOK
    <3>2. CASE jobBatch[k] = id
      BY <1>1, <3>1, <3>2, JoinedCalls
    <3>3. CASE jobBatch[k] # id
      <4>1. batches'[jobBatch[k]] = batches[jobBatch[k]]
        BY <1>1, <3>1, <3>3 DEF Joined
      <4>2. JobsOf(jobBatch[k])' = JobsOf(jobBatch[k])
        BY <2>1, <4>1 DEF JobsOf
      <4>3. QED
        BY <3>1, <4>2
    <3>4. QED
      BY <3>2, <3>3
  <2>3. sent' = sent
    BY DEF rest
  <2>4. QED
    BY <2>1, <2>2, <2>3 DEF JobOK, wasSent
<1>7. QED
  BY <1>5, <1>6

LEMMA StepJobs ==
    ASSUME JobsAid, ToldWhenSent, [Next]_vars, ~Puts, SameCalls, NEW k \in Jobs
    PROVE  JobOK(k)'
<1>1. /\ JobOK(k) /\ job \in [Jobs -> Statuses] /\ jobBatch \in [Jobs -> BatchIds \cup {None}]
      /\ TypeAid /\ Types /\ PoolOf[k] \in Pools
  BY TradeAssumption DEF JobsAid, TypeAid, Types, TypeOK, Statuses
<1>2. ASSUME NEW b \in BatchIds PROVE JobsOf(b)' = JobsOf(b)
  BY SameCallsFacts
<1>3. Range(sent[PoolOf[k]]) \subseteq Range(sent'[PoolOf[k]])
  BY <1>1, SentGrows
<1>4. ASSUME jobBatch'[k] = jobBatch[k], retries'[k] = retries[k],
             job'[k] \in {"waiting", "preprocessing", "stalling"} => jobBatch[k] = None,
             job'[k] \in {"enqueued", "reporting", "working", "succeeded"} => jobBatch[k] # None,
             job'[k] \in {"reporting", "working"} => wasSent(k)
      PROVE  JobOK(k)'
  BY <1>1, <1>2, <1>3, <1>4 DEF JobOK, wasSent
<1>5. CASE jobBatch'[k] = jobBatch[k] /\ retries'[k] = retries[k] /\ job'[k] = job[k]
  BY <1>1, <1>4, <1>5 DEF JobOK
<1>6. CASE UNCHANGED jobVars
  BY <1>5, <1>6 DEF jobVars
<1>7. ASSUME NEW j \in Jobs, Moves(j) PROVE JobOK(k)'
  <2>1. UNCHANGED <<retries, jobBatch>> /\ \A l \in Jobs \ {j} : job'[l] = job[l]
    BY <1>1, <1>7, MovesFacts
  <2>2. CASE j = k
    <3>1. \/ job[k] = "waiting" /\ job'[k] = "preprocessing"
          \/ job[k] = "reporting" /\ job'[k] = "working"
          \/ job[k] = "working" /\ job'[k] = "succeeded"
          \/ job'[k] = "failed"
      BY <1>1, <1>7, <2>2 DEF Moves, Take, PreprocessFails, WaitUntilFinished, JobSucceeds, JobFails
    <3>2. QED
      BY <1>1, <1>4, <2>1, <3>1 DEF JobOK
  <2>3. CASE j # k
    BY <1>5, <2>1, <2>3
  <2>4. QED
    BY <2>2, <2>3
<1>8. CASE OnBatchWorking
  <2>1. PICK m : m = Head(fromTrader)
    OBVIOUS
  <2>2. /\ jobBatch' = jobBatch /\ retries' = retries
        /\ job'[k] = IF jobBatch[k] = m.id /\ job[k] = "enqueued" THEN "reporting" ELSE job[k]
    BY <1>8, <2>1 DEF OnBatchWorking
  <2>3. CASE jobBatch[k] = m.id /\ job[k] = "enqueued"
    <3>1. m \in Range(fromTrader) /\ m.id \in BatchIds /\ m.action = "MA_BATCH_WORKING"
      BY <1>1, <1>8, <2>1, HeardFacts DEF OnBatchWorking, Received, Heard
    <3>2. m.id \in Range(sent[batches[m.id].pool])
      BY <3>1 DEF ToldWhenSent
    <3>3. PoolOf[k] = batches[m.id].pool
      BY <1>1, <2>3, <3>1 DEF JobOK, TypeAid, BatchOK
    <3>4. wasSent(k)
      BY <2>3, <3>2, <3>3 DEF wasSent
    <3>5. QED
      BY <1>1, <1>4, <2>2, <2>3, <3>4 DEF JobOK
  <2>4. CASE ~(jobBatch[k] = m.id /\ job[k] = "enqueued")
    BY <1>5, <2>2, <2>4
  <2>5. QED
    BY <2>3, <2>4
<1>9. CASE MasterDies
  <2>1. /\ job'[k] = afterRestart(k)
        /\ jobBatch'[k] = IF Unsettled(k) THEN None ELSE jobBatch[k]
        /\ retries'[k] = retries[k]
    BY <1>9 DEF MasterDies
  <2>2. CASE Unsettled(k)
    BY <1>1, <2>1, <2>2 DEF JobOK, afterRestart
  <2>3. CASE ~Unsettled(k) /\ job[k] = "stalling"
    BY <1>1, <1>4, <2>1, <2>3 DEF JobOK, afterRestart
  <2>4. CASE ~Unsettled(k) /\ job[k] # "stalling"
    BY <1>5, <2>1, <2>4 DEF afterRestart
  <2>5. QED
    BY <2>2, <2>3, <2>4
<1>10. QED
  BY <1>6, <1>7, <1>8, <1>9, JobFrame
-------------------------------------------------------------------------------
(* What is being sent.                                                     *)

LEMMA AddsAtEnd ==
    ASSUME Types, AddBatchJob, NEW p \in Pools, tq[p] # <<>>
    PROVE  tq'[p] # <<>> /\ Head(tq'[p]) = Head(tq[p])
<1> DEFINE x == Head(toTrader)
           s == tq[p]
<1>1. x \in Nat
  BY IdFacts, HeadFacts DEF AddBatchJob
<1>2. s \in Seq(Nat) /\ s # <<>> /\ tq \in [Pools -> Seq(Nat)]
  BY DEF Types, Typed
<1>3. tq'[p] = s \/ tq'[p] = Append(s, x)
  <2>1. tq' = [tq EXCEPT ![batches[x].pool] = Append(@, x)]
    BY DEF AddBatchJob
  <2> DEFINE q == batches[x].pool
  <2> HIDE DEF x, q
  <2>2. tq' = [tq EXCEPT ![q] = Append(@, x)]
    BY <2>1 DEF q
  <2>3. DOMAIN tq = Pools
    BY <1>2
  <2>4. p = q \/ p # q
    OBVIOUS
  <2>5. QED
    BY <2>2, <2>3, <2>4
<1> HIDE DEF x
<1> HIDE DEF s
<1>4. Append(s, x) # <<>> /\ Head(Append(s, x)) = Head(s)
  <2>1. s \in Seq(Nat) /\ x \in Nat /\ Len(s) \in Nat /\ 1 \in 1..Len(s) /\ Head(s) = s[1]
    BY <1>1, <1>2
  <2> DEFINE t == Append(s, x)
  <2>2. t \in Seq(Nat) /\ Len(t) = Len(s) + 1
    BY <2>1
  <2>3. t[1] = s[1]
    BY <2>1
  <2> HIDE DEF t
  <2>4. t # <<>> /\ Head(t) = t[1]
    BY <2>1, <2>2
  <2>5. QED
    BY <2>1, <2>3, <2>4 DEF t
<1>5. QED
  BY <1>2, <1>3, <1>4 DEF s

\* Which transactions are being sent, and with which nonce, is in order.
Clean(p) == SendingOK(p) /\ NonceOK(p)

LEMMA StepSending ==
    ASSUME TypeAid, [Next]_vars, NEW p \in Pools, Clean(p)
    PROVE  Clean(p)'
<1>1. /\ tq \in [Pools -> Seq(Nat)] /\ sent \in [Pools -> Seq(Nat)]
      /\ nonce \in [Pools -> Nat \cup {Unread}]
      /\ sending \in [Pools -> {"no", "taken", "clash"}]
      /\ nextIndex \in [Operators -> Nat]
      /\ OperatorOf[p] \in Operators /\ Types /\ SendingOK(p) /\ NonceOK(p)
  BY TradeAssumption DEF TypeAid, Types, TypeOK, Typed, Operators, Range, Clean
<1>2. CASE UNCHANGED <<tq, nonce, sending, nextIndex, sent>>
  BY <1>1, <1>2 DEF Clean, SendingOK, NonceOK
<1>3. CASE AddBatchJob
  <2>1. UNCHANGED <<nonce, sending, nextIndex, sent>>
    BY <1>3 DEF AddBatchJob, chainVars, histVars
  <2>2. tq[p] # <<>> => tq'[p] # <<>> /\ Head(tq'[p]) = Head(tq[p])
    BY <1>1, <1>3, AddsAtEnd
  <2>3. QED
    BY <1>1, <2>1, <2>2 DEF Clean, SendingOK, NonceOK
<1>4. CASE TraderGone /\ UNCHANGED <<nextIndex, sent>>
  <2>1. sending'[p] = "no" /\ nonce'[p] = Unread
    BY <1>4 DEF TraderGone
  <2>2. QED
    BY <2>1 DEF Clean, SendingOK, NonceOK
<1>5. ASSUME NEW q \in Pools, ReadNonce(q) PROVE Clean(p)'
  <2>1. /\ UNCHANGED <<tq, sending, nextIndex, sent>>
        /\ nonce' = [nonce EXCEPT ![q] = nextIndex[OperatorOf[q]]]
    BY <1>5 DEF ReadNonce, chainVars, histVars
  <2>2. QED
    BY <1>1, <2>1 DEF Clean, SendingOK, NonceOK
<1>6. ASSUME NEW q \in Pools, Sends(q) PROVE Clean(p)'
  <2>1. UNCHANGED <<tq, nonce>> /\ sent' = [sent EXCEPT ![q] = Append(@, Head(tq[q]))]
        /\ tq[q] # <<>> /\ nonce[q] # Unread /\ sending[q] = "no"
    BY <1>6 DEF Sends
  <2>2. CASE p = q
    <3>1. Head(tq[p]) \in Range(sent'[p])
      <4> DEFINE x == Head(tq[p])
      <4>1. x \in Nat /\ sent[p] \in Seq(Nat) /\ sent'[p] = Append(sent[p], x)
        BY <1>1, <2>1, <2>2
      <4> HIDE DEF x
      <4>2. x \in Range(sent'[p])
        BY <4>1, RangeOfAppend
      <4>3. QED
        BY <4>2 DEF x
    <3>2. sending'[p] = "clash" => nonce[p] # nextIndex[OperatorOf[p]]
      BY <1>1, <1>6, <2>2 DEF Sends
    <3>3. sending'[p] # "no"
      BY <1>1, <1>6, <2>2 DEF Sends
    <3>4. QED
      BY <1>1, <2>1, <2>2, <3>1, <3>2, <3>3 DEF Clean, SendingOK, NonceOK
  <2>3. CASE p # q
    <3>1. sent'[p] = sent[p] /\ sending'[p] = sending[p]
      BY <1>1, <1>6, <2>1, <2>3 DEF Sends
    <3>2. OperatorOf[q] = OperatorOf[p] => Shared(p)
      BY <2>3 DEF Shared
    <3>3. OperatorOf[q] # OperatorOf[p] => nextIndex'[OperatorOf[p]] = nextIndex[OperatorOf[p]]
      BY <1>1, <1>6 DEF Sends
    <3>4. QED
      BY <1>1, <2>1, <3>1, <3>2, <3>3 DEF Clean, SendingOK, NonceOK
  <2>4. QED
    BY <2>2, <2>3
<1>7. ASSUME NEW q \in Pools, Settles(q) PROVE Clean(p)'
  <2>1. UNCHANGED <<nextIndex, sent>> /\ tq' = [tq EXCEPT ![q] = Tail(@)]
        /\ sending' = [sending EXCEPT ![q] = "no"] /\ nonce' = [nonce EXCEPT ![q] = Unread]
    BY <1>7 DEF Settles, Leaves
  <2>2. CASE p = q
    <3>1. sending'[p] = "no" /\ nonce'[p] = Unread
      BY <1>1, <2>1, <2>2
    <3>2. QED
      BY <3>1 DEF Clean, SendingOK, NonceOK
  <2>3. CASE p # q
    <3>1. sending'[p] = sending[p] /\ nonce'[p] = nonce[p] /\ tq'[p] = tq[p]
      BY <1>1, <2>1, <2>3
    <3>2. QED
      BY <1>1, <2>1, <3>1 DEF Clean, SendingOK, NonceOK
  <2>4. QED
    BY <2>2, <2>3
<1>8. ASSUME NEW q \in Pools, ProcessBatchThrows(q) \/ ProcessBatchFails(q) PROVE Clean(p)'
  <2>1. UNCHANGED <<nextIndex, sent, nonce, sending>> /\ tq' = [tq EXCEPT ![q] = Tail(@)]
        /\ sending[q] = "no"
    BY <1>8 DEF ProcessBatchThrows, ProcessBatchFails, AtHead, chainVars, histVars
  <2>2. p # q => tq'[p] = tq[p]
    BY <1>1, <2>1
  <2>3. QED
    BY <1>1, <2>1, <2>2 DEF Clean, SendingOK, NonceOK
<1>9. QED
  BY <1>2, <1>3, <1>4, <1>5, <1>6, <1>7, <1>8, TraderFrame DEF Attended
-------------------------------------------------------------------------------
(* What has taken effect.                                                  *)

\* The history of outcomes, as the invariant has it.
Known == floating \subseteq givenUp

\* The steps by which calls take effect, or a transaction is given up.
LEMMA ChainFrame ==
    ASSUME TypeAid, [Next]_vars
    PROVE  \/ UNCHANGED <<ran, floating, givenUp>>
           \/ \E q \in Pools : TxInBlock(q) \/ TxUnreadable(q) \/ TxTimeout(q)
           \/ \E b \in BatchIds : LateInBlock(b)
           \/ TraderExit \/ MasterDies
<1>1. CASE UNCHANGED vars
  BY <1>1 DEF vars, chainVars, histVars
<1>2. ASSUME NEW j \in Jobs, JobStep(j)
      PROVE  UNCHANGED <<ran, floating, givenUp>>
  BY <1>2 DEF JobStep, Take, PreprocessFails, Enqueue, RetryJob, WaitUntilFinished, JobSucceeds,
              JobFails, chainVars, histVars
<1>3. ASSUME NEW p \in Pools, CommitTimeout(p) \/ Dequeue(p) \/ Trader(p) \/ Faults(p)
      PROVE  UNCHANGED <<ran, floating, givenUp>> \/ TxInBlock(p) \/ TxUnreadable(p) \/ TxTimeout(p)
  BY <1>3 DEF CommitTimeout, Dequeue, Trader, ReadNonce, ProcessBatch, TxClashes, Faults,
              ProcessBatchThrows, ProcessBatchFails, TxRefused, chainVars, histVars
<1>4. CASE OnMessage \/ MasterCrash
  BY <1>4 DEF OnMessage, OnBatchAdded, OnBatchWorking, OnBatchFinished, OnBatchFailed,
       OnBatchFailedUnhandled, MasterCrash, chainVars, histVars
<1>5. CASE Manager \/ AddBatchJob
  BY <1>5 DEF Manager, SendAddBatch, OnProcessExited, TraderOnline, AddBatchJob, chainVars, histVars
<1>6. ASSUME NEW b \in 1..Len(batches), LateInBlock(b) PROVE \E c \in BatchIds : LateInBlock(c)
  BY <1>6 DEF BatchIds
<1>7. QED
  BY <1>1, <1>2, <1>3, <1>4, <1>5, <1>6 DEF Next

LEMMA StepKnown ==
    ASSUME TypeAid, Known, [Next]_vars
    PROVE  Known' /\ givenUp \subseteq givenUp'
<1>1. CASE UNCHANGED <<ran, floating, givenUp>>
  BY <1>1 DEF Known
<1>2. ASSUME NEW q \in Pools, TxInBlock(q) \/ TxUnreadable(q) \/ TxTimeout(q)
      PROVE  Known' /\ givenUp \subseteq givenUp'
  BY <1>2 DEF TxInBlock, TxUnreadable, TxTimeout, histVars, Known
<1>3. ASSUME NEW b \in BatchIds, LateInBlock(b) PROVE Known' /\ givenUp \subseteq givenUp'
  BY <1>3 DEF LateInBlock, histVars, Known
<1>4. CASE TraderExit
  BY <1>4 DEF TraderExit, TraderGone, Known
<1>5. CASE MasterDies
  <2>1. floating' = floating \cup InFlight /\ givenUp \cup InFlight \subseteq givenUp'
    BY <1>5 DEF MasterDies, TraderGone
  <2>2. QED
    BY <2>1 DEF Known
<1>6. QED
  BY <1>1, <1>2, <1>3, <1>4, <1>5, ChainFrame
-------------------------------------------------------------------------------
(* What has taken effect, and what is told of it.                          *)

\* What took effect stays so.
Grows == \A c \in CallIds : ran[c] <= ran'[c]

LEMMA RanGrows ==
    ASSUME TypeAid, [Next]_vars
    PROVE  Grows
<1>1. ran \in [CallIds -> Nat] /\ Types
  BY DEF TypeAid, Types, TypeOK
<1>2. CASE ran' = ran
  BY <1>1, <1>2 DEF Grows
<1>3. ASSUME NEW b, NEW failed, TakeEffect(b, failed) PROVE Grows
  BY <1>1, <1>3, TakesTypes DEF Takes, Grows
<1>4. ASSUME NEW q \in Pools, TxInBlock(q) \/ TxUnreadable(q) PROVE Grows
  BY <1>3, <1>4 DEF TxInBlock, TxUnreadable
<1>5. ASSUME NEW b \in BatchIds, LateInBlock(b) PROVE Grows
  BY <1>3, <1>5 DEF LateInBlock
<1>6. ASSUME NEW q \in Pools, TxTimeout(q) PROVE ran' = ran
  BY <1>6 DEF TxTimeout
<1>7. CASE TraderExit \/ MasterDies
  BY <1>2, <1>7 DEF TraderExit, MasterDies
<1>8. QED
  BY <1>2, <1>4, <1>5, <1>6, <1>7, ChainFrame

\* A message the trader sends tells no outcome, or that of the batch at the head of a
\* queue; if the batch is in a block, its calls take effect.
Tells(m) ==
    \/ /\ m.action \notin Outcomes /\ m.failedCalls = {}
       /\ m.action = "MA_BATCH_WORKING" => \E q \in Pools : Sends(q) /\ m.id = Head(tq[q])
    \/ \E q \in Pools :
        /\ tq[q] # <<>> /\ m.id = Head(tq[q])
        /\ \/ m.action = "MA_BATCH_FAILED" /\ m.failedCalls = {}
           \/ /\ m.action = "MA_BATCH_FINISHED"
              /\ TxInBlock(q) /\ Takes(m.id, m.failedCalls)
              /\ m.failedCalls \subseteq 1..Len(batches[m.id].calls)

LEMMA SaysOne ==
    ASSUME Types, NEW b \in BatchIds, NEW action \in Actions, NEW failed \in SUBSET Nat,
           Says(action, b, failed), NEW m \in Range(fromTrader'), m \notin Range(fromTrader)
    PROVE  m.action = action /\ m.id = b /\ m.failedCalls = failed
<1>1. m \in {[action |-> action, id |-> b, failedCalls |-> failed]}
  BY SaysFacts
<1>2. QED
  BY <1>1

LEMMA SettledTells ==
    ASSUME TypeAid, NEW q \in Pools, TxEnds(q),
           NEW m \in Range(fromTrader'), m \notin Range(fromTrader)
    PROVE  Tells(m)
<1>1. Types /\ SendingOK(q) /\ {"MA_BATCH_FAILED", "MA_BATCH_FINISHED"} \subseteq Actions
  BY DEF TypeAid, Actions
<1>2. tq[q] # <<>> /\ Head(tq[q]) \in BatchIds
  BY <1>1, SettledFacts, LeavesFacts DEF Settles, Leaves
<1> DEFINE b == Head(tq[q])
           n == Len(batches[b].calls)
<1>3. n \in Nat
  BY <1>1, <1>2, BatchFacts DEF Types
<1>4. CASE TxInBlock(q)
  <2>1. PICK failed \in SUBSET (1..n) :
            Says("MA_BATCH_FINISHED", b, failed) /\ Takes(b, failed)
    BY <1>4 DEF TxInBlock, Says, Takes
  <2>2. failed \in SUBSET Nat
    BY <1>3, <2>1
  <2>3. m.action = "MA_BATCH_FINISHED" /\ m.id = b /\ m.failedCalls = failed
    BY <1>1, <1>2, <2>1, <2>2, SaysOne
  <2>4. QED
    BY <1>2, <1>4, <2>1, <2>3 DEF Tells
<1>5. CASE TxUnreadable(q) \/ TxRefused(q) \/ TxClashes(q) \/ TxTimeout(q)
  <2>1. Says("MA_BATCH_FAILED", b, {})
    BY <1>5 DEF TxUnreadable, TxRefused, TxClashes, TxTimeout, ToManager, Says
  <2>2. m.action = "MA_BATCH_FAILED" /\ m.id = b /\ m.failedCalls = {}
    BY <1>1, <1>2, <2>1, SaysOne
  <2>3. QED
    BY <1>2, <2>2 DEF Tells
<1>6. QED
  BY <1>4, <1>5 DEF TxEnds

LEMMA NewMessages ==
    ASSUME TypeAid, [Next]_vars, NEW m \in Range(fromTrader'), m \notin Range(fromTrader)
    PROVE  Tells(m)
<1>1. Types /\ Actions = {"MA_BATCH_ADDED", "MA_BATCH_WORKING", "MA_BATCH_FINISHED", "MA_BATCH_FAILED"}
  BY DEF TypeAid, Actions
<1>2. ~(fromTrader' = fromTrader \/ Heard)
  BY <1>1, HeardFacts
<1>3. ASSUME NEW n \in 0..Len(fromTrader), fromTrader' = SubSeq(fromTrader, 1, n) PROVE FALSE
  <2>1. fromTrader \in Seq(Messages)
    BY <1>1 DEF Types, Typed
  <2>2. Range(SubSeq(fromTrader, 1, n)) \subseteq Range(fromTrader)
    BY <2>1, RangeOfPart
  <2>3. QED
    BY <1>3, <2>2
<1>4. ASSUME fromTrader' = <<>> PROVE FALSE
  BY <1>4, RangeOfEmpty
<1>5. ~UNCHANGED vars
  BY <1>2 DEF vars, ipcVars
<1>6. ASSUME NEW j \in Jobs, JobStep(j) PROVE FALSE
  BY <1>2, <1>6 DEF JobStep, Take, PreprocessFails, Enqueue, RetryJob, WaitUntilFinished, JobSucceeds,
      JobFails, ipcVars
<1>7. ASSUME NEW p \in Pools, CommitTimeout(p) \/ Dequeue(p) \/ ReadNonce(p) \/ ProcessBatchThrows(p)
      PROVE FALSE
  BY <1>2, <1>7 DEF CommitTimeout, Dequeue, ReadNonce, ProcessBatchThrows, ipcVars
<1>8. ASSUME NEW p \in Pools, ProcessBatch(p) PROVE Tells(m)
  <2>1. Sends(p)
    BY <1>1, <1>8, SendsFacts
  <2>2. Head(tq[p]) \in BatchIds
    BY <1>1, <2>1, IdFacts, HeadFacts DEF Sends
  <2>3. Says("MA_BATCH_WORKING", Head(tq[p]), {})
    BY <2>1 DEF Sends
  <2>4. m.action = "MA_BATCH_WORKING" /\ m.failedCalls = {} /\ m.id = Head(tq[p])
    BY <1>1, <2>2, <2>3, SaysOne
  <2>5. QED
    BY <2>1, <2>4 DEF Tells, Outcomes
<1>9. ASSUME NEW p \in Pools, ProcessBatchFails(p) PROVE Tells(m)
  <2>1. tq[p] # <<>> /\ Says("MA_BATCH_FAILED", Head(tq[p]), {})
    BY <1>9 DEF ProcessBatchFails, AtHead, ToManager, Says
  <2>2. Head(tq[p]) \in BatchIds
    BY <1>1, <2>1, IdFacts, HeadFacts
  <2>3. m.action = "MA_BATCH_FAILED" /\ m.id = Head(tq[p]) /\ m.failedCalls = {}
    BY <1>1, <2>1, <2>2, SaysOne
  <2>4. QED
    BY <2>1, <2>3 DEF Tells
<1>10. CASE AddBatchJob
  <2>1. toTrader # <<>> /\ Says("MA_BATCH_ADDED", Head(toTrader), {})
    BY <1>10 DEF AddBatchJob, ToManager, Says
  <2>2. Head(toTrader) \in BatchIds
    BY <1>1, <2>1, IdFacts, HeadFacts
  <2>3. m.action = "MA_BATCH_ADDED" /\ m.failedCalls = {}
    BY <1>1, <2>1, <2>2, SaysOne
  <2>4. QED
    BY <2>3 DEF Tells, Outcomes
<1>11. ~OnMessage
  BY <1>2, <1>4 DEF OnMessage, OnBatchAdded, OnBatchWorking, OnBatchFinished, OnBatchFailed,
      OnBatchFailedUnhandled, MasterDies, Received, Heard
<1>12. ~Manager /\ ~\E b \in 1..Len(batches) : LateInBlock(b)
  BY <1>2 DEF Manager, SendAddBatch, OnProcessExited, TraderOnline, LateInBlock, ipcVars
<1>13. ~TraderExit /\ ~MasterCrash
  BY <1>3, <1>4 DEF TraderExit, MasterCrash, MasterDies
<1>14. ASSUME NEW p \in Pools, Trader(p) \/ Faults(p) PROVE Tells(m)
  BY <1>7, <1>8, <1>9, <1>14, SettledTells DEF Trader, Faults, TxEnds
<1>15. QED
  BY <1>5, <1>6, <1>7, <1>10, <1>11, <1>12, <1>13, <1>14 DEF Next

LEMMA StepTold ==
    ASSUME WaysOK, TypeAid, [Next]_vars, ~Puts, SameCalls, ToldWhenSent
    PROVE  ToldWhenSent'
<1> SUFFICES ASSUME NEW m \in Range(fromTrader'), m.action = "MA_BATCH_WORKING"
             PROVE  m.id \in Range(sent'[batches'[m.id].pool])
  BY DEF ToldWhenSent
<1>1. Types
  BY DEF TypeAid
<1>2. CASE m \in Range(fromTrader)
  <2>1. PICK p : p = batches[m.id].pool
    OBVIOUS
  <2>2. m.id \in BatchIds /\ m.id \in Range(sent[p])
    BY <1>1, <1>2, <2>1, MessageFacts DEF ToldWhenSent
  <2>3. p \in Pools /\ batches'[m.id].pool = p
    BY <1>1, <2>1, <2>2, BatchFacts DEF SameCalls, Types
  <2>4. Range(sent[p]) \subseteq Range(sent'[p])
    BY <2>3, SentGrows
  <2>5. QED
    BY <2>2, <2>3, <2>4
<1>3. CASE m \notin Range(fromTrader)
  <2>1. PICK q \in Pools : Sends(q) /\ m.id = Head(tq[q])
    BY <1>3, NewMessages DEF Tells, Outcomes
  <2>2. tq[q] # <<>> /\ sent' = [sent EXCEPT ![q] = Append(@, Head(tq[q]))]
    BY <2>1 DEF Sends
  <2>3. m.id \in OfPool(q) /\ m.id \in BatchIds /\ m.id \in Nat
    <3>1. WayAid(q) /\ Head(tq[q]) \in OfPool(q)
      BY <2>2, HeadOfPool DEF WaysOK
    <3>2. OfPool(q) \subseteq BatchIds /\ OfPool(q) \subseteq Nat
      BY <3>1, WayFacts
    <3>3. QED
      BY <2>1, <3>1, <3>2
  <2>4. batches'[m.id].pool = q
    BY <2>3 DEF OfPool, SameCalls
  <2>5. sent[q] \in Seq(Nat) /\ sent'[q] = Append(sent[q], m.id)
    BY <1>1, <2>1, <2>2, IdFacts DEF Types, Typed
  <2>6. Range(Append(sent[q], m.id)) = Range(sent[q]) \cup {m.id}
    BY <2>3, <2>5, RangeOfAppend
  <2>7. QED
    BY <2>4, <2>5, <2>6
<1>4. QED
  BY <1>2, <1>3

LEMMA EffectStays ==
    ASSUME Types, Grows, Types', NEW b \in BatchIds, BatchOK(b), NEW failed, Effective(b, failed),
           batches'[b].calls = batches[b].calls
    PROVE  Effective(b, failed)'
<1> SUFFICES ASSUME NEW i \in 1..Len(batches[b].calls), i \notin failed PROVE ran'[callId(b, i)'] > 0
  BY DEF Effective
<1>1. callId(b, i)' = callId(b, i)
  BY DEF callId
<1>2. callId(b, i) \in CallIds
  BY CallIdsOf DEF Types
<1>3. ran[callId(b, i)] > 0
  BY DEF Effective
<1>4. ran \in [CallIds -> Nat] /\ ran' \in [CallIds -> Nat]
  BY DEF Types, TypeOK
<1> DEFINE c == callId(b, i)
<1> HIDE DEF c
<1>5. c \in CallIds /\ ran[c] > 0 /\ ran[c] <= ran'[c]
  BY <1>2, <1>3 DEF c, Grows
<1>6. ran'[c] > 0
  BY <1>4, <1>5
<1>7. QED
  BY <1>1, <1>6 DEF c

LEMMA TakenIsEffective ==
    ASSUME Types, NEW b \in BatchIds, BatchOK(b), NEW failed, Takes(b, failed),
           batches'[b].calls = batches[b].calls
    PROVE  Effective(b, failed)'
<1> SUFFICES ASSUME NEW i \in 1..Len(batches[b].calls), i \notin failed PROVE ran'[callId(b, i)'] > 0
  BY DEF Effective
<1>1. callId(b, i)' = callId(b, i)
  BY DEF callId
<1>2. callId(b, i) \in CallIds
  BY CallIdsOf DEF Types
<1>3. ran \in [CallIds -> Nat]
  BY DEF Types, TypeOK
<1>4. ran'[callId(b, i)] = ran[callId(b, i)] + 1
  BY <1>2, TakesTypes
<1> DEFINE c == callId(b, i)
<1> HIDE DEF c
<1>5. c \in CallIds /\ ran'[c] = ran[c] + 1
  BY <1>2, <1>4 DEF c
<1>6. ran'[c] > 0
  BY <1>3, <1>5
<1>7. QED
  BY <1>1, <1>6 DEF c

\* An outcome that is told, in a message or of a batch, is what happened.
MessageTrue(m) ==
    /\ m.failedCalls \subseteq 1..Len(batches[m.id].calls)
    /\ m.action = "MA_BATCH_FINISHED" => Effective(m.id, m.failedCalls)

LEMMA MessageStays ==
    ASSUME Types, Types', Grows, NEW m \in Range(fromTrader), MessageTrue(m), BatchOK(m.id),
           batches'[m.id].calls = batches[m.id].calls
    PROVE  MessageTrue(m)'
<1>1. m.id \in BatchIds
  BY MessageFacts
<1>2. m.action = "MA_BATCH_FINISHED" => Effective(m.id, m.failedCalls)'
  BY <1>1, EffectStays DEF MessageTrue
<1>3. QED
  BY <1>2 DEF MessageTrue

LEMMA TellsTrue ==
    ASSUME Types, NEW m, Tells(m), m.id \in BatchIds, BatchOK(m.id),
           batches'[m.id].calls = batches[m.id].calls
    PROVE  MessageTrue(m)'
<1>1. CASE m.action \notin Outcomes /\ m.failedCalls = {}
  BY <1>1 DEF Outcomes, MessageTrue
<1>2. CASE m.action = "MA_BATCH_FAILED" /\ m.failedCalls = {}
  BY <1>2 DEF MessageTrue
<1>3. CASE /\ m.action = "MA_BATCH_FINISHED"
           /\ Takes(m.id, m.failedCalls)
           /\ m.failedCalls \subseteq 1..Len(batches[m.id].calls)
  BY <1>3, TakenIsEffective DEF MessageTrue
<1>4. QED
  BY <1>1, <1>2, <1>3 DEF Tells

LEMMA StepEffect ==
    ASSUME TypeAid, Types', [Next]_vars, ~Puts
    PROVE  EffectOK'
<1>1. /\ Types /\ Grows /\ SameCalls /\ EffectOK /\ \A b \in BatchIds : BatchOK(b)
  BY RanGrows, CallsStay DEF TypeAid
<1>2. ASSUME NEW m \in Range(fromTrader') PROVE MessageTrue(m)'
  <2>1. m.id \in BatchIds
    BY <1>1, <1>2 DEF SameCalls, Types, TypeOK
  <2>2. batches'[m.id].calls = batches[m.id].calls /\ BatchOK(m.id)
    BY <1>1, <2>1 DEF SameCalls
  <2>3. CASE m \in Range(fromTrader)
    <3>1. MessageTrue(m)
      BY <1>1, <2>3 DEF EffectOK, MessageTrue
    <3>2. QED
      BY <1>1, <2>2, <2>3, <3>1, MessageStays
  <2>4. CASE m \notin Range(fromTrader)
    <3>1. Tells(m)
      BY <1>2, <2>4, NewMessages
    <3>2. QED
      BY <1>1, <2>1, <2>2, <3>1, TellsTrue
  <2>5. QED
    BY <2>3, <2>4
<1>3. ASSUME NEW b \in BatchIds, batches'[b] = batches[b], batches[b].finished = "resolved"
      PROVE  Effective(b, batches[b].failed)'
  <2>1. PICK f : f = batches[b].failed
    OBVIOUS
  <2>2. Effective(b, f)
    BY <1>1, <1>3, <2>1 DEF EffectOK
  <2>3. Effective(b, f)'
    BY <1>1, <1>3, <2>2, EffectStays
  <2>4. QED
    BY <1>3, <2>1, <2>3 DEF Effective
<1>4. ASSUME NEW b \in BatchIds', batches'[b].finished = "resolved"
      PROVE  Effective(b, batches[b].failed)'
  <2>1. b \in BatchIds /\ batches'[b].calls = batches[b].calls
    BY <1>1, <1>4 DEF SameCalls
  <2>2. CASE UNCHANGED batches
    BY <1>3, <1>4, <2>1, <2>2
  <2>3. CASE OnBatchFinished
    <3>1. PICK h : h = Head(fromTrader)
      OBVIOUS
    <3>2. /\ h \in Range(fromTrader) /\ h.action = "MA_BATCH_FINISHED" /\ h.id \in BatchIds
          /\ Outcome(h.id, "resolved", h.failedCalls)
      <4>1. Heard /\ h.action = "MA_BATCH_FINISHED"
        BY <2>3, <3>1 DEF OnBatchFinished, Received, Heard
      <4>2. QED
        BY <1>1, <2>3, <3>1, <4>1, HeardFacts, FinishedOutcome
    <3>3. CASE b = h.id
      <4>1. Effective(b, h.failedCalls) /\ batches'[b].failed = h.failedCalls
        BY <1>1, <3>2, <3>3 DEF EffectOK, Outcome
      <4>2. PICK f : f = h.failedCalls
        OBVIOUS
      <4>3. Effective(b, f)'
        BY <1>1, <2>1, <4>1, <4>2, EffectStays
      <4>4. QED
        BY <4>1, <4>2, <4>3 DEF Effective
    <3>4. CASE b # h.id
      BY <1>3, <1>4, <2>1, <3>2, <3>4 DEF Outcome
    <3>5. QED
      BY <3>3, <3>4
  <2>4. CASE OnBatchFailed
    <3>1. b # Head(fromTrader).id /\ batches'[b] = batches[b]
      BY <1>1, <1>4, <2>1, <2>4, FailedOutcome DEF Outcome
    <3>2. QED
      BY <1>3, <1>4, <2>1, <3>1
  <2>5. QED
    BY <2>2, <2>3, <2>4, BatchFrame
<1>5. QED
  BY <1>2, <1>4 DEF EffectOK, MessageTrue

\* A batch that gets more calls has no outcome, and none is on its way.
LEMMA PutsIsOpen ==
    ASSUME NEW j \in Jobs, NEW id, Put(j, id), WayAid(PoolOf[j])
    PROVE  /\ id \in BatchIds => ~Told(id) /\ id \in OnTheWay(PoolOf[j])
           /\ batches'[id].finished = "pending"
           /\ \A m \in Range(fromTrader) : m.id = id => m.action \notin Outcomes
<1> DEFINE p == PoolOf[j]
<1>1. p \in Pools /\ Types /\ Joined(j, id)
  BY TradeAssumption DEF WayAid, Put
<1>2. CASE id \in BatchIds
  <2>1. id = current[p] /\ id # None
    BY <1>1, <1>2, IdFacts DEF Put, Kept, Begun, Replaced
  <2>2. id \in OnTheWay(p)
    BY <2>1, OnTheWayIs DEF Open
  <2>3. id \in OfPool(p) /\ id \notin Done(p) /\ batches[id].finished = "pending"
    BY <1>1, <2>2, OnTheWayFacts
  <2>4. ~Told(id)
    BY <2>3 DEF Done
  <2>5. batches'[id].finished = "pending"
    BY <1>1, <1>2, <2>3 DEF Joined
  <2>6. QED
    BY <2>2, <2>4, <2>5 DEF Told
<1>3. CASE id \notin BatchIds
  <2>1. batches'[id].finished = "pending"
    BY <1>1, <1>3 DEF Joined
  <2>2. QED
    BY <1>1, <1>3, <2>1, MessageFacts
<1>4. QED
  BY <1>2, <1>3

LEMMA PutsTold ==
    ASSUME NEW j \in Jobs, NEW id, Put(j, id), WayAid(PoolOf[j]), UNCHANGED rest, ToldWhenSent
    PROVE  ToldWhenSent'
<1>1. Types /\ Joined(j, id) /\ fromTrader' = fromTrader /\ sent' = sent /\ PoolOf[j] \in Pools
  BY TradeAssumption DEF WayAid, Put, rest, ipcVars
<1>2. ASSUME NEW b \in BatchIds PROVE batches'[b].pool = batches[b].pool
  <2>1. CASE b = id
    <3>1. id \in OfPool(PoolOf[j])
      BY <1>1, <1>2, <2>1, PutsIsOpen, OnTheWayFacts
    <3>2. QED
      BY <1>1, <2>1, <3>1 DEF OfPool, Joined
  <2>2. CASE b # id
    BY <1>1, <1>2, <2>2 DEF Joined
  <2>3. QED
    BY <2>1, <2>2
<1>3. QED
  BY <1>1, <1>2, MessageFacts DEF ToldWhenSent

LEMMA PutsEffect ==
    ASSUME TypeAid, Types', [Next]_vars, NEW j \in Jobs, NEW id, Put(j, id), WayAid(PoolOf[j]),
           UNCHANGED rest
    PROVE  EffectOK'
<1>1. /\ Types /\ Grows /\ EffectOK /\ \A b \in BatchIds : BatchOK(b)
      /\ Joined(j, id) /\ fromTrader' = fromTrader
  BY RanGrows DEF TypeAid, Put, rest, ipcVars
<1>2. \A m \in Range(fromTrader) : m.id = id => m.action \notin Outcomes
  BY PutsIsOpen
<1>3. batches'[id].finished = "pending"
  BY PutsIsOpen
<1>4. ASSUME NEW m \in Range(fromTrader') PROVE MessageTrue(m)'
  <2>1. m \in Range(fromTrader) /\ m.id \in BatchIds /\ BatchOK(m.id) /\ MessageTrue(m)
    BY <1>1, MessageFacts DEF EffectOK, MessageTrue
  <2>2. CASE m.id = id
    <3>1. m.action # "MA_BATCH_FINISHED"
      BY <1>2, <2>1, <2>2 DEF Outcomes
    <3>2. /\ Len(batches[m.id].calls) \in Nat /\ Len(batches'[m.id].calls) \in Nat
          /\ Len(batches[m.id].calls) <= Len(batches'[m.id].calls)
      BY <1>1, <2>1, <2>2, JoinedLengths, BatchFacts DEF Types
    <3>3. 1..Len(batches[m.id].calls) \subseteq 1..Len(batches'[m.id].calls)
      BY <3>2
    <3>4. QED
      BY <2>1, <3>1, <3>3 DEF MessageTrue
  <2>3. CASE m.id # id
    <3>1. batches'[m.id].calls = batches[m.id].calls
      BY <1>1, <2>1, <2>3 DEF Joined
    <3>2. QED
      BY <1>1, <2>1, <3>1, MessageStays
  <2>4. QED
    BY <2>2, <2>3
<1>5. ASSUME NEW b \in BatchIds', batches'[b].finished = "resolved"
      PROVE  Effective(b, batches[b].failed)'
  <2>1. b # id /\ b \in BatchIds /\ batches'[b] = batches[b]
    BY <1>1, <1>3, <1>5 DEF Joined
  <2>2. PICK f : f = batches[b].failed
    OBVIOUS
  <2>3. Effective(b, f)
    BY <1>1, <1>5, <2>1, <2>2 DEF EffectOK
  <2>4. Effective(b, f)'
    BY <1>1, <2>1, <2>3, EffectStays
  <2>5. QED
    BY <2>1, <2>2, <2>4 DEF Effective
<1>6. QED
  BY <1>4, <1>5 DEF EffectOK, MessageTrue
-------------------------------------------------------------------------------
(* No call takes effect twice.                                             *)

\* The jobs of a batch stay in it, so what is doubtful stays doubtful.
LEMMA DoubtStays ==
    ASSUME Types, givenUp \subseteq givenUp', unreported \subseteq unreported', NEW j, Doubtful(j),
           \/ SameCalls
           \/ \E k \in Jobs : \E id : Joined(k, id)
    PROVE  Doubtful(j)'
<1> SUFFICES ASSUME j \notin unreported PROVE Doubtful(j)'
  BY DEF Doubtful
<1>1. PICK b \in givenUp : j \in JobsOf(b)
  BY DEF Doubtful
<1>2. b \in BatchIds
  BY DEF Types, TypeOK
<1>3. CASE SameCalls
  BY <1>1, <1>2, <1>3, SameCallsFacts DEF Doubtful
<1>4. ASSUME NEW k \in Jobs, NEW id, Joined(k, id) PROVE j \in JobsOf(b)'
  <2>1. CASE b = id
    BY <1>1, <1>2, <1>4, <2>1, JoinedCalls
  <2>2. CASE b # id
    BY <1>1, <1>2, <1>4, <2>2 DEF Joined, JobsOf
  <2>3. QED
    BY <2>1, <2>2
<1>5. QED
  BY <1>1, <1>3, <1>4 DEF Doubtful

\* The batch a call took effect in.
LandedIn(c, b, i) ==
    /\ ran[c] = 1
    /\ b = jobBatch[c[1]] /\ b \in BatchIds
    /\ b \in Range(sent[PoolOf[c[1]]]) /\ b \in Done(PoolOf[c[1]])
    /\ i \in 1..Len(batches[b].calls) /\ callId(b, i) = c /\ batches[b].calls[i] = c[1]
    /\ Spared(b, i)

LEMMA LandedFacts ==
    ASSUME TypeAid, NEW c \in CallIds
    PROVE  Landed(c) <=> \E b : \E i : LandedIn(c, b, i)
<1>1. c[1] \in Jobs /\ Types /\ \A b \in BatchIds : BatchOK(b)
  BY CallIdFacts DEF TypeAid
<1>2. jobBatch[c[1]] \in BatchIds \cup {None} /\ None \notin BatchIds
  BY <1>1, IdFacts DEF Types, TypeOK
<1>3. ASSUME Landed(c) PROVE \E b : \E i : LandedIn(c, b, i)
  <2>1. PICK b : b = jobBatch[c[1]]
    OBVIOUS
  <2>2. PICK i \in 1..Len(batches[b].calls) : callId(b, i) = c /\ Spared(b, i)
    BY <1>3, <2>1 DEF Landed
  <2>3. b \in BatchIds
    BY <1>2, <1>3, <2>1 DEF Landed
  <2>4. batches[b].calls[i] = c[1]
    BY <1>1, <2>2, <2>3, CallIdsOf DEF Types
  <2>5. LandedIn(c, b, i)
    BY <1>3, <2>1, <2>2, <2>3, <2>4 DEF Landed, LandedIn
  <2>6. QED
    BY <2>5
<1>4. ASSUME NEW b, NEW i, LandedIn(c, b, i) PROVE Landed(c)
  BY <1>2, <1>4 DEF Landed, LandedIn
<1>5. QED
  BY <1>3, <1>4

LEMMA LandedNext ==
    ASSUME NEW c, NEW b, NEW i, LandedIn(c, b, i)', None \notin BatchIds'
    PROVE  Landed(c)'
  BY DEF Landed, LandedIn

\* A batch that is done is not sent, and no outcome of it is told any more.
LEMMA DoneIsQuiet ==
    ASSUME WaysOK, TypeAid, [Next]_vars, NEW p \in Pools, NEW b \in Done(p),
           NEW m \in Range(fromTrader'), m.id = b, m.action \in Outcomes
    PROVE  m \in Range(fromTrader)
<1> SUFFICES ASSUME m \notin Range(fromTrader) PROVE FALSE
  OBVIOUS
<1>1. Tells(m)
  BY NewMessages
<1>2. PICK q \in Pools : tq[q] # <<>> /\ b = Head(tq[q])
  BY <1>1 DEF Tells
<1>3. b \in OfPool(q) /\ b \in Range(tq[q])
  BY <1>2, HeadOfPool DEF WaysOK
<1>4. b \notin Range(tq[p]) /\ b \in OfPool(p)
  BY NotBusy DEF WaysOK
<1>5. QED
  BY <1>3, <1>4 DEF OfPool

LEMMA SparedStays ==
    ASSUME WaysOK, TypeAid, [Next]_vars, ~Puts, NEW p \in Pools, NEW b \in Done(p), NEW i,
           b \in BatchIds, Spared(b, i)
    PROVE  Spared(b, i)'
<1>1. ASSUME NEW m \in Range(fromTrader'), m.id = b
      PROVE  m.action # "MA_BATCH_FAILED" /\ (m.action = "MA_BATCH_FINISHED" => i \notin m.failedCalls)
  <2>1. CASE m.action \in Outcomes
    BY <1>1, <2>1, DoneIsQuiet DEF Spared
  <2>2. CASE m.action \notin Outcomes
    BY <2>2 DEF Outcomes
  <2>3. QED
    BY <2>1, <2>2
<1>2. /\ batches'[b].finished # "rejected"
      /\ batches'[b].finished = "resolved" => i \notin batches'[b].failed
  <2>1. CASE batches'[b] = batches[b]
    BY <2>1 DEF Spared
  <2>2. CASE OnBatchFinished
    <3>1. PICK h : h = Head(fromTrader)
      OBVIOUS
    <3>2. h \in Range(fromTrader) /\ h.action = "MA_BATCH_FINISHED"
          /\ Outcome(h.id, "resolved", h.failedCalls)
      <4>1. Heard /\ h.action = "MA_BATCH_FINISHED" /\ Types
        BY <2>2, <3>1 DEF OnBatchFinished, Received, Heard, TypeAid
      <4>2. QED
        BY <2>2, <3>1, <4>1, HeardFacts, FinishedOutcome
    <3>3. h.id = b => i \notin h.failedCalls
      BY <3>2 DEF Spared
    <3>4. QED
      BY <2>1, <3>2, <3>3 DEF Outcome
  <2>3. CASE OnBatchFailed
    <3>1. PICK h : h = Head(fromTrader)
      OBVIOUS
    <3>2. h \in Range(fromTrader) /\ h.action = "MA_BATCH_FAILED"
          /\ Outcome(h.id, "rejected", batches[h.id].failed)
      <4>1. Heard /\ h.action = "MA_BATCH_FAILED" /\ Types
        BY <2>3, <3>1 DEF OnBatchFailed, Received, Heard, TypeAid
      <4>2. QED
        BY <2>3, <3>1, <4>1, HeardFacts, FailedOutcome
    <3>3. h.id # b
      BY <3>2 DEF Spared
    <3>4. QED
      BY <2>1, <3>2, <3>3 DEF Outcome
  <2>4. QED
    BY <2>1, <2>2, <2>3, BatchFrame DEF TypeAid
<1>3. QED
  BY <1>1, <1>2 DEF Spared

\* A job keeps its batch, or it becomes doubtful.
LEMMA BatchStays ==
    ASSUME TypeAid, [Next]_vars, ~Puts, SameCalls, NEW j \in Jobs, JobOK(j), wasSent(j),
           jobBatch[j] # None, ~Doubtful(j)'
    PROVE  jobBatch'[j] = jobBatch[j]
<1>1. jobBatch[j] \in BatchIds /\ j \in JobsOf(jobBatch[j])
  BY DEF TypeAid, Types, TypeOK, JobOK
<1>2. CASE MasterDies
  <2>1. jobBatch'[j] = IF Unsettled(j) THEN None ELSE jobBatch[j]
    BY <1>2 DEF MasterDies
  <2>2. ASSUME Unsettled(j) PROVE FALSE
    <3>1. PICK b : b = jobBatch[j]
      OBVIOUS
    <3>2. b \in givenUp'
      BY <1>2, <2>2, <3>1 DEF MasterDies
    <3>3. JobsOf(b)' = JobsOf(b)
      BY <1>1, <3>1, SameCallsFacts
    <3>4. QED
      BY <1>1, <3>1, <3>2, <3>3 DEF Doubtful
  <2>3. QED
    BY <2>1, <2>2
<1>3. CASE ~MasterDies
  <2>1. ASSUME NEW k \in Jobs, Moves(k) PROVE jobBatch' = jobBatch
    BY <2>1, MovesFacts DEF TypeAid
  <2>2. QED
    BY <1>3, <2>1, JobFrame DEF jobVars, OnBatchWorking
<1>4. QED
  BY <1>2, <1>3

LEMMA LandedStays ==
    ASSUME WaysOK, TypeAid, Types', [Next]_vars, ~Puts, SameCalls, NEW c \in CallIds, JobOK(c[1]),
           Passes(PoolOf[c[1]]), Landed(c), ran'[c] = ran[c], ~Doubtful(c[1])'
    PROVE  Landed(c)'
<1> DEFINE j == c[1]
           p == PoolOf[j]
<1>1. j \in Jobs /\ p \in Pools
  BY CallIdFacts, TradeAssumption
<1>2. PICK b, i : LandedIn(c, b, i)
  BY LandedFacts
<1>3. /\ b = jobBatch[j] /\ b \in BatchIds /\ b # None /\ b \in Range(sent[p]) /\ b \in Done(p)
      /\ ran[c] = 1 /\ i \in 1..Len(batches[b].calls) /\ callId(b, i) = c
      /\ batches[b].calls[i] = c[1] /\ Spared(b, i)
  BY <1>2, IdFacts DEF LandedIn, TypeAid
<1>4. wasSent(j)
  BY <1>3 DEF wasSent
<1>5. jobBatch'[j] = b
  BY <1>1, <1>3, <1>4, BatchStays
<1>6. b \in Done(p)' /\ b \in Range(sent'[p])
  BY <1>1, <1>3, SentGrows DEF Passes
<1>7. Spared(b, i)'
  BY <1>1, <1>3, SparedStays
<1>8. b \in BatchIds' /\ callId(b, i)' = c /\ batches'[b].calls = batches[b].calls
  BY <1>3, SameCallsFacts DEF SameCalls
<1>9. LandedIn(c, b, i)'
  BY <1>3, <1>5, <1>6, <1>7, <1>8 DEF LandedIn
<1>10. None \notin BatchIds'
  <2>1. Len(batches') \in Nat
    BY DEF Types, Typed
  <2>2. QED
    BY <2>1 DEF BatchIds, None
<1>11. QED
  BY <1>9, <1>10, LandedNext

\* A job of one call that took effect is not one that failed.
LEMMA LandedIsNotFailed ==
    ASSUME TypeAid, NEW c \in CallIds, Landed(c), Calls[c[1]] = 1,
           batches[jobBatch[c[1]]].finished # "pending"
    PROVE  ~jobFailed(c[1])
<1> DEFINE j == c[1]
<1> SUFFICES ASSUME jobFailed(j) PROVE FALSE
  OBVIOUS
<1>1. j \in Jobs /\ Types
  BY CallIdFacts DEF TypeAid
<1>2. PICK b, i : LandedIn(c, b, i)
  BY LandedFacts
<1>3. /\ b = jobBatch[j] /\ b \in BatchIds /\ BatchOK(b)
      /\ i \in 1..Len(batches[b].calls) /\ batches[b].calls[i] = j /\ Spared(b, i)
  BY <1>2 DEF LandedIn, TypeAid
<1>4. batches[b].finished = "resolved" /\ i \notin batches[b].failed
  BY <1>1, <1>3 DEF Spared, Types, TypeOK
<1>5. PICK k \in batches[b].failed : batches[b].callToJobId[k] = j
  BY <1>3, <1>4 DEF jobFailed
<1>6. k \in 1..Len(batches[b].calls) /\ batches[b].calls[k] = j
  BY <1>1, <1>3, <1>5 DEF Types, TypeOK, BatchOK
<1>7. j \in JobsOf(b)
  BY <1>1, <1>3, BatchFacts DEF Types
<1>8. i = k
  BY <1>1, <1>3, <1>6, <1>7, SingleCall DEF Types
<1>9. QED
  BY <1>4, <1>5, <1>8

\* So it is not put into another batch, nor is a job that waits.
LEMMA LandedIsNotPut ==
    ASSUME TypeAid, NEW c \in CallIds, JobOK(c[1]), Landed(c), ~Doubtful(c[1])'
    PROVE  ~Enqueue(c[1]) /\ ~RetryJob(c[1])
<1>1. c[1] \in Jobs /\ jobBatch[c[1]] # None /\ c[1] \notin unreported'
  BY CallIdFacts DEF Landed, Doubtful
<1>2. ~Enqueue(c[1])
  BY <1>1 DEF Enqueue, JobOK
<1>3. ASSUME RetryJob(c[1]) PROVE FALSE
  <2>1. jobFailed(c[1]) /\ batches[jobBatch[c[1]]].finished # "pending"
    BY <1>1, <1>3, RejectsFacts DEF RetryJob, TypeAid
  <2>2. Calls[c[1]] = 1
    BY <1>1, <1>3, TradeAssumption DEF RetryJob, mayRetry, JobOK
  <2>3. QED
    BY <2>1, <2>2, LandedIsNotFailed
<1>4. QED
  BY <1>2, <1>3

LEMMA LandedStaysOnPut ==
    ASSUME WaysOK, TypeAid, Types', NEW k \in Jobs, NEW id, Put(k, id), UNCHANGED rest,
           NEW c \in CallIds, JobOK(c[1]), Enters(PoolOf[c[1]], id), Landed(c), k # c[1]
    PROVE  Landed(c)'
<1> DEFINE j == c[1]
           p == PoolOf[j]
<1>1. j \in Jobs /\ p \in Pools /\ PoolOf[k] \in Pools /\ Joined(k, id) /\ Types
  BY CallIdFacts, TradeAssumption DEF Put, TypeAid
<1>2. PICK b, i : LandedIn(c, b, i)
  BY LandedFacts
<1>3. /\ b = jobBatch[j] /\ b \in BatchIds /\ b \in Range(sent[p]) /\ b \in Done(p)
      /\ ran[c] = 1 /\ i \in 1..Len(batches[b].calls) /\ callId(b, i) = c
      /\ batches[b].calls[i] = c[1] /\ Spared(b, i)
  BY <1>2 DEF LandedIn
<1>4. sent' = sent /\ ran' = ran /\ fromTrader' = fromTrader
      /\ jobBatch' = [jobBatch EXCEPT ![k] = id]
  BY DEF rest, chainVars, histVars, ipcVars, Put
<1>5. b # id
  <2>1. ASSUME b = id PROVE FALSE
    <3>1. id \in OnTheWay(PoolOf[k])
      BY <1>1, <1>3, <2>1, PutsIsOpen DEF WaysOK
    <3>2. id \in OfPool(PoolOf[k]) /\ id \notin Done(PoolOf[k])
      BY <1>1, <3>1, OnTheWayFacts DEF WaysOK
    <3>3. b \in OfPool(p)
      BY <1>1, <1>3, NotBusy DEF WaysOK
    <3>4. QED
      BY <1>3, <2>1, <3>2, <3>3 DEF OfPool
  <2>2. QED
    BY <2>1
<1>6. batches'[b] = batches[b] /\ b \in BatchIds'
  BY <1>1, <1>3, <1>5 DEF Joined
<1>7. jobBatch'[j] = b
  BY <1>1, <1>3, <1>4 DEF Types, TypeOK
<1>8. b \in Done(p)'
  BY <1>3 DEF Enters
<1>9. Spared(b, i)' /\ callId(b, i)' = c
  BY <1>3, <1>4, <1>6 DEF Spared, callId
<1>10. LandedIn(c, b, i)'
  BY <1>3, <1>4, <1>6, <1>7, <1>8, <1>9 DEF LandedIn
<1>11. None \notin BatchIds'
  <2>1. Len(batches') \in Nat
    BY DEF Types, Typed
  <2>2. QED
    BY <2>1 DEF BatchIds, None
<1>12. QED
  BY <1>10, <1>11, LandedNext

\* A call takes effect.
LEMMA Lands ==
    ASSUME WaysOK, TypeAid, Types', [Next]_vars, \A p \in Pools : LiveOK(p), SameCalls,
           NEW q \in Pools, TxInBlock(q), NEW c \in CallIds, ran'[c] # ran[c], RanOK(c),
           ~Doubtful(c[1])
    PROVE  Landed(c)'
<1>0. PICK b : b = Head(tq[q])
  OBVIOUS
<1> DEFINE n == Len(batches[b].calls)
<1>1. Types /\ SendingOK(q) /\ WayAid(q) /\ LiveOK(q)
  BY DEF TypeAid, WaysOK
<1>2. /\ tq[q] # <<>> /\ sending[q] # "no" /\ UNCHANGED <<jobVars, busVars, sent>>
      /\ b \in BatchIds /\ b \in OfPool(q) /\ b \in Range(tq[q])
  BY <1>0, <1>1, SettledFacts, HeadOfPool DEF Settles, OfPool, TxEnds
<1>3. PICK failed \in SUBSET (1..n) : Says("MA_BATCH_FINISHED", b, failed) /\ Takes(b, failed)
  BY <1>0 DEF TxInBlock, Says, Takes
<1>4. PICK i \in 1..n : i \notin failed /\ c = callId(b, i) /\ ran'[c] = ran[c] + 1
  BY <1>1, <1>3, TakesTypes
<1>5. BatchOK(b) /\ batches[b].calls[i] = c[1] /\ c[1] \in JobsOf(b) /\ n \in Nat
  BY <1>1, <1>2, <1>4, CallIdsOf, BatchFacts DEF TypeAid, Types
<1>6. b \in OnTheWay(q) /\ b \notin Done(q) /\ batches[b].finished = "pending"
  BY <1>1, <1>2, OnTheWayIs, OnTheWayFacts
<1>7. jobBatch[c[1]] = b /\ PoolOf[c[1]] = q
  <2>1. c[1] \notin unreported
    BY DEF Doubtful
  <2>2. QED
    BY <1>1, <1>2, <1>5, <1>6, <2>1 DEF LiveOK, Attached, BatchOK, OfPool
<1>8. ran[c] = 0
  <2>1. ~Landed(c)
    BY <1>6, <1>7 DEF Landed
  <2>2. ran[c] \in Nat
    BY <1>1 DEF Types, TypeOK
  <2>3. QED
    BY <2>1, <2>2 DEF RanOK
<1>9. b \in Range(sent'[q])
  BY <1>0, <1>1, <1>2 DEF SendingOK
<1>10. /\ Range(fromTrader') = Range(fromTrader) \cup
            {[action |-> "MA_BATCH_FINISHED", id |-> b, failedCalls |-> failed]}
  <2>1. failed \in SUBSET Nat /\ "MA_BATCH_FINISHED" \in Actions
    BY <1>3, <1>5 DEF Actions
  <2>2. QED
    BY <1>1, <1>2, <1>3, <2>1, SaysFacts
<1>11. b \in Done(q)'
  <2>1. b \in OfPool(q)'
    BY <1>2, <1>5 DEF OfPool, busVars, BatchIds
  <2>2. Told(b)'
    <3>1. PICK m : m = [action |-> "MA_BATCH_FINISHED", id |-> b, failedCalls |-> failed]
      OBVIOUS
    <3>2. m \in Range(fromTrader') /\ m.id = b /\ m.action \in Outcomes
      BY <1>10, <3>1 DEF Outcomes
    <3>3. QED
      BY <3>2 DEF Told
  <2>3. QED
    BY <2>1, <2>2 DEF Done
<1>12. Spared(b, i)'
  <2>1. ~Told(b)
    BY <1>2, <1>6 DEF Done
  <2>2. batches' = batches
    BY <1>2 DEF busVars
  <2>3. ASSUME NEW m \in Range(fromTrader'), m.id = b
        PROVE  m.action # "MA_BATCH_FAILED" /\ (m.action = "MA_BATCH_FINISHED" => i \notin m.failedCalls)
    <3>1. CASE m \in Range(fromTrader)
      BY <2>1, <2>3, <3>1 DEF Told, Outcomes
    <3>2. CASE m = [action |-> "MA_BATCH_FINISHED", id |-> b, failedCalls |-> failed]
      BY <1>4, <3>2
    <3>3. QED
      BY <1>10, <2>3, <3>1, <3>2
  <2>4. QED
    BY <1>6, <2>2, <2>3 DEF Spared
<1>13. b \in BatchIds' /\ callId(b, i)' = c /\ batches'[b].calls = batches[b].calls
       /\ jobBatch'[c[1]] = b
  BY <1>2, <1>4, <1>7, SameCallsFacts DEF SameCalls, jobVars
<1>14. LandedIn(c, b, i)'
  BY <1>4, <1>5, <1>7, <1>8, <1>9, <1>11, <1>12, <1>13 DEF LandedIn
<1>15. None \notin BatchIds'
  <2>1. Len(batches') \in Nat
    BY DEF Types, Typed
  <2>2. QED
    BY <2>1 DEF BatchIds, None
<1>16. QED
  BY <1>14, <1>15, LandedNext

\* The calls that take effect are those of a batch at the head of its queue.
LEMMA TakenIsLive ==
    ASSUME WaysOK, TypeAid, \A p \in Pools : LiveOK(p), NEW q \in Pools, TxInBlock(q),
           NEW c \in CallIds, ran'[c] # ran[c], ~Doubtful(c[1])
    PROVE  Unsettled(c[1])
<1>0. PICK b : b = Head(tq[q])
  OBVIOUS
<1>1. Types /\ SendingOK(q) /\ WayAid(q) /\ LiveOK(q)
  BY DEF TypeAid, WaysOK
<1>2. b \in BatchIds /\ b \in OfPool(q) /\ b \in Range(tq[q])
  BY <1>0, <1>1, SettledFacts, HeadOfPool DEF Settles, OfPool, TxEnds
<1>3. PICK failed : Takes(b, failed)
  BY <1>0 DEF TxInBlock, Takes
<1>4. PICK i \in 1..Len(batches[b].calls) : c = callId(b, i)
  BY <1>1, <1>3, TakesTypes
<1>5. c[1] \in JobsOf(b)
  BY <1>1, <1>2, <1>4, CallIdsOf, BatchFacts DEF TypeAid, Types
<1>6. b \in OnTheWay(q)
  BY <1>2, OnTheWayIs
<1>7. c[1] \notin unreported
  BY DEF Doubtful
<1>8. QED
  BY <1>1, <1>5, <1>6, <1>7 DEF LiveOK, Attached

\* A transaction that is in a block late was given up.
LEMMA LateIsDoubtful ==
    ASSUME TypeAid, Known, NEW b \in BatchIds, LateInBlock(b), NEW c \in CallIds, ran'[c] # ran[c]
    PROVE  Doubtful(c[1])
<1>1. PICK failed : Takes(b, failed) /\ b \in givenUp
  BY DEF LateInBlock, Takes, Known
<1>2. PICK i \in 1..Len(batches[b].calls) : c = callId(b, i)
  BY <1>1, TakesTypes DEF TypeAid
<1>3. c[1] \in JobsOf(b)
  BY <1>2, CallIdsOf, BatchFacts DEF TypeAid, Types
<1>4. QED
  BY <1>1, <1>3 DEF Doubtful

LEMMA UnreadableIsDoubtful ==
    ASSUME WaysOK, TypeAid, SameCalls, NEW q \in Pools, TxUnreadable(q), NEW c \in CallIds,
           ran'[c] # ran[c]
    PROVE  Doubtful(c[1])'
<1>0. PICK b : b = Head(tq[q])
  OBVIOUS
<1>1. Types /\ SendingOK(q) /\ WayAid(q)
  BY DEF TypeAid, WaysOK
<1>2. b \in BatchIds
  BY <1>0, <1>1, SettledFacts, HeadOfPool DEF Settles, OfPool, TxEnds
<1>3. PICK failed : Takes(b, failed)
  BY <1>0 DEF TxUnreadable, Takes
<1>4. PICK i \in 1..Len(batches[b].calls) : c = callId(b, i)
  BY <1>1, <1>3, TakesTypes
<1>5. c[1] \in JobsOf(b)
  BY <1>1, <1>2, <1>4, CallIdsOf, BatchFacts DEF TypeAid, Types
<1>6. b \in givenUp' /\ JobsOf(b)' = JobsOf(b)
  BY <1>0, <1>2, SameCallsFacts DEF TxUnreadable
<1>7. QED
  BY <1>5, <1>6 DEF Doubtful

\* What else may change what took effect.
LEMMA RanFrame ==
    ASSUME WaysOK, TypeAid, SameCalls, Known, [Next]_vars, NEW c \in CallIds, ran'[c] # ran[c],
           ~Doubtful(c[1]), ~Doubtful(c[1])'
    PROVE  \E q \in Pools : TxInBlock(q)
<1>1. \A b \in BatchIds : ~LateInBlock(b)
  BY LateIsDoubtful
<1>2. \A q \in Pools : ~TxUnreadable(q)
  BY UnreadableIsDoubtful
<1>3. QED
  BY <1>1, <1>2, ChainFrame DEF TxTimeout, TraderExit, MasterDies

LEMMA StepRan ==
    ASSUME WaysOK, TypeAid, Types', Known, [Next]_vars, ~Puts, SameCalls,
           givenUp \subseteq givenUp', unreported \subseteq unreported',
           \A p \in Pools : LiveOK(p) /\ Passes(p), \A j \in Jobs : JobOK(j),
           NEW c \in CallIds, RanOK(c)
    PROVE  RanOK(c)'
<1> SUFFICES ASSUME ran'[c] > 0, ~Doubtful(c[1])' PROVE Landed(c)'
  BY DEF RanOK
<1>1. c[1] \in Jobs /\ PoolOf[c[1]] \in Pools /\ Types
  BY CallIdFacts, TradeAssumption DEF TypeAid
<1>2. ~Doubtful(c[1])
  BY <1>1, DoubtStays
<1>3. CASE ran'[c] = ran[c]
  <2>1. Landed(c)
    BY <1>2, <1>3 DEF RanOK
  <2>2. QED
    BY <1>1, <1>3, <2>1, LandedStays
<1>4. CASE ran'[c] # ran[c]
  <2>1. PICK q \in Pools : TxInBlock(q)
    BY <1>2, <1>4, RanFrame
  <2>2. QED
    BY <1>2, <1>4, <2>1, Lands
<1>5. QED
  BY <1>3, <1>4

LEMMA PutsRan ==
    ASSUME WaysOK, TypeAid, Types', Known, givenUp \subseteq givenUp',
           unreported \subseteq unreported', \A j \in Jobs : JobOK(j),
           NEW k \in Jobs, NEW id, Put(k, id), UNCHANGED rest, Enqueue(k) \/ RetryJob(k),
           \A p \in Pools : Enters(p, id), NEW c \in CallIds, RanOK(c)
    PROVE  RanOK(c)'
<1> SUFFICES ASSUME ran'[c] > 0, ~Doubtful(c[1])' PROVE Landed(c)'
  BY DEF RanOK
<1>1. c[1] \in Jobs /\ PoolOf[c[1]] \in Pools /\ Types /\ Joined(k, id) /\ ran' = ran
  BY CallIdFacts, TradeAssumption DEF TypeAid, Put, rest, chainVars
<1>2. ~Doubtful(c[1])
  BY <1>1, DoubtStays
<1>3. Landed(c)
  BY <1>1, <1>2 DEF RanOK
<1>4. k # c[1]
  BY <1>1, <1>3, LandedIsNotPut
<1>5. QED
  BY <1>1, <1>3, <1>4, LandedStaysOnPut
-------------------------------------------------------------------------------
(* What the jobs are told.                                                 *)

LEMMA SucceedsRan ==
    ASSUME TypeAid, NEW c \in CallIds, JobOK(c[1]), JobSucceeds(c[1])
    PROVE  ran[c] > 0
<1>1. c[1] \in Jobs /\ Types
  BY CallIdFacts DEF TypeAid
<1>2. PICK b : b = jobBatch[c[1]]
  OBVIOUS
<1>3. /\ b \in BatchIds /\ c[1] \in JobsOf(b) /\ BatchOK(b)
      /\ batches[b].finished = "resolved"
      /\ \A i \in batches[b].failed : batches[b].callToJobId[i] # c[1]
  <2>1. job[c[1]] = "working" /\ batches[b].finished # "pending" /\ ~jobFailed(c[1])
    BY <1>2 DEF JobSucceeds
  <2>2. b \in BatchIds /\ c[1] \in JobsOf(b)
    BY <1>1, <1>2, <2>1 DEF JobOK, Types, TypeOK
  <2>3. QED
    BY <1>1, <1>2, <2>1, <2>2 DEF jobFailed, TypeAid, Types, TypeOK
<1>4. PICK i \in 1..Len(batches[b].calls) : callId(b, i) = c /\ batches[b].calls[i] = c[1]
  BY <1>1, <1>3, CallsOf DEF Types
<1>5. i \notin batches[b].failed
  BY <1>3, <1>4 DEF BatchOK
<1>6. Effective(b, batches[b].failed)
  BY <1>3 DEF TypeAid, EffectOK
<1>7. QED
  BY <1>4, <1>5, <1>6 DEF Effective

\* The steps that settle a job.
LEMMA SettlesJob ==
    ASSUME [Next]_vars, TypeAid, Types', NEW j \in Jobs, job'[j] # job[j],
           job'[j] \in {"succeeded", "failed"}
    PROVE  \/ job'[j] = "succeeded" /\ JobSucceeds(j)
           \/ job'[j] = "failed" /\ (JobFails(j) \/ PreprocessFails(j))
<1>1. job \in [Jobs -> Statuses]
  BY DEF TypeAid, Types, TypeOK, Statuses
<1>2. ~Puts
  BY <1>1 DEF Puts, Enqueue, RetryJob
<1>3. ~OnBatchWorking /\ ~MasterDies
  BY DEF OnBatchWorking, MasterDies, afterRestart
<1>4. ~UNCHANGED jobVars
  BY DEF jobVars
<1>5. PICK k \in Jobs : Moves(k)
  BY <1>2, <1>3, <1>4, JobFrame
<1>6. k = j
  BY <1>5, MovesFacts DEF TypeAid
<1>7. QED
  BY <1>1, <1>5, <1>6
     DEF Moves, Take, PreprocessFails, WaitUntilFinished, JobSucceeds, JobFails

LEMMA StepOutcome ==
    ASSUME WaysOK, TypeAid, Types', Known, [Next]_vars,
           givenUp \subseteq givenUp', unreported \subseteq unreported',
           \A p \in Pools : LiveOK(p), \A j \in Jobs : JobOK(j), \A c \in CallIds : RanOK(c),
           SameCalls \/ \E k \in Jobs : \E id : Joined(k, id) /\ ran' = ran, OutcomeIsTrue
    PROVE  OutcomeIsTrue'
<1>1. Types /\ Grows /\ ran \in [CallIds -> Nat] /\ ran' \in [CallIds -> Nat]
  BY RanGrows DEF TypeAid, Types, TypeOK
<1>2. ASSUME NEW c \in CallIds, job'[c[1]] = "succeeded" PROVE ran'[c] > 0
  <2>1. c[1] \in Jobs
    BY CallIdFacts
  <2>2. ran[c] > 0
    <3>1. CASE job[c[1]] = "succeeded"
      BY <3>1 DEF OutcomeIsTrue, SuccessMeansRan
    <3>2. CASE job[c[1]] # "succeeded"
      <4>1. JobSucceeds(c[1])
        BY <1>2, <2>1, <3>2, SettlesJob
      <4>2. QED
        BY <2>1, <4>1, SucceedsRan
    <3>3. QED
      BY <3>1, <3>2
  <2>3. QED
    BY <1>1, <2>2 DEF Grows
<1>3. ASSUME NEW c \in CallIds, job'[c[1]] = "failed", Calls[c[1]] = 1, ~Doubtful(c[1])'
      PROVE  ran'[c] = 0
  <2>1. c[1] \in Jobs /\ ~Doubtful(c[1])
    BY <1>1, <1>3, CallIdFacts, DoubtStays
  <2>2. CASE job[c[1]] = "failed"
    <3>1. ran[c] = 0
      BY <1>3, <2>1, <2>2 DEF OutcomeIsTrue, FailureMeansNotRan
    <3>2. ran'[c] = ran[c]
      <4>1. SUFFICES ASSUME ran'[c] # ran[c] PROVE FALSE
        OBVIOUS
      <4>2. PICK q \in Pools : TxInBlock(q)
        BY <1>3, <2>1, <4>1, RanFrame
      <4>3. Unsettled(c[1])
        BY <2>1, <4>1, <4>2, TakenIsLive
      <4>4. QED
        BY <2>2, <4>3 DEF Unsettled
    <3>3. QED
      BY <3>1, <3>2
  <2>3. CASE job[c[1]] # "failed"
    <3>1. ran' = ran /\ c[1] \notin unreported' /\ (JobFails(c[1]) \/ PreprocessFails(c[1]))
      BY <1>3, <2>1, <2>3, SettlesJob DEF JobFails, PreprocessFails, chainVars, Doubtful
    <3>2. ~Landed(c)
      <4>1. CASE PreprocessFails(c[1])
        BY <2>1, <4>1 DEF PreprocessFails, JobOK, Landed
      <4>2. CASE JobFails(c[1])
        <5>1. jobFailed(c[1]) /\ batches[jobBatch[c[1]]].finished # "pending"
          BY <1>1, <2>1, <3>1, <4>2, RejectsFacts DEF JobFails
        <5>2. QED
          BY <1>3, <5>1, LandedIsNotFailed
      <4>3. QED
        BY <3>1, <4>1, <4>2
    <3>3. QED
      BY <1>1, <2>1, <3>1, <3>2 DEF RanOK
  <2>4. QED
    BY <2>2, <2>3
<1>4. QED
  BY <1>2, <1>3 DEF OutcomeIsTrue, SuccessMeansRan, FailureMeansNotRan
-------------------------------------------------------------------------------
(* The order of what is sent.                                              *)

LEMMA OrderIsRising ==
    ASSUME sent \in [Pools -> Seq(Nat)]
    PROVE  SentInOrder <=> \A p \in Pools : Rising(sent[p], Nat)
<1>1. ASSUME NEW p \in Pools
      PROVE  (\A m, n \in 1..Len(sent[p]) : m < n => sent[p][m] < sent[p][n]) <=> Rising(sent[p], Nat)
  <2>1. \A m \in 1..Len(sent[p]) : sent[p][m] \in Nat
    OBVIOUS
  <2>2. QED
    BY <2>1, Zenon DEF Rising
<1>2. QED
  BY <1>1, Zenon DEF SentInOrder

LEMMA StepOrder ==
    ASSUME WaysOK, TypeAid, Types', [Next]_vars, SentInOrder
    PROVE  SentInOrder'
<1>1. sent \in [Pools -> Seq(Nat)] /\ sent' \in [Pools -> Seq(Nat)]
  BY DEF TypeAid, Types, Typed
<1>2. CASE sent' = sent
  BY <1>2 DEF SentInOrder
<1>3. ASSUME NEW q \in Pools, Sends(q) PROVE SentInOrder'
  <2>1. PICK x : x = Head(tq[q])
    OBVIOUS
  <2>2. tq[q] # <<>> /\ sending[q] = "no" /\ sent' = [sent EXCEPT ![q] = Append(@, x)]
    BY <1>3, <2>1 DEF Sends
  <2>3. x \in Nat /\ x \in Range(tq[q])
    BY <2>1, <2>2, HeadOfPool DEF WaysOK
  <2>4. \A y \in Range(sent[q]) : y < x
    <3>1. ASSUME NEW y \in Range(sent[q]) PROVE y \in Done(q)
      BY <2>2 DEF Done, Busy, TypeAid, PoolsOK
    <3>2. QED
      BY <2>3, <3>1, WayFacts DEF WaysOK
  <2>5. \A p \in Pools : Rising(sent[p], Nat)
    BY <1>1, OrderIsRising
  <2>6. Rising(Append(sent[q], x), Nat)
    <3> DEFINE s == sent[q]
    <3>1. s \in Seq(Nat) /\ Rising(s, Nat) /\ \A y \in Range(s) : y < x
      BY <1>1, <2>4, <2>5
    <3> HIDE DEF s
    <3>2. Rising(Append(s, x), Nat)
      BY <2>3, <3>1, RisingAppend
    <3>3. QED
      BY <3>2 DEF s
  <2>7. ASSUME NEW p \in Pools PROVE Rising(sent'[p], Nat)
    BY <1>1, <2>2, <2>5, <2>6
  <2>8. ASSUME NEW p \in Pools, NEW m \in 1..Len(sent'[p]), NEW n \in 1..Len(sent'[p]), m < n
        PROVE  sent'[p][m] < sent'[p][n]
    <3>1. sent'[p] \in Seq(Nat)
      BY <1>1
    <3>2. sent'[p][m] \in Nat /\ sent'[p][n] \in Nat
      BY <3>1
    <3>3. QED
      BY <2>7, <2>8, <3>2 DEF Rising
  <2>9. QED
    BY <2>8 DEF SentInOrder
<1>4. CASE AddBatchJob
  BY <1>2, <1>4 DEF AddBatchJob, histVars
<1>5. ASSUME NEW q \in Pools, Attended(q), ~Sends(q) PROVE sent' = sent
  BY <1>5 DEF Attended, ReadNonce, ProcessBatchThrows, ProcessBatchFails, Settles, histVars
<1>6. QED
  BY <1>2, <1>3, <1>4, <1>5, TraderFrame
-------------------------------------------------------------------------------
(* The invariant is inductive.                                             *)

LEMMA Parts ==
    TInv <=> /\ TypeAid /\ WaysOK /\ Known /\ OutcomeIsTrue /\ SentInOrder
             /\ \A p \in Pools : LiveOK(p) /\ Clean(p)
             /\ \A j \in Jobs : JobOK(j)
             /\ ToldWhenSent
             /\ \A c \in CallIds : RanOK(c)
  BY DEF TInv, TypeAid, Types, WaysOK, WayAid, Known, Clean

LEMMA PartsNext ==
    ASSUME Types', EffectOK', Known', OutcomeIsTrue', SentInOrder', ToldWhenSent',
           \A p \in Pools : PoolsOK(p)' /\ WayOK(p)' /\ LiveOK(p)' /\ Clean(p)',
           \A b \in BatchIds' : BatchOK(b)',
           \A j \in Jobs : JobOK(j)',
           \A c \in CallIds : RanOK(c)'
    PROVE  TInv'
  BY DEF TInv, Types, Known, Clean

LEMMA InitHolds ==
    ASSUME Init
    PROVE  TInv
<1>1. BatchIds = {}
  BY DEF Init, BatchIds
<1>2. Types
  <2>1. TypeOK
    <3>1. /\ job \in [Jobs -> Statuses]
          /\ retries \in [Jobs -> 0..TxRetryTimes] /\ jobBatch \in [Jobs -> BatchIds \cup {None}]
          /\ current \in [Pools -> BatchIds \cup {None}]
          /\ dequeuing \in [Pools -> BatchIds \cup {None}]
      BY TradeAssumption DEF Init, Statuses
    <3>2. /\ \A p \in Pools : Range(queue[p]) \cup Range(tq[p]) \cup Range(sent[p]) \subseteq BatchIds
          /\ Range(addQueue) \cup Range(toTrader) \cup {m.id : m \in Range(fromTrader)} \subseteq BatchIds
      BY RangeOfEmpty DEF Init
    <3>3. /\ addSent \in BOOLEAN /\ alive \in BOOLEAN /\ status \in {"up", "starting"}
          /\ nonce \in [Pools -> Nat \cup {Unread}]
          /\ sending \in [Pools -> {"no", "taken", "clash"}]
          /\ nextIndex \in [Operators -> Nat]
          /\ floating \cup givenUp \cup stranded \subseteq BatchIds /\ unreported \subseteq Jobs
          /\ ran \in [CallIds -> Nat]
      BY DEF Init
    <3>4. faults \in 0..MaxFaults
      BY TradeAssumption DEF Init
    <3>5. QED
      BY <1>1, <3>1, <3>2, <3>3, <3>4 DEF TypeOK, Statuses
  <2>2. Typed
    BY DEF Init, Typed
  <2>3. QED
    BY <2>1, <2>2 DEF Types
<1>3. ASSUME NEW p \in Pools
      PROVE  Range(queue[p]) = {} /\ Range(tq[p]) = {} /\ Range(sent[p]) = {} /\ current[p] = None
  BY RangeOfEmpty DEF Init
<1>4. Range(toTrader) = {} /\ Range(Unsent) = {} /\ Range(fromTrader) = {}
  BY RangeOfEmpty DEF Init, Unsent
<1>5. ASSUME NEW p \in Pools PROVE PoolsOK(p) /\ WayOK(p) /\ LiveOK(p) /\ Clean(p)
  <2>1. OfPool(p) = {} /\ Done(p) = {}
    BY <1>1 DEF OfPool, Done
  <2>2. Open(p) = {} /\ InChannel(p) = {} /\ InUnsent(p) = {}
    BY <1>3, <1>4 DEF Open, InChannel, InUnsent
  <2>3. \A s \in 0..5 : Stages(p)[s] = {}
    BY <1>3, <2>1, <2>2, StageFacts
  <2>4. Chained(Stages(p)) /\ OnTheWay(p) = {}
    BY <2>3 DEF Chained, OnTheWay
  <2>5. RisingOK(p)
    BY <2>1 DEF RisingOK, Rising
  <2>6. PoolsOK(p)
    BY <1>3 DEF PoolsOK
  <2>7. sending[p] = "no" /\ nonce[p] = Unread
    BY DEF Init
  <2>8. QED
    BY <2>4, <2>5, <2>6, <2>7 DEF WayOK, RisingOK, LiveOK, Clean, SendingOK, NonceOK
<1>6. \A j \in Jobs : JobOK(j)
  BY DEF Init, JobOK
<1>7. EffectOK /\ ToldWhenSent
  BY <1>1, <1>4 DEF EffectOK, ToldWhenSent
<1>8. \A c \in CallIds : RanOK(c)
  BY DEF Init, RanOK
<1>9. OutcomeIsTrue
  BY CallIdFacts DEF Init, OutcomeIsTrue, SuccessMeansRan, FailureMeansNotRan
<1>10. SentInOrder /\ Known
  <2>1. \A p \in Pools : Len(sent[p]) = 0
    BY DEF Init
  <2>2. QED
    BY <2>1 DEF Init, SentInOrder, Known
<1>11. QED
  BY <1>1, <1>2, <1>5, <1>6, <1>7, <1>8, <1>9, <1>10 DEF TInv, Types, Known, Clean

LEMMA PutsHolds ==
    ASSUME TInv, [Next]_vars, Types', Puts
    PROVE  TInv'
<1>1. /\ TypeAid /\ Types /\ WaysOK /\ Known /\ OutcomeIsTrue /\ SentInOrder
      /\ \A p \in Pools : LiveOK(p) /\ Clean(p)
      /\ \A j \in Jobs : JobOK(j)
      /\ \A c \in CallIds : RanOK(c)
      /\ \A b \in BatchIds : BatchOK(b)
      /\ JobsAid /\ ToldWhenSent
  BY Parts DEF TypeAid, JobsAid
<1> PICK j \in Jobs :
        \E id : /\ Put(j, id) /\ UNCHANGED rest /\ \A p \in Pools : Enters(p, id)
                /\ Enqueue(j) \/ RetryJob(j)
  BY <1>1, PutsEnter
<1>2. PICK id :
        /\ Put(j, id) /\ UNCHANGED rest /\ \A p \in Pools : Enters(p, id)
        /\ Enqueue(j) \/ RetryJob(j)
  OBVIOUS
<1>3. Joined(j, id) /\ PoolOf[j] \in Pools
  BY <1>2, TradeAssumption DEF Put
<1>4. Known' /\ givenUp \subseteq givenUp' /\ unreported \subseteq unreported'
  BY <1>1, StepKnown, UnreportedGrows
<1>5. \A p \in Pools : PoolsOK(p)' /\ WayOK(p)'
  BY <1>2 DEF Enters
<1>6. \A p \in Pools : LiveOK(p)'
  BY <1>1, <1>2, <1>4, PutsLive
<1>7. \A p \in Pools : Clean(p)'
  BY <1>1, StepSending
<1>8. \A b \in BatchIds' : BatchOK(b)'
  <2>1. ASSUME id \in BatchIds PROVE j \notin JobsOf(id) /\ batches[id].pool = PoolOf[j]
    <3>1. id \in OnTheWay(PoolOf[j])
      BY <1>1, <1>2, <1>3, <2>1, PutsIsOpen DEF WaysOK
    <3>2. id \in OfPool(PoolOf[j])
      BY <1>1, <1>3, <3>1, OnTheWayFacts DEF WaysOK
    <3>3. id \notin Range(sent[PoolOf[j]])
      <4>1. id = current[PoolOf[j]] /\ id # None
        BY <1>1, <1>2, <2>1, IdFacts DEF Put, Kept, Begun, Replaced
      <4>2. QED
        BY <1>1, <1>3, <4>1, OpenIsUnsent DEF WaysOK
    <3>4. QED
      BY <1>1, <1>2, <1>3, <3>1, <3>2, <3>3, PutIsNew DEF OfPool
  <2>2. QED
    BY <1>1, <1>3, <2>1, BatchesJoinOK
<1>9. \A k \in Jobs : JobOK(k)'
  BY <1>1, <1>2, PutsJobs
<1>10. EffectOK'
  BY <1>1, <1>2, <1>3, PutsEffect DEF WaysOK
<1>11. \A c \in CallIds : RanOK(c)'
  BY <1>1, <1>2, <1>4, PutsRan
<1>12. OutcomeIsTrue'
  <2>1. ran' = ran
    BY <1>2 DEF rest, chainVars
  <2>2. QED
    BY <1>1, <1>3, <1>4, <2>1, StepOutcome
<1>13. SentInOrder' /\ ToldWhenSent'
  BY <1>1, <1>2, <1>3, StepOrder, PutsTold DEF WaysOK
<1>14. QED
  BY <1>4, <1>5, <1>6, <1>7, <1>8, <1>9, <1>10, <1>11, <1>12, <1>13, PartsNext

LEMMA OthersHold ==
    ASSUME TInv, [Next]_vars, Types', ~Puts
    PROVE  TInv'
<1>1. /\ TypeAid /\ Types /\ WaysOK /\ Known /\ OutcomeIsTrue /\ SentInOrder
      /\ \A p \in Pools : LiveOK(p) /\ Clean(p)
      /\ \A j \in Jobs : JobOK(j)
      /\ \A c \in CallIds : RanOK(c)
      /\ \A b \in BatchIds : BatchOK(b)
      /\ JobsAid /\ ToldWhenSent
  BY Parts DEF TypeAid, JobsAid
<1>2. SameCalls
  BY <1>1, CallsStay
<1>3. \A p \in Pools : Passes(p)
  BY <1>1, StepPasses
<1>4. Known' /\ givenUp \subseteq givenUp' /\ unreported \subseteq unreported'
  BY <1>1, StepKnown, UnreportedGrows
<1>5. \A p \in Pools : PoolsOK(p)' /\ WayOK(p)'
  BY <1>3 DEF Passes
<1>6. \A p \in Pools : LiveOK(p)'
  BY <1>1, <1>2, <1>3, StepLive
<1>7. \A p \in Pools : Clean(p)'
  BY <1>1, StepSending
<1>8. \A b \in BatchIds' : BatchOK(b)'
  BY <1>1, <1>2, BatchesStayOK
<1>9. \A k \in Jobs : JobOK(k)'
  BY <1>1, <1>2, StepJobs
<1>10. EffectOK'
  BY <1>1, StepEffect
<1>11. \A c \in CallIds : RanOK(c)'
  BY <1>1, <1>2, <1>3, <1>4, StepRan
<1>12. OutcomeIsTrue'
  BY <1>1, <1>2, <1>4, StepOutcome
<1>13. SentInOrder' /\ ToldWhenSent'
  BY <1>1, <1>2, StepOrder, StepTold
<1>14. QED
  BY <1>4, <1>5, <1>6, <1>7, <1>8, <1>9, <1>10, <1>11, <1>12, <1>13, PartsNext

\* Whatever jobs arrive, and whatever fails, the batches stay in order on their way, the
\* jobs know their batch, unless its outcome got lost or their progress was refused, and
\* what is told of a call is then what happened to it.
THEOREM Inductive == Spec => []TInv
<1>1. ASSUME TInv, [Next]_vars PROVE TInv'
  <2>1. Types'
    BY <1>1, StepKeepsTypes, Parts
  <2>2. QED
    BY <1>1, <2>1, PutsHolds, OthersHold
<1>2. QED
  BY InitHolds, <1>1, PTL DEF Spec

\* Every variable of the bus, of the manager and of the trader has its type: what is in a
\* queue or in a message is always a batch the bus has begun.
THEOREM TypeCorrect == Spec => []TypeOK
<1>1. TInv => TypeOK
  BY DEF TInv
<1>2. QED
  BY <1>1, Inductive, PTL

\* For any number of jobs, pools and faults, a job that is told to have succeeded has had
\* all its calls take effect, and a job of one call that is told to have failed has not,
\* unless the outcome of a transaction of it got lost (TxTimeout, TxUnreadable, a crash), or
\* its progress was refused when its transaction had been sent (ReportRefused).
THEOREM JobsAreToldTheTruth == Spec => []OutcomeIsTrue
<1>1. TInv => OutcomeIsTrue
  BY DEF TInv
<1>2. QED
  BY <1>1, Inductive, PTL

\* No call takes effect twice, however often its job is retried, with the same two
\* exceptions: an outcome that got lost, and progress that was refused.
THEOREM NoCallRunsTwice == Spec => []RunsOnce
<1>1. TInv => RunsOnce
  <2> SUFFICES ASSUME TInv, NEW c \in CallIds, ran[c] > 1, ~Doubtful(c[1]) PROVE FALSE
    BY DEF RunsOnce
  <2>1. ran \in [CallIds -> Nat] /\ RanOK(c)
    BY DEF TInv, TypeOK
  <2>2. Landed(c)
    BY <2>1 DEF RanOK
  <2>3. QED
    BY <2>2 DEF Landed
<1>2. QED
  BY <1>1, Inductive, PTL

\* The batches of a pool are sent in the order they were begun in, each once, and a
\* transaction is refused for its nonce only if another pool has the same operator.
THEOREM BatchesAreSentInOrder == Spec => []ChainTakesInOrder
<1>1. TInv => ChainTakesInOrder
  BY DEF TInv, NonceOK, Shared, ChainTakesInOrder, ClashesOnlyIfShared
<1>2. QED
  BY <1>1, Inductive, PTL
===============================================================================
