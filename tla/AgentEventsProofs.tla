-------------------------- MODULE AgentEventsProofs --------------------------
(***************************************************************************)
(* Proofs about AgentEvents: its types, that the cursor skips nothing and  *)
(* that the drained events are kept, for every log, queue limit and number *)
(* of set-backs.  Each invariant is proved of the connections, of a drain  *)
(* and of the turns of the conversation; the drain is the step that        *)
(* relates them all, and rests on what the queue does with one batch.      *)
(***************************************************************************)
EXTENDS AgentEvents, OrderedSeqsProofs

\* The sequence numbers of the log, and a cursor into it.
Seqs == 1..MaxEvents
Cursors == 0..MaxEvents

\* An item of the buffer; only a message has a body.
Item == {item \in [seq : Seqs, body : BOOLEAN] : item.body => ~IsLifecycle(item.seq)}

\* The queue of the service while a batch is added.
Queue == [pending : Seq(Seqs), capped : SUBSET Seqs]

\* Items in the order of the log.
InLogOrder(items) ==
    \A j, k \in DOMAIN items : j < k => items[j].seq < items[k].seq

\* The bounds are natural numbers.
LEMMA BoundsAreNat == MaxPending \in Nat /\ MaxEvents \in Nat /\ MaxSetBacks \in Nat
BY BoundsAssumption

-----------------------------------------------------------------------------
(* The queue of the service.                                               *)

\* Coalescing removes what the event supersedes and nothing else.
LEMMA CoalescedProperties ==
    ASSUME NEW queued \in Seq(Seqs), NEW s \in Seqs
    PROVE  /\ Coalesced(queued, s) \in Seq(Seqs)
           /\ Elems(Coalesced(queued, s)) \subseteq Elems(queued)
           /\ \A t \in Elems(queued) : t \in Elems(Coalesced(queued, s)) \/ Supersedes(s, t)
<1> DEFINE keep == {t \in ToSet(queued) : ~Supersedes(s, t)}
<1>1. /\ Filter(queued, keep) \in Seq(Seqs)
      /\ Elems(Filter(queued, keep)) = Elems(queued) \cap keep
  <2> HIDE DEF keep
  <2> QED BY FilterProperties, FilterElems
<1>2. \A t \in Elems(queued) : t \in keep \/ Supersedes(s, t)
  BY DEF Elems, ToSet
<1> QED
  BY <1>1, <1>2 DEF Coalesced

\* At the limit no more than one position is given up, that of a status.
LEMMA ExcessProperties ==
    ASSUME NEW queued \in Seq(Seqs)
    PROVE  \/ Excess(queued) = {}
           \/ \E k \in DOMAIN queued : Excess(queued) = {k} /\ IsStatus(queued[k])
<1> DEFINE statuses == {k \in DOMAIN queued : IsStatus(queued[k])}
           first == CHOOSE k \in statuses : \A other \in statuses : k <= other
<1>1. Excess(queued) = {} \/ (statuses # {} /\ Excess(queued) = {first})
  BY DEF Excess
<1>2. ASSUME statuses # {} PROVE first \in statuses
  <2>1. statuses \in SUBSET Nat
    OBVIOUS
  <2> HIDE DEF statuses
  <2>2. \E k \in statuses : \A other \in statuses : k <= other
    BY <1>2, <2>1, SmallestExists
  <2> QED BY <2>2
<1> HIDE DEF first
<1> QED
  BY <1>1, <1>2

\* Whatever was queued and the new event stay in the queue, are superseded by
\* the new event, or are a status that is dropped at the limit.
LEMMA EnqueuedProperties ==
    ASSUME NEW q \in Queue, NEW s \in Seqs
    PROVE  LET r == Enqueued(q, s)
           IN  /\ r \in Queue
               /\ Elems(r.pending) \subseteq Elems(q.pending) \cup {s}
               /\ q.capped \subseteq r.capped
               /\ \A t \in r.capped \ q.capped : IsStatus(t)
               /\ s \in Elems(r.pending) \cup r.capped
               /\ \A t \in Elems(q.pending) :
                      t \in Elems(r.pending) \cup r.capped \/ Supersedes(s, t)
<1> DEFINE r == Enqueued(q, s)
           queued == Append(Coalesced(q.pending, s), s)
           excess == Excess(queued)
<1>1. q.pending \in Seq(Seqs) /\ q.capped \in SUBSET Seqs
  BY DEF Queue
<1>2. CASE ~IsLifecycle(s)
  <2> DEFINE more == Append(q.pending, s)
  <2>1. more \in Seq(Seqs) /\ Elems(more) = Elems(q.pending) \cup {s}
    BY <1>1, AppendElems
  <2>2. r = [q EXCEPT !.pending = more]
    BY <1>2 DEF Enqueued
  <2> HIDE DEF r, more
  <2>3. r.pending = more /\ r.capped = q.capped /\ r \in Queue
    BY <1>1, <2>1, <2>2 DEF Queue
  <2> QED BY <2>1, <2>3 DEF r
<1>3. CASE IsLifecycle(s)
  <2>1. /\ Coalesced(q.pending, s) \in Seq(Seqs)
        /\ Elems(Coalesced(q.pending, s)) \subseteq Elems(q.pending)
        /\ \A t \in Elems(q.pending) :
               t \in Elems(Coalesced(q.pending, s)) \/ Supersedes(s, t)
    BY <1>1, CoalescedProperties
  <2>2. /\ queued \in Seq(Seqs)
        /\ Elems(queued) = Elems(Coalesced(q.pending, s)) \cup {s}
    BY <2>1, AppendElems
  <2>3. r = [pending |-> IF excess = {} THEN queued
                         ELSE RemoveAt(queued, CHOOSE k \in excess : TRUE),
             capped  |-> q.capped \cup {queued[k] : k \in excess}]
    BY <1>3 DEF Enqueued
  <2> HIDE DEF queued, r
  <2>4. CASE excess = {}
    <3>1. r = [pending |-> queued, capped |-> q.capped]
      BY <2>3, <2>4
    <3>2. r.pending = queued /\ r.capped = q.capped /\ r \in Queue
      BY <1>1, <2>2, <3>1 DEF Queue
    <3> QED BY <2>1, <2>2, <3>2 DEF r
  <2>5. ASSUME NEW k \in DOMAIN queued, excess = {k}, IsStatus(queued[k])
        PROVE  /\ r \in Queue
               /\ Elems(r.pending) \subseteq Elems(queued)
               /\ r.capped = q.capped \cup {queued[k]}
               /\ Elems(queued) \subseteq Elems(r.pending) \cup {queued[k]}
    <3>1. (CHOOSE j \in excess : TRUE) = k /\ excess # {}
      BY <2>5
    <3>2. r = [pending |-> RemoveIndex(queued, k), capped |-> q.capped \cup {queued[k]}]
      <4>1. {queued[j] : j \in excess} = {queued[k]}
        BY <2>5
      <4> HIDE DEF excess
      <4> QED BY <2>3, <3>1, <4>1 DEF RemoveAt, RemoveIndex
    <3>3. r.pending = RemoveIndex(queued, k) /\ r.capped = q.capped \cup {queued[k]}
      BY <3>2
    <3>4. RemoveIndex(queued, k) \in Seq(Seqs)
      BY <2>2, RemoveIndexType
    <3>5. queued[k] \in Seqs
      BY <2>2
    <3>6. r \in Queue
      BY <1>1, <3>2, <3>4, <3>5 DEF Queue
    <3> QED BY <2>2, <3>3, <3>6, RemoveIndexElems
  <2>6. CASE excess # {}
    <3>1. PICK k \in DOMAIN queued : excess = {k} /\ IsStatus(queued[k])
      BY <2>2, <2>6, ExcessProperties
    <3>2. /\ r \in Queue
          /\ Elems(r.pending) \subseteq Elems(queued)
          /\ r.capped = q.capped \cup {queued[k]}
          /\ Elems(queued) \subseteq Elems(r.pending) \cup {queued[k]}
      BY <2>5, <3>1
    <3> QED BY <2>1, <2>2, <3>1, <3>2 DEF r
  <2> QED BY <2>4, <2>6
<1> QED
  BY <1>2, <1>3

\* The recursion of enqueue_event_batch: one event after the other.
LEMMA EnqueuedEachSteps ==
    ASSUME NEW q \in Queue, NEW batch \in Seq(Seqs)
    PROVE  LET after == EnqueuedEach(q, batch)
           IN  /\ after \in [0..Len(batch) -> Queue]
               /\ after[0] = q
               /\ \A k \in 1..Len(batch) : after[k] = Enqueued(after[k - 1], batch[k])
<1> DEFINE n == Len(batch)
           Step(p, k) == Enqueued(p, batch[k])
           Body(f, k) == IF k = 0 THEN q ELSE Step(f[k - 1], k)
<1>1. n \in Nat /\ \A k \in 1..n : batch[k] \in Seqs
  OBVIOUS
<1>2. \A p \in Queue, k \in 1..n : Step(p, k) \in Queue
  BY <1>1, EnqueuedProperties
<1> HIDE DEF n, Step
<1>3. \E g : g = [k \in 0..n |-> Body(g, k)]
  <2> DEFINE step == [p \in Queue \X (1..n) |-> Step(p[1], p[2])]
  <2>1. step \in [Queue \X (1..n) -> Queue]
    BY <1>2
  <2>2. \A p \in Queue, k \in 1..n : step[<<p, k>>] = Step(p, k)
    OBVIOUS
  <2> HIDE DEF step
  <2>3. PICK g : Iterates(Queue, n, q, step, g)
    BY <1>1, <2>1, IterationExists
  <2>4. \A k \in 0..n : k # 0 => k \in 1..n /\ g[k - 1] \in Queue
    BY <1>1, <2>3 DEF Iterates
  <2>5. g = [k \in 0..n |-> Body(g, k)]
    BY <2>2, <2>3, <2>4 DEF Iterates
  <2> QED BY <2>5
<1> DEFINE after == CHOOSE f : f = [k \in 0..n |-> Body(f, k)]
<1>4. after = [k \in 0..n |-> Body(after, k)]
  BY <1>3
<1>5. after = EnqueuedEach(q, batch)
  BY DEF EnqueuedEach, n, Step
<1> HIDE DEF after
<1>6. after[0] = q /\ \A k \in 1..n : after[k] = Step(after[k - 1], k)
  BY <1>1, <1>4
<1>7. \A k \in 0..n : after[k] \in Queue
  <2> DEFINE S == {k \in Nat : k <= n => after[k] \in Queue}
  <2>1. 0 \in S
    BY <1>6
  <2>2. ASSUME NEW k \in Nat, k \in S PROVE k + 1 \in S
    <3>1. SUFFICES ASSUME k + 1 <= n PROVE after[k + 1] \in Queue
      OBVIOUS
    <3>2. k + 1 \in 1..n /\ (k + 1) - 1 = k /\ after[k] \in Queue
      BY <1>1, <2>2, <3>1
    <3> QED BY <1>2, <1>6, <3>2
  <2> HIDE DEF S
  <2>3. Nat \subseteq S
    BY <2>1, <2>2, SetInduction
  <2> QED BY <1>1, <2>3 DEF S
<1>8. after \in [0..n -> Queue]
  BY <1>4, <1>7
<1> QED
  BY <1>5, <1>6, <1>8 DEF n, Step

\* What a batch of events leaves: nothing comes into the queue that was not
\* there or in the batch, and only statuses are dropped at the limit.
LEMMA EnqueuedEachBounds ==
    ASSUME NEW q \in Queue, NEW batch \in Seq(Seqs)
    PROVE  LET r == EnqueuedEach(q, batch)[Len(batch)]
           IN  /\ r \in Queue
               /\ Elems(r.pending) \subseteq Elems(q.pending) \cup Elems(batch)
               /\ \A t \in r.capped \ q.capped : IsStatus(t)
<1> DEFINE after == EnqueuedEach(q, batch)
           n == Len(batch)
           Good(r) == /\ Elems(r.pending) \subseteq Elems(q.pending) \cup Elems(batch)
                      /\ \A t \in r.capped \ q.capped : IsStatus(t)
           S == {k \in Nat : k <= n => Good(after[k])}
<1>1. /\ after \in [0..n -> Queue] /\ after[0] = q
      /\ \A k \in 1..n : after[k] = Enqueued(after[k - 1], batch[k])
  BY EnqueuedEachSteps
<1>2. n \in Nat /\ \A k \in 1..n : batch[k] \in Seqs /\ batch[k] \in Elems(batch)
  BY DEF Elems
<1> HIDE DEF after, n
<1>3. 0 \in S
  BY <1>1
<1>4. ASSUME NEW k \in Nat, k \in S PROVE k + 1 \in S
  <2>1. SUFFICES ASSUME k + 1 <= n PROVE Good(after[k + 1])
    OBVIOUS
  <2>2. /\ k + 1 \in 1..n /\ (k + 1) - 1 = k /\ k \in 0..n
        /\ after[k] \in Queue /\ Good(after[k])
    BY <1>1, <1>2, <1>4, <2>1
  <2>3. after[k + 1] = Enqueued(after[k], batch[k + 1])
    BY <1>1, <2>2
  <2>4. /\ Elems(after[k + 1].pending) \subseteq Elems(after[k].pending) \cup {batch[k + 1]}
        /\ \A t \in after[k + 1].capped \ after[k].capped : IsStatus(t)
    <3> DEFINE p == after[k]
               s == batch[k + 1]
    <3>1. p \in Queue /\ s \in Seqs /\ after[k + 1] = Enqueued(p, s)
      BY <1>2, <2>2, <2>3
    <3> HIDE DEF p, s
    <3>2. /\ Elems(Enqueued(p, s).pending) \subseteq Elems(p.pending) \cup {s}
          /\ \A t \in Enqueued(p, s).capped \ p.capped : IsStatus(t)
      BY <3>1, EnqueuedProperties
    <3> QED BY <3>1, <3>2 DEF p, s
  <2> QED BY <1>2, <2>2, <2>4
<1>5. n \in S
  <2> HIDE DEF S
  <2> QED BY <1>2, <1>3, <1>4, SetInduction
<1>6. after[n] \in Queue
  BY <1>1, <1>2
<1> QED
  BY <1>2, <1>5, <1>6 DEF after, n

\* A batch whose statuses are in the order of the log, all after what is
\* queued, loses nothing: what is neither queued nor dropped is superseded by
\* a later event of the batch.
LEMMA EnqueuedEachKeeps ==
    ASSUME NEW q \in Queue, NEW batch \in Seq(Seqs),
           \A t \in Elems(q.pending), k \in DOMAIN batch : t < batch[k],
           \A j, k \in DOMAIN batch :
               j < k /\ IsStatus(batch[j]) /\ IsStatus(batch[k]) => batch[j] < batch[k]
    PROVE  LET r == EnqueuedEach(q, batch)[Len(batch)]
           IN  /\ q.capped \subseteq r.capped
               /\ \A t \in Elems(q.pending) \cup Elems(batch) :
                      \/ t \in Elems(r.pending) \cup r.capped
                      \/ \E u \in Elems(batch) : u > t /\ Supersedes(t, u)
<1> DEFINE after == EnqueuedEach(q, batch)
           n == Len(batch)
           Seen(k) == Elems(q.pending) \cup {batch[j] : j \in 1..k}
           Superseded(t) == \E u \in Elems(batch) : u > t /\ Supersedes(t, u)
           Good(k) == /\ q.capped \subseteq after[k].capped
                      /\ Elems(after[k].pending) \subseteq Seen(k)
                      /\ \A t \in Seen(k) :
                             t \in Elems(after[k].pending) \cup after[k].capped \/ Superseded(t)
           S == {k \in Nat : k <= n => Good(k)}
<1>1. /\ after \in [0..n -> Queue] /\ after[0] = q
      /\ \A k \in 1..n : after[k] = Enqueued(after[k - 1], batch[k])
  BY EnqueuedEachSteps
<1>2. /\ n \in Nat /\ DOMAIN batch = 1..n
      /\ \A k \in 1..n : batch[k] \in Seqs /\ batch[k] \in Elems(batch)
  BY DEF Elems
<1>3. \A s, t \in Seqs : Supersedes(s, t) => IsStatus(s) /\ IsStatus(t) /\ Supersedes(t, s)
  BY DEF Supersedes
<1>4. \A k \in 0..n : \A t \in Seen(k) : t \in Seqs
  <2>1. Elems(q.pending) \subseteq Seqs
    BY ElemsType DEF Queue
  <2> QED BY <1>2, <2>1
<1> HIDE DEF after, n
<1>5. 0 \in S
  <2>1. Seen(0) = Elems(q.pending)
    OBVIOUS
  <2> QED BY <1>1, <2>1
<1>6. ASSUME NEW k \in Nat, k \in S PROVE k + 1 \in S
  <2> DEFINE s == batch[k + 1]
  <2>1. SUFFICES ASSUME k + 1 <= n PROVE Good(k + 1)
    OBVIOUS
  <2>2. /\ k + 1 \in 1..n /\ (k + 1) - 1 = k /\ k \in 0..n
        /\ after[k] \in Queue /\ Good(k)
    <3> HIDE DEF Good
    <3> QED BY <1>1, <1>2, <1>6, <2>1
  <2>3. after[k + 1] = Enqueued(after[k], s)
    BY <1>1, <2>2
  <2>4. /\ Elems(after[k + 1].pending) \subseteq Elems(after[k].pending) \cup {s}
        /\ after[k].capped \subseteq after[k + 1].capped
        /\ s \in Elems(after[k + 1].pending) \cup after[k + 1].capped
        /\ \A t \in Elems(after[k].pending) :
               t \in Elems(after[k + 1].pending) \cup after[k + 1].capped \/ Supersedes(s, t)
    <3> DEFINE p == after[k]
    <3>1. p \in Queue /\ s \in Seqs /\ after[k + 1] = Enqueued(p, s)
      BY <1>2, <2>2, <2>3
    <3> HIDE DEF p, s
    <3>2. /\ Elems(Enqueued(p, s).pending) \subseteq Elems(p.pending) \cup {s}
          /\ p.capped \subseteq Enqueued(p, s).capped
          /\ s \in Elems(Enqueued(p, s).pending) \cup Enqueued(p, s).capped
          /\ \A t \in Elems(p.pending) :
                 t \in Elems(Enqueued(p, s).pending) \cup Enqueued(p, s).capped
                 \/ Supersedes(s, t)
      BY <3>1, EnqueuedProperties
    <3> QED BY <3>1, <3>2 DEF p
  <2>5. Seen(k + 1) = Seen(k) \cup {s}
    <3>1. 1..(k + 1) = 1..k \cup {k + 1}
      BY <2>2
    <3> QED BY <3>1
  <2>6. ASSUME NEW t \in Seen(k), Supersedes(s, t) PROVE Superseded(t)
    <3>1. s \in Seqs /\ t \in Seqs /\ s \in Elems(batch)
      BY <1>2, <1>4, <2>2
    <3>2. IsStatus(s) /\ IsStatus(t) /\ Supersedes(t, s)
      BY <1>3, <2>6, <3>1
    <3>3. t < s
      <4>1. CASE t \in Elems(q.pending)
        BY <1>2, <2>2, <4>1
      <4>2. CASE t \notin Elems(q.pending)
        <5>1. PICK j \in 1..k : t = batch[j]
          BY <2>6, <4>2
        <5>2. j \in DOMAIN batch /\ k + 1 \in DOMAIN batch /\ j < k + 1
          BY <1>2, <2>2
        <5> QED BY <3>2, <5>1, <5>2
      <4> QED BY <4>1, <4>2
    <3>4. s > t
      BY <3>1, <3>3
    <3> QED BY <3>1, <3>2, <3>4
  <2> HIDE DEF s, Seen, Superseded
  <2>7. ASSUME NEW t \in Seen(k)
        PROVE  t \in Elems(after[k + 1].pending) \cup after[k + 1].capped \/ Superseded(t)
    BY <2>2, <2>4, <2>6
  <2> QED BY <2>2, <2>4, <2>5, <2>7
<1>7. n \in S
  <2> HIDE DEF S
  <2> QED BY <1>2, <1>5, <1>6, SetInduction
<1>8. Seen(n) = Elems(q.pending) \cup Elems(batch)
  BY <1>2 DEF Elems
<1> QED
  BY <1>2, <1>7, <1>8 DEF after, n

-----------------------------------------------------------------------------
(* What a drain takes from the buffer.                                     *)

\* The elements of a filtered buffer keep their order.
LEMMA FilterInLogOrder ==
    ASSUME NEW items \in Seq(Item), InLogOrder(items), NEW S
    PROVE  /\ Filter(items, S) \in Seq(Item)
           /\ Elems(Filter(items, S)) = Elems(items) \cap S
           /\ InLogOrder(Filter(items, S))
<1> DEFINE f == Filter(items, S)
<1>1. f \in Seq(Item) /\ Elems(f) = Elems(items) \cap S
  BY FilterProperties, FilterElems
<1>2. PICK pos \in [DOMAIN f -> {i \in DOMAIN items : items[i] \in S}] :
          /\ \A k \in DOMAIN f : f[k] = items[pos[k]]
          /\ \A j, k \in DOMAIN f : j < k => pos[j] < pos[k]
  BY FilterPositions
<1> HIDE DEF f
<1>3. InLogOrder(f)
  BY <1>2 DEF InLogOrder
<1> QED
  BY <1>1, <1>3 DEF f

\* The sequence numbers of a sequence of items.
SeqsOf(items) == [k \in DOMAIN items |-> items[k].seq]

\* They are events, as many as the items, and in the same order.
LEMMA SeqsOfProperties ==
    ASSUME NEW items \in Seq(Item)
    PROVE  /\ SeqsOf(items) \in Seq(Seqs)
           /\ Elems(SeqsOf(items)) = {item.seq : item \in Elems(items)}
<1>1. \A k \in DOMAIN items : items[k] \in Item /\ items[k].seq \in Seqs
  BY DEF Item
<1>2. SeqsOf(items) \in [1..Len(items) -> Seqs] /\ Len(items) \in Nat
  BY <1>1 DEF SeqsOf
<1>3. SeqsOf(items) \in Seq(Seqs) /\ DOMAIN SeqsOf(items) = DOMAIN items
  BY <1>2
<1> QED
  BY <1>3 DEF Elems, SeqsOf

\* A batch has the messages with a body and the life cycle of the fresh items,
\* its statuses in the order of the log.
LEMMA BatchProperties ==
    ASSUME NEW fresh \in Seq(Item), InLogOrder(fresh)
    PROVE  /\ Batch(fresh) \in Seq(Seqs)
           /\ Elems(Batch(fresh)) \subseteq {item.seq : item \in Elems(fresh)}
           /\ \A item \in Elems(fresh) :
                  IsLifecycle(item.seq) => item.seq \in Elems(Batch(fresh))
           /\ \A j, k \in DOMAIN Batch(fresh) :
                  j < k /\ IsStatus(Batch(fresh)[j]) /\ IsStatus(Batch(fresh)[k])
                  => Batch(fresh)[j] < Batch(fresh)[k]
<1> DEFINE bodies == {item \in ToSet(fresh) : item.body}
           events == {item \in ToSet(fresh) : IsLifecycle(item.seq)}
           m == Filter(fresh, bodies)
           l == Filter(fresh, events)
           batch == Batch(fresh)
<1>0. ToSet(fresh) = Elems(fresh)
  BY DEF ToSet, Elems
<1>1. batch = SeqsOf(m) \o SeqsOf(l)
  BY DEF Batch, SeqsOf
<1>2. /\ m \in Seq(Item) /\ Elems(m) = Elems(fresh) \cap bodies
      /\ l \in Seq(Item) /\ Elems(l) = Elems(fresh) \cap events /\ InLogOrder(l)
  <2> HIDE DEF bodies, events
  <2> QED BY FilterInLogOrder
<1>3. \A item \in Elems(m) : ~IsLifecycle(item.seq)
  <2>1. \A item \in Elems(m) : item \in Item /\ item.body
    BY <1>2, ElemsType
  <2> QED BY <2>1 DEF Item
<1>4. /\ \A item \in Elems(m) \cup Elems(l) : item \in Elems(fresh)
      /\ \A item \in Elems(fresh) : IsLifecycle(item.seq) => item \in Elems(l)
  BY <1>0, <1>2
<1> HIDE DEF batch, m, l
<1> DEFINE sm == SeqsOf(m)
           sl == SeqsOf(l)
<1>5. /\ sm \in Seq(Seqs) /\ Elems(sm) = {item.seq : item \in Elems(m)}
      /\ sl \in Seq(Seqs) /\ Elems(sl) = {item.seq : item \in Elems(l)}
  BY <1>2, SeqsOfProperties
<1>6. batch \in Seq(Seqs) /\ Elems(batch) = Elems(sm) \cup Elems(sl)
  <2>1. batch = sm \o sl
    BY <1>1
  <2> HIDE DEF sm, sl
  <2>2. sm \o sl \in Seq(Seqs) /\ Elems(sm \o sl) = Elems(sm) \cup Elems(sl)
    BY <1>5, ConcatElems
  <2> QED BY <2>1, <2>2
<1>7. \A j, k \in DOMAIN sl : j < k => sl[j] < sl[k]
  BY <1>2 DEF SeqsOf, InLogOrder
<1>8. \A k \in DOMAIN sm : ~IsStatus(sm[k])
  <2>1. \A s \in Elems(sm) : ~IsStatus(s)
    BY <1>3, <1>5 DEF IsStatus, IsLifecycle
  <2> QED BY <2>1 DEF Elems
<1> HIDE DEF sm, sl
<1>9. ASSUME NEW j \in DOMAIN batch, NEW k \in DOMAIN batch, j < k,
             IsStatus(batch[j]), IsStatus(batch[k])
      PROVE  batch[j] < batch[k]
  <2>1. /\ Len(sm) \in Nat /\ Len(sl) \in Nat /\ DOMAIN sm = 1..Len(sm)
        /\ DOMAIN sl = 1..Len(sl) /\ DOMAIN batch = 1..(Len(sm) + Len(sl))
        /\ \A i \in 1..(Len(sm) + Len(sl)) :
               batch[i] = IF i <= Len(sm) THEN sm[i] ELSE sl[i - Len(sm)]
    BY <1>1, <1>5, ConcatProperties DEF sm, sl
  <2>2. ~(j <= Len(sm)) /\ ~(k <= Len(sm))
    BY <1>8, <1>9, <2>1
  <2>3. /\ j - Len(sm) \in DOMAIN sl /\ k - Len(sm) \in DOMAIN sl
        /\ j - Len(sm) < k - Len(sm)
    BY <1>9, <2>1, <2>2
  <2> QED BY <1>7, <2>1, <2>2, <2>3
<1>10. Elems(batch) \subseteq {item.seq : item \in Elems(fresh)}
  BY <1>4, <1>5, <1>6
<1>11. \A item \in Elems(fresh) : IsLifecycle(item.seq) => item.seq \in Elems(batch)
  BY <1>4, <1>5, <1>6
<1> QED
  BY <1>6, <1>9, <1>10, <1>11 DEF batch

-----------------------------------------------------------------------------
(* The types.                                                              *)

\* The conversation's part of the type invariant.
TurnTypeOK ==
    /\ pending \in Seq(Seqs)
    /\ given \in SUBSET Seqs
    /\ status \in {"Success", "InProgress", "Waiting", "Stopped"}
    /\ stream \in {"None", "Open", "Finished"}
    /\ wait \in {"None", "Pending", "Fired"}

\* The cursors' part.
CursorTypeOK ==
    /\ cursor \in Cursors
    /\ saved \in Cursors
    /\ started \in Cursors
    /\ enqueued \in SUBSET Seqs
    /\ capped \in SUBSET Seqs
    /\ repeated \in BOOLEAN

\* The connection's part: nothing is buffered without a connection, and what is
\* buffered is in the order of the log and not beyond the driver's cursor.
ConnectionTypeOK ==
    /\ connection \in {NoConnection} \cup [since : Cursors, at : Cursors \cup {-1}]
    /\ buffer \in Seq(Item)
    /\ InLogOrder(buffer)
    /\ Connected => consumer /\ connection.at <= connection.since
    /\ ~Connected => buffer = <<>>
    /\ \A item \in Elems(buffer) : item.seq <= connection.since

(***************************************************************************)
(* The type invariant of AgentEvents.  The order of the buffer belongs to  *)
(* it because the types of a drain's results follow from it.               *)
(***************************************************************************)
EventsTypeOK ==
    /\ log \in [Seqs -> EventTypes]
    /\ consumer \in BOOLEAN /\ parent \in BOOLEAN
    /\ fetches \in SUBSET [kind : {"Harness", "Wait", "Restore"}, base : Cursors]
    /\ setBacks \in 0..MaxSetBacks
    /\ TurnTypeOK
    /\ CursorTypeOK
    /\ ConnectionTypeOK

\* The larger of two natural numbers.
LEMMA MaximumOfTwo ==
    ASSUME NEW a \in Nat, NEW b \in Nat
    PROVE  /\ Maximum({a, b}) \in {a, b}
           /\ a <= Maximum({a, b}) /\ b <= Maximum({a, b})
<1>1. \E m \in {a, b} : \A n \in {a, b} : n <= m
  OBVIOUS
<1> QED
  BY <1>1 DEF Maximum

\* The largest of three.
LEMMA MaximumOfThree ==
    ASSUME NEW a \in Nat, NEW b \in Nat, NEW c \in Nat
    PROVE  /\ Maximum({a, b, c}) \in {a, b, c}
           /\ a <= Maximum({a, b, c}) /\ b <= Maximum({a, b, c}) /\ c <= Maximum({a, b, c})
<1>1. \E m \in {a, b, c} : \A n \in {a, b, c} : n <= m
  OBVIOUS
<1> QED
  BY <1>1 DEF Maximum

\* However a step of the conversation ends, what was queued is queued or given.
LEMMA EventsReadyKeeps ==
    ASSUME TurnTypeOK, NEW queued \in Seq(Seqs),
           NEW newStatus \in {"Success", "InProgress", "Waiting", "Stopped"},
           NEW newStream \in {"None", "Open", "Finished"},
           NEW newWait \in {"None", "Pending", "Fired"},
           \/ EventsReady(queued, newStatus, newStream, newWait)
           \/ Sends(queued)
           \/ Stays(queued, newStatus, newStream, newWait)
    PROVE  /\ TurnTypeOK'
           /\ given \subseteq given'
           /\ Elems(pending') \subseteq Elems(queued)
           /\ given' \cup Elems(pending') = given \cup Elems(queued)
<1>1. Sends(queued) \/ Stays(queued, newStatus, newStream, newWait)
  BY DEF EventsReady
<1>2. CASE Sends(queued)
  <2>1. /\ given' = given \cup Elems(queued) /\ pending' = <<>>
        /\ status' = "InProgress" /\ stream' = "Open" /\ wait' = "None"
    BY <1>2 DEF Sends, ToSet, Elems
  <2>2. Elems(queued) \subseteq Seqs /\ Elems(<<>>) = {} /\ <<>> \in Seq(Seqs)
    BY ElemsType DEF Elems
  <2> QED BY <2>1, <2>2 DEF TurnTypeOK
<1>3. CASE Stays(queued, newStatus, newStream, newWait)
  BY <1>3 DEF Stays, TurnTypeOK
<1> QED
  BY <1>1, <1>2, <1>3

\* What a drain takes: the items beyond the cursor, in order.
LEMMA FreshProperties ==
    ASSUME ConnectionTypeOK, NEW at
    PROVE  /\ Fresh(at) \in Seq(Item)
           /\ InLogOrder(Fresh(at))
           /\ Elems(Fresh(at)) = {item \in Elems(buffer) : item.seq > at}
<1> DEFINE beyond == {item \in ToSet(buffer) : item.seq > at}
<1>1. /\ Filter(buffer, beyond) \in Seq(Item)
      /\ Elems(Filter(buffer, beyond)) = Elems(buffer) \cap beyond
      /\ InLogOrder(Filter(buffer, beyond))
  <2> HIDE DEF beyond
  <2> QED BY FilterInLogOrder DEF ConnectionTypeOK
<1>2. Elems(buffer) \cap beyond = {item \in Elems(buffer) : item.seq > at}
  BY DEF Elems, ToSet
<1> QED
  BY <1>1, <1>2 DEF Fresh

\* Where a drain leaves the cursor: at the given sequence, at the saved one or
\* at an item of the buffer, and not before any item it took.
LEMMA DrainCursor ==
    ASSUME CursorTypeOK, ConnectionTypeOK, NEW at \in Cursors, Drain(at)
    PROVE  /\ cursor' \in Cursors
           /\ cursor' \in {at, saved} \cup {item.seq : item \in Elems(buffer)}
           /\ saved' \in {saved, cursor'}
           /\ at <= cursor'
           /\ \A item \in Elems(buffer) : item.seq > at => item.seq <= cursor'
<1> DEFINE fresh == Fresh(at)
<1>1. /\ fresh \in Seq(Item) /\ InLogOrder(fresh)
      /\ Elems(fresh) = {item \in Elems(buffer) : item.seq > at}
  BY FreshProperties
<1>2. IF fresh = <<>> THEN cursor' = at /\ saved' = saved
      ELSE cursor' = EffectiveSequence(fresh, at) /\ saved' = cursor'
  BY DEF Drain
<1>3. at \in Nat /\ saved \in Nat /\ MaxEvents \in Nat
  BY BoundsAreNat DEF Cursors, CursorTypeOK
<1> HIDE DEF fresh
<1>4. CASE fresh = <<>>
  <2>1. Elems(fresh) = {}
    BY <1>4 DEF Elems
  <2> QED BY <1>1, <1>2, <1>3, <1>4, <2>1
<1>5. CASE fresh # <<>>
  <2>1. /\ Len(fresh) \in DOMAIN fresh
        /\ fresh[Len(fresh)] \in Elems(fresh)
        /\ \A k \in DOMAIN fresh : k = Len(fresh) \/ k < Len(fresh)
    BY <1>1, <1>5 DEF Elems
  <2>2. \A item \in Elems(fresh) : item.seq \in Nat /\ item.seq \in Cursors
    <3>1. \A item \in Elems(fresh) : item \in Item
      BY <1>1, ElemsType
    <3> QED BY <1>3, <3>1 DEF Item, Seqs, Cursors
  <2> DEFINE last == fresh[Len(fresh)].seq
  <2>3. last \in Nat /\ last \in Cursors
    BY <2>1, <2>2
  <2>4. \A item \in Elems(fresh) : item.seq <= last
    <3>1. \A k \in DOMAIN fresh : fresh[k].seq \in Nat
      BY <2>2 DEF Elems
    <3>2. \A k \in DOMAIN fresh : fresh[k].seq <= last
      BY <1>1, <2>1, <2>3, <3>1 DEF InLogOrder
    <3> QED BY <3>2 DEF Elems
  <2>5. cursor' = Maximum({last, at, saved}) /\ saved' = cursor'
    BY <1>2, <1>5 DEF EffectiveSequence, Last
  <2>6. last \in {item.seq : item \in Elems(buffer)}
    BY <1>1, <2>1
  <2> HIDE DEF last
  <2>7. /\ cursor' \in {last, at, saved} /\ last <= cursor' /\ at <= cursor'
    BY <1>3, <2>3, <2>5, MaximumOfThree
  <2>8. cursor' \in Cursors /\ cursor' \in Nat
    BY <1>3, <2>3, <2>7 DEF CursorTypeOK
  <2>9. \A item \in Elems(fresh) : item.seq <= cursor'
    BY <2>2, <2>3, <2>4, <2>7, <2>8
  <2> QED BY <1>1, <2>5, <2>6, <2>7, <2>8, <2>9
<1> QED
  BY <1>4, <1>5

\* The batch of a drain and the queue that results from it.
BatchOf(at) == Batch(Fresh(at))
QueueAfter(at) ==
    EnqueuedEach([pending |-> pending, capped |-> capped], BatchOf(at))[Len(BatchOf(at))]

\* The batch is taken from what is buffered beyond the cursor, with all of its
\* life cycle.
LEMMA BatchOfProperties ==
    ASSUME ConnectionTypeOK, NEW at
    PROVE  /\ BatchOf(at) \in Seq(Seqs)
           /\ \A s \in Elems(BatchOf(at)) : \E item \in Elems(buffer) :
                  item.seq = s /\ s > at
           /\ \A item \in Elems(buffer) :
                  item.seq > at /\ IsLifecycle(item.seq) => item.seq \in Elems(BatchOf(at))
           /\ \A j, k \in DOMAIN BatchOf(at) :
                  j < k /\ IsStatus(BatchOf(at)[j]) /\ IsStatus(BatchOf(at)[k])
                  => BatchOf(at)[j] < BatchOf(at)[k]
<1>1. /\ Fresh(at) \in Seq(Item) /\ InLogOrder(Fresh(at))
      /\ Elems(Fresh(at)) = {item \in Elems(buffer) : item.seq > at}
  BY FreshProperties
<1>2. /\ Batch(Fresh(at)) \in Seq(Seqs)
      /\ Elems(Batch(Fresh(at))) \subseteq {item.seq : item \in Elems(Fresh(at))}
      /\ \A item \in Elems(Fresh(at)) :
             IsLifecycle(item.seq) => item.seq \in Elems(Batch(Fresh(at)))
      /\ \A j, k \in DOMAIN Batch(Fresh(at)) :
             j < k /\ IsStatus(Batch(Fresh(at))[j]) /\ IsStatus(Batch(Fresh(at))[k])
             => Batch(Fresh(at))[j] < Batch(Fresh(at))[k]
  BY <1>1, BatchProperties
<1> QED
  BY <1>1, <1>2 DEF BatchOf

\* A drain adds its batch to the queue, and what it leaves there is queued or
\* given to the agent.
LEMMA DrainKeeps ==
    ASSUME TurnTypeOK, CursorTypeOK, ConnectionTypeOK, NEW at \in Cursors, Drain(at)
    PROVE  /\ QueueAfter(at) \in Queue
           /\ buffer' = <<>>
           /\ enqueued' = enqueued \cup Elems(BatchOf(at))
           /\ enqueued' \in SUBSET Seqs
           /\ repeated' \in BOOLEAN
           /\ capped' = QueueAfter(at).capped
           /\ TurnTypeOK'
           /\ given \subseteq given'
           /\ Elems(pending') \subseteq Elems(QueueAfter(at).pending)
           /\ given' \cup Elems(pending') = given \cup Elems(QueueAfter(at).pending)
<1> DEFINE batch == BatchOf(at)
           q == [pending |-> pending, capped |-> capped]
           r == QueueAfter(at)
<1>1. batch \in Seq(Seqs) /\ Elems(batch) \subseteq Seqs
  BY BatchOfProperties, ElemsType
<1>2. q \in Queue
  BY DEF Queue, TurnTypeOK, CursorTypeOK
<1>3. r \in Queue /\ (batch = <<>> => r = q)
  <2>1. EnqueuedEach(q, batch)[0] = q
    BY <1>1, <1>2, EnqueuedEachSteps
  <2>2. r = EnqueuedEach(q, batch)[Len(batch)]
    BY DEF QueueAfter
  <2>3. EnqueuedEach(q, batch)[Len(batch)] \in Queue
    BY <1>1, <1>2, EnqueuedEachBounds
  <2> QED BY <2>1, <2>2, <2>3
<1>4. /\ buffer' = <<>>
      /\ enqueued' = enqueued \cup ToSet(batch)
      /\ repeated' = (repeated \/ ToSet(batch) \cap enqueued # {})
      /\ capped' = r.capped
      /\ IF batch = <<>> THEN UNCHANGED <<pending, turn>>
         ELSE EventsReady(r.pending, status, stream, wait)
  BY DEF Drain, QueueAfter, BatchOf
<1>5. ToSet(batch) = Elems(batch)
  BY DEF ToSet, Elems
<1>6. enqueued' = enqueued \cup Elems(batch) /\ enqueued' \in SUBSET Seqs
  BY <1>1, <1>4, <1>5 DEF CursorTypeOK
<1>7. /\ TurnTypeOK'
      /\ given \subseteq given'
      /\ Elems(pending') \subseteq Elems(r.pending)
      /\ given' \cup Elems(pending') = given \cup Elems(r.pending)
  <2>1. CASE batch = <<>>
    <3>1. r.pending = pending
      BY <1>3, <2>1
    <3>2. UNCHANGED <<pending, given, status, stream, wait>>
      BY <1>4, <2>1 DEF turn
    <3> QED BY <3>1, <3>2 DEF TurnTypeOK
  <2>2. CASE batch # <<>>
    <3>1. r.pending \in Seq(Seqs)
      BY <1>3 DEF Queue
    <3>2. EventsReady(r.pending, status, stream, wait)
      BY <1>4, <2>2
    <3> HIDE DEF r
    <3> QED BY <3>1, <3>2, EventsReadyKeeps DEF TurnTypeOK
  <2> QED BY <2>1, <2>2
<1> QED
  BY <1>3, <1>4, <1>6, <1>7

\* The items that may be buffered depend on the log only, which is fixed.
LEMMA ItemsStay ==
    ASSUME log' = log PROVE Item' = Item
BY DEF Item, IsLifecycle

\* With nothing buffered any connection of a consumer will do, and none.
LEMMA EmptyBufferType ==
    ASSUME buffer' = <<>>, NEW since \in Cursors,
           connection' \in {NoConnection, Connection(since)},
           connection' # NoConnection => consumer'
    PROVE  ConnectionTypeOK'
<1>1. MaxEvents \in Nat /\ since \in Nat
  BY BoundsAreNat DEF Cursors
<1>2. /\ Connection(since) \in [since : Cursors, at : Cursors \cup {-1}]
      /\ Connection(since).at <= Connection(since).since
  BY <1>1 DEF Connection
<1>3. Elems(<<>>) = {} /\ InLogOrder(<<>>) /\ \A S : <<>> \in Seq(S)
  BY DEF Elems, InLogOrder
<1>4. buffer' \in Seq(Item') /\ InLogOrder(buffer)' /\ Elems(buffer)' = {}
  BY <1>3
<1>5. Connected' => connection' = Connection(since) /\ consumer'
  BY DEF Connected
<1> QED
  BY <1>2, <1>4, <1>5 DEF ConnectionTypeOK, Connected

\* The connection's types concern only the connection, its buffer and consumer.
LEMMA ConnectionTypeStays ==
    ASSUME ConnectionTypeOK, UNCHANGED <<log, consumer, connection, buffer>>
    PROVE  ConnectionTypeOK'
BY ItemsStay DEF ConnectionTypeOK, Connected, InLogOrder

\* The initial state has the types.
LEMMA InitType == Init => EventsTypeOK
<1> SUFFICES ASSUME Init PROVE EventsTypeOK
  OBVIOUS
<1>1. MaxEvents \in Nat /\ MaxSetBacks \in Nat
  BY BoundsAreNat
<1>2. Elems(<<>>) = {} /\ InLogOrder(<<>>) /\ \A S : <<>> \in Seq(S)
  BY DEF Elems, InLogOrder
<1>3. ConnectionTypeOK
  BY <1>2 DEF Init, ConnectionTypeOK, Connected
<1>4. TurnTypeOK
  BY <1>2 DEF Init, TurnTypeOK
<1>5. {repeated, consumer, parent} \subseteq BOOLEAN
  BY Zenon DEF Init
<1>6. 0 \in Cursors /\ cursor = 0 /\ saved = 0 /\ started = 0
  BY <1>1 DEF Init, Cursors
<1>7. CursorTypeOK
  BY <1>5, <1>6 DEF Init, CursorTypeOK
<1>8. log \in [Seqs -> EventTypes] /\ fetches = {} /\ setBacks \in 0..MaxSetBacks
  BY <1>1, LogsAssumption DEF Init, Seqs
<1> QED
  BY <1>3, <1>4, <1>5, <1>7, <1>8 DEF EventsTypeOK

\* The steps of the driver: at most one event is appended, the next one.
LEMMA DriverType ==
    ASSUME EventsTypeOK, StreamOpens \/ StreamBreaks \/ EventArrives \/ EventIsSkipped
    PROVE  EventsTypeOK'
<1>1. /\ UNCHANGED <<log, watch, fetches, cursors, queue, turn, started, setBacks>>
      /\ Connected
  BY DEF StreamOpens, StreamBreaks, EventArrives, EventIsSkipped
<1>2. /\ connection \in [since : Cursors, at : Cursors \cup {-1}]
      /\ connection.at <= connection.since /\ consumer
      /\ connection.since \in Nat /\ MaxEvents \in Nat
      /\ connection.at \in Nat \cup {-1}
  BY <1>1, BoundsAreNat DEF EventsTypeOK, ConnectionTypeOK, Connected, Cursors
<1>3. /\ buffer \in Seq(Item) /\ InLogOrder(buffer)
      /\ \A item \in Elems(buffer) : item.seq <= connection.since
  BY DEF EventsTypeOK, ConnectionTypeOK
<1>4. Item' = Item
  BY <1>1, ItemsStay
<1>5. Len(log) = MaxEvents /\ log \in [Seqs -> EventTypes]
  BY <1>2 DEF EventsTypeOK, Seqs
<1>6. ConnectionTypeOK'
  <2>1. ASSUME UNCHANGED buffer,
               connection' \in [since : Cursors, at : Cursors \cup {-1}],
               connection'.at <= connection'.since, connection'.since = connection.since
        PROVE  ConnectionTypeOK'
    <3>1. connection'.since # -1
      BY <1>2, <2>1
    <3>2. Connected'
      BY <3>1 DEF Connected, NoConnection
    <3>3. consumer'
      BY <1>1, <1>2 DEF watch
    <3> QED BY <1>3, <1>4, <2>1, <3>2, <3>3 DEF ConnectionTypeOK, InLogOrder
  <2>2. CASE StreamOpens
    <3>1. PICK at \in {connection.since, connection.since - 1} \cap Nat :
              connection' = [connection EXCEPT !.at = at]
      BY <2>2 DEF StreamOpens
    <3>2. at <= connection.since /\ at \in Cursors
      BY <1>2, <3>1 DEF Cursors
    <3>3. connection' = [since |-> connection.since, at |-> at]
      BY <1>2, <3>1
    <3>4. UNCHANGED buffer
      BY <2>2 DEF StreamOpens
    <3> QED BY <1>2, <2>1, <3>2, <3>3, <3>4
  <2>3. CASE StreamBreaks
    BY <1>2, <2>1, <2>3 DEF StreamBreaks, Connection
  <2>4. CASE EventIsSkipped
    <3>1. connection' = [since |-> connection.since, at |-> connection.at + 1]
      BY <1>2, <2>4 DEF EventIsSkipped
    <3>2. connection.at + 1 \in Nat /\ connection.at + 1 <= MaxEvents
      BY <1>2, <1>5, <2>4 DEF EventIsSkipped
    <3>3. connection.at + 1 <= connection.since /\ UNCHANGED buffer
      BY <2>4 DEF EventIsSkipped, Skips
    <3> QED BY <1>2, <2>1, <3>1, <3>2, <3>3 DEF Cursors
  <2>5. CASE EventArrives
    <3> DEFINE s == connection.at + 1
    <3>1. /\ s \in Seqs /\ s > connection.since /\ s \in Nat
          /\ connection' = [since |-> s, at |-> s]
      BY <1>2, <1>5, <2>5 DEF EventArrives, Skips, Seqs
    <3>2. PICK body \in {FALSE, log[s].kind = "Message"} :
              buffer' = Append(buffer, [seq |-> s, body |-> body])
      BY <2>5 DEF EventArrives
    <3> DEFINE new == [seq |-> s, body |-> body]
    <3> HIDE DEF s
    <3>3. new \in Item
      BY <3>1, <3>2 DEF Item, IsLifecycle
    <3>4. buffer' \in Seq(Item) /\ Elems(buffer') = Elems(buffer) \cup {new}
      BY <1>3, <3>2, <3>3, AppendElems
    <3>5. \A item \in Elems(buffer) : item.seq \in Nat /\ item.seq < s
      <4>1. \A item \in Elems(buffer) : item \in Item
        BY <1>3, ElemsType
      <4> QED BY <1>2, <1>3, <3>1, <4>1 DEF Item, Seqs
    <3>6. InLogOrder(buffer')
      <4>1. /\ Len(buffer) \in Nat /\ DOMAIN buffer = 1..Len(buffer)
            /\ DOMAIN buffer' = 1..(Len(buffer) + 1)
            /\ \A k \in DOMAIN buffer : buffer'[k] = buffer[k]
            /\ buffer'[Len(buffer) + 1] = new
        BY <1>3, <3>2, <3>3
      <4>2. \A k \in DOMAIN buffer : buffer[k].seq < s
        BY <3>5 DEF Elems
      <4>3. new.seq = s
        OBVIOUS
      <4> HIDE DEF new
      <4>4. \A j, k \in DOMAIN buffer' : j < k =>
                j \in DOMAIN buffer /\ (k \in DOMAIN buffer \/ k = Len(buffer) + 1)
        BY <4>1
      <4> QED BY <1>3, <4>1, <4>2, <4>3, <4>4 DEF InLogOrder
    <3>7. \A item \in Elems(buffer') : item.seq <= s
      <4>1. \A item \in Elems(buffer) : item.seq <= s
        BY <3>1, <3>5
      <4> QED BY <3>1, <3>4, <4>1
    <3>8. Connected' /\ consumer'
      BY <1>1, <1>2, <3>1 DEF Connected, NoConnection, watch
    <3>9. connection' \in [since : Cursors, at : Cursors \cup {-1}] /\ connection'.at <= connection'.since
      BY <3>1 DEF Cursors, Seqs
    <3> QED BY <1>4, <3>1, <3>4, <3>6, <3>7, <3>8, <3>9 DEF ConnectionTypeOK, InLogOrder
  <2> QED BY <2>2, <2>3, <2>4, <2>5
<1> QED
  BY <1>1, <1>6 DEF EventsTypeOK, TurnTypeOK, CursorTypeOK, watch, cursors, queue, turn

(***************************************************************************)
(* What the steps of the streamer have in common: the cursor is drained to *)
(* or set to a known sequence (that of the cursors or of a fetch), it is   *)
(* not set back without being counted, and a connection is kept, ended or  *)
(* replaced by one that starts at the cursor with an empty buffer.         *)
(***************************************************************************)
StreamerStep(at) ==
    /\ \/ Drain(at)
       \/ cursor' = at /\ UNCHANGED <<buffer, saved, enqueued, repeated, queue, turn>>
    /\ UNCHANGED <<log, started>>
    /\ consumer' \in BOOLEAN /\ parent' \in BOOLEAN
    /\ setBacks' \in setBacks..MaxSetBacks
    /\ at < cursor => setBacks' > 0
    /\ \E known \in {cursor, saved, started} \cup {fetch.base : fetch \in fetches} :
           at <= known
    /\ fetches' \subseteq fetches \cup {[kind |-> "Harness", base |-> cursor]}
    /\ \/ UNCHANGED <<consumer, connection>>
       \/ /\ buffer' = <<>>
          /\ connection' \in {NoConnection, Connection(cursor')}
          /\ connection' # NoConnection => consumer'

\* A drain, or none, at the cursor itself.
LEMMA StreamerStepAtCursor ==
    ASSUME EventsTypeOK,
           Drain(cursor) \/ UNCHANGED <<buffer, cursors, queue, turn>>,
           UNCHANGED <<log, started, setBacks>>,
           consumer' \in BOOLEAN, parent' \in BOOLEAN,
           fetches' \subseteq fetches \cup {[kind |-> "Harness", base |-> cursor]},
           \/ UNCHANGED <<consumer, connection>>
           \/ /\ buffer' = <<>>
              /\ connection' \in {NoConnection, Connection(cursor')}
              /\ connection' # NoConnection => consumer'
    PROVE  StreamerStep(cursor)
<1>1. cursor \in Nat /\ MaxSetBacks \in Nat /\ setBacks \in 0..MaxSetBacks
  BY BoundsAreNat DEF EventsTypeOK, CursorTypeOK, Cursors
<1>2. setBacks' \in setBacks..MaxSetBacks /\ ~(cursor < cursor) /\ cursor <= cursor
  BY <1>1
<1> QED
  BY <1>2 DEF StreamerStep, cursors, queue, turn

\* The steps of the streamer are such steps.
LEMMA StreamerSteps ==
    ASSUME EventsTypeOK,
           \/ DrainTimer \/ RegisterConsumer \/ UnregisterConsumer
           \/ WatchChild \/ FetchAnswers
    PROVE  \E at \in Cursors : StreamerStep(at)
<1>1. /\ cursor \in Cursors /\ saved \in Cursors /\ started \in Cursors
      /\ consumer \in BOOLEAN /\ parent \in BOOLEAN
      /\ Connected => consumer
      /\ ~Connected => buffer = <<>>
  BY DEF EventsTypeOK, CursorTypeOK, ConnectionTypeOK
<1>2. cursor \in Nat /\ saved \in Nat /\ started \in Nat /\ MaxEvents \in Nat
  BY <1>1, BoundsAreNat DEF Cursors
<1>3. ASSUME NEW at, Drain(at) PROVE buffer' = <<>>
  BY <1>3 DEF Drain
<1>4. CASE DrainTimer
  <2>1. StreamerStep(cursor)
    BY <1>1, <1>4, StreamerStepAtCursor DEF DrainTimer, watch
  <2> QED BY <1>1, <2>1
<1>5. CASE RegisterConsumer
  <2>1. /\ UNCHANGED <<log, parent, buffer, cursors, queue, turn, started, setBacks>>
        /\ consumer' = TRUE /\ buffer = <<>>
        /\ fetches' \subseteq fetches \cup {[kind |-> "Harness", base |-> cursor]}
    BY <1>1, <1>5 DEF RegisterConsumer
  <2>2. /\ connection' \in {NoConnection, Connection(cursor')}
        /\ connection' # NoConnection => consumer'
    BY <1>5, <2>1 DEF RegisterConsumer, cursors
  <2>3. consumer' \in BOOLEAN
    BY <2>1, Zenon
  <2>4. StreamerStep(cursor)
    BY <1>1, <2>1, <2>2, <2>3, StreamerStepAtCursor
  <2> QED BY <1>1, <2>4
<1>6. CASE UnregisterConsumer
  <2>1. /\ UNCHANGED <<log, parent, fetches, started, setBacks>>
        /\ consumer' = FALSE /\ connection' = NoConnection
        /\ Drain(cursor) \/ (~Connected /\ UNCHANGED <<buffer, cursors, queue, turn>>)
    BY <1>6 DEF UnregisterConsumer
  <2>2. buffer' = <<>>
    BY <1>1, <1>3, <2>1
  <2>3. consumer' \in BOOLEAN
    BY <2>1, Zenon
  <2>4. StreamerStep(cursor)
    BY <1>1, <2>1, <2>2, <2>3, StreamerStepAtCursor
  <2> QED BY <1>1, <2>4
<1>7. CASE WatchChild
  <2>1. /\ UNCHANGED <<log, consumer, fetches, started, setBacks>>
        /\ parent' = TRUE
        /\ Drain(cursor) \/ (~Connected /\ UNCHANGED <<buffer, cursors, queue, turn>>)
        /\ connection' = IF consumer THEN Connection(cursor') ELSE NoConnection
    BY <1>7 DEF WatchChild
  <2>2. buffer' = <<>>
    BY <1>1, <1>3, <2>1
  <2>3. parent' \in BOOLEAN
    BY <2>1, Zenon
  <2>4. StreamerStep(cursor)
    BY <1>1, <2>1, <2>2, <2>3, StreamerStepAtCursor
  <2> QED BY <1>1, <2>4
<1>8. CASE FetchAnswers
  <2>1. PICK fetch \in fetches, sequence \in 0 .. Maximum({started, saved}),
             children \in BOOLEAN :
          LET applied == fetch.kind # "Wait" \/ children
              adopts  == children /\ fetch.kind # "Harness" /\ ~parent
              base    == IF applied THEN Maximum({BaseOf(fetch), sequence}) ELSE cursor
          IN  (/\ base < cursor => setBacks < MaxSetBacks
               /\ fetches' = fetches \ {fetch}
               /\ parent' = (parent \/ adopts)
               /\ setBacks' = IF base < cursor THEN setBacks + 1 ELSE setBacks
               /\ IF adopts /\ Connected
                  THEN /\ Drain(base)
                       /\ connection' = Connection(cursor')
                  ELSE /\ cursor' = base
                       /\ connection' = IF consumer /\ ~Connected /\ (HasParent \/ parent')
                                        THEN Connection(base) ELSE connection
                       /\ UNCHANGED <<buffer, saved, enqueued, repeated, queue, turn>>)
              /\ UNCHANGED <<log, consumer, started>>
    BY <1>8, Zenon DEF FetchAnswers
  <2> DEFINE adopts == children /\ fetch.kind # "Harness" /\ ~parent
             base == IF fetch.kind # "Wait" \/ children
                     THEN Maximum({BaseOf(fetch), sequence}) ELSE cursor
  <2>2. UNCHANGED <<log, consumer, started>>
    BY <2>1
  <2>3. BaseOf(fetch) \in Nat /\ BaseOf(fetch) \in Cursors
        /\ BaseOf(fetch) \in {cursor, fetch.base}
    <3>1. fetch.base \in Cursors
      BY DEF EventsTypeOK
    <3> QED BY <1>1, <1>2, <3>1 DEF BaseOf, Cursors
  <2>4. sequence \in Nat /\ sequence \in Cursors /\ (sequence <= started \/ sequence <= saved)
    <3>1. Maximum({started, saved}) \in {started, saved}
      BY <1>2, MaximumOfTwo
    <3> QED BY <1>1, <1>2, <3>1 DEF Cursors
  <2>5. /\ base \in Cursors /\ base \in Nat
        /\ \E known \in {cursor, saved, started} \cup {f.base : f \in fetches} : base <= known
    <3>1. base \in {BaseOf(fetch), sequence, cursor}
      BY <2>3, <2>4, MaximumOfTwo
    <3>2. base = sequence \/ base \in {cursor, fetch.base}
      BY <2>3, <3>1
    <3> HIDE DEF base
    <3>3. base \in Cursors /\ base \in Nat
      BY <1>1, <1>2, <2>3, <2>4, <3>1
    <3> QED BY <1>2, <2>4, <3>2, <3>3
  <2>6. /\ base < cursor => setBacks < MaxSetBacks
        /\ fetches' = fetches \ {fetch}
        /\ parent' = (parent \/ adopts)
        /\ setBacks' = IF base < cursor THEN setBacks + 1 ELSE setBacks
        /\ IF adopts /\ Connected
           THEN /\ Drain(base)
                /\ connection' = Connection(cursor')
           ELSE /\ cursor' = base
                /\ connection' = IF consumer /\ ~Connected /\ (HasParent \/ parent')
                                 THEN Connection(base) ELSE connection
                /\ UNCHANGED <<buffer, saved, enqueued, repeated, queue, turn>>
    BY <2>1
  <2> HIDE DEF base
  <2>7. setBacks' \in setBacks..MaxSetBacks /\ (base < cursor => setBacks' > 0)
    <3>1. setBacks \in 0..MaxSetBacks /\ MaxSetBacks \in Nat
      BY BoundsAreNat DEF EventsTypeOK
    <3> QED BY <2>6, <3>1
  <2>8. consumer' \in BOOLEAN /\ parent' \in BOOLEAN
    BY <1>1, <2>2, <2>6, Zenon
  <2> HIDE DEF adopts
  <2>9. CASE adopts /\ Connected
    <3>1. Drain(base) /\ connection' = Connection(cursor') /\ consumer'
      BY <1>1, <2>2, <2>6, <2>9
    <3>2. buffer' = <<>>
      BY <1>3, <3>1
    <3> QED BY <2>2, <2>5, <2>6, <2>7, <2>8, <3>1, <3>2 DEF StreamerStep
  <2>10. CASE ~(adopts /\ Connected)
    <3>1. /\ cursor' = base
          /\ UNCHANGED <<buffer, saved, enqueued, repeated, queue, turn>>
          /\ connection' = IF consumer /\ ~Connected /\ (HasParent \/ parent')
                           THEN Connection(base) ELSE connection
      BY <2>6, <2>10
    <3>2. \/ UNCHANGED <<consumer, connection>>
          \/ /\ buffer' = <<>>
             /\ connection' \in {NoConnection, Connection(cursor')}
             /\ connection' # NoConnection => consumer'
      BY <1>1, <2>2, <3>1
    <3> QED BY <2>2, <2>5, <2>6, <2>7, <2>8, <3>1, <3>2 DEF StreamerStep
  <2> QED BY <2>9, <2>10
<1> QED
  BY <1>4, <1>5, <1>6, <1>7, <1>8

(***************************************************************************)
(* What the turns of the conversation have in common: the cursors and the  *)
(* connection stay, and what is queued stays queued or is given.           *)
(***************************************************************************)
TurnStep ==
    /\ UNCHANGED OutsideTurn
    /\ fetches' \subseteq fetches \cup {[kind |-> "Wait", base |-> 0]}
    /\ TurnTypeOK'
    /\ given \subseteq given'
    /\ Elems(pending') \subseteq Elems(pending)
    /\ given' \cup Elems(pending') = given \cup Elems(pending)

\* The turns are such steps.
LEMMA TurnSteps ==
    ASSUME TurnTypeOK,
           \/ StreamFinishes \/ AfterStreamFinished \/ FollowUp \/ FollowUpOfSubagent
           \/ StartWait \/ WatchdogFires \/ WaitCompletes \/ UserQuery \/ UserStops
    PROVE  TurnStep
<1>1. /\ pending \in Seq(Seqs)
      /\ status \in {"Success", "InProgress", "Waiting", "Stopped"}
      /\ stream \in {"None", "Open", "Finished"}
      /\ wait \in {"None", "Pending", "Fired"}
  BY DEF TurnTypeOK
<1>2. /\ UNCHANGED OutsideTurn
      /\ fetches' \subseteq fetches \cup {[kind |-> "Wait", base |-> 0]}
  BY DEF StreamFinishes, AfterStreamFinished, FollowUp, FollowUpOfSubagent,
         StartWait, WatchdogFires, WaitCompletes, UserQuery, UserStops
<1>3. CASE WatchdogFires
  <2>1. UNCHANGED <<pending, given, status, stream>> /\ wait' = WatchdogResult
    BY <1>3 DEF WatchdogFires
  <2>2. wait' \in {"None", "Pending", "Fired"}
    BY <2>1 DEF WatchdogResult
  <2> QED BY <1>2, <2>1, <2>2 DEF TurnStep, TurnTypeOK
<1>4. CASE ~WatchdogFires
  <2>1. \E newStatus \in {"Success", "InProgress", "Waiting", "Stopped"},
           newStream \in {"None", "Open", "Finished"},
           newWait \in {"None", "Pending", "Fired"} :
               \/ EventsReady(pending, newStatus, newStream, newWait)
               \/ Sends(pending)
               \/ Stays(pending, newStatus, newStream, newWait)
    <3>1. CASE StreamFinishes
      BY <1>1, <3>1 DEF StreamFinishes
    <3>2. CASE AfterStreamFinished
      BY <1>1, <3>2 DEF AfterStreamFinished, StreamCleanedUp
    <3>3. CASE FollowUp \/ WaitCompletes
      BY <3>3 DEF FollowUp, WaitCompletes
    <3>4. CASE FollowUpOfSubagent \/ UserQuery
      BY <3>4 DEF FollowUpOfSubagent, UserQuery
    <3>5. CASE StartWait
      BY <3>5 DEF StartWait
    <3>6. CASE UserStops
      BY <3>6 DEF UserStops
    <3> QED BY <1>4, <3>1, <3>2, <3>3, <3>4, <3>5, <3>6
  <2>2. /\ TurnTypeOK'
        /\ given \subseteq given'
        /\ Elems(pending') \subseteq Elems(pending)
        /\ given' \cup Elems(pending') = given \cup Elems(pending)
    BY <1>1, <2>1, EventsReadyKeeps
  <2> QED BY <1>2, <2>2 DEF TurnStep
<1> QED
  BY <1>3, <1>4

\* A step of the streamer keeps the types.
LEMMA StreamerType ==
    ASSUME EventsTypeOK, NEW at \in Cursors, StreamerStep(at)
    PROVE  EventsTypeOK'
<1>1. /\ TurnTypeOK /\ CursorTypeOK /\ ConnectionTypeOK
      /\ setBacks \in 0..MaxSetBacks /\ cursor \in Cursors /\ saved \in Cursors
  BY DEF EventsTypeOK, CursorTypeOK
<1>2. UNCHANGED <<log, started>> /\ setBacks' \in setBacks..MaxSetBacks
  BY DEF StreamerStep
<1>3. /\ TurnTypeOK' /\ cursor' \in Cursors /\ saved' \in Cursors
      /\ enqueued' \in SUBSET Seqs /\ capped' \in SUBSET Seqs /\ repeated' \in BOOLEAN
      /\ buffer' \in {<<>>, buffer}
  <2>1. CASE Drain(at)
    <3>1. /\ TurnTypeOK' /\ buffer' = <<>> /\ enqueued' \in SUBSET Seqs
          /\ repeated' \in BOOLEAN
          /\ QueueAfter(at) \in Queue /\ capped' = QueueAfter(at).capped
      BY <1>1, <2>1, DrainKeeps
    <3>2. cursor' \in Cursors /\ saved' \in {saved, cursor'}
      BY <1>1, <2>1, DrainCursor
    <3>3. capped' \in SUBSET Seqs
      BY <3>1 DEF Queue
    <3> QED BY <1>1, <3>1, <3>2, <3>3
  <2>2. CASE cursor' = at /\ UNCHANGED <<buffer, saved, enqueued, repeated, queue, turn>>
    BY <1>1, <2>2 DEF TurnTypeOK, CursorTypeOK, queue, turn
  <2> QED BY <2>1, <2>2 DEF StreamerStep
<1>4. CursorTypeOK'
  BY <1>1, <1>2, <1>3 DEF CursorTypeOK
<1>5. ConnectionTypeOK'
  <2>1. CASE UNCHANGED <<consumer, connection>>
    <3>1. CASE buffer' = buffer
      BY <1>1, <1>2, <2>1, <3>1, ConnectionTypeStays
    <3>2. CASE buffer' = <<>>
      <4>1. Elems(<<>>) = {} /\ InLogOrder(<<>>) /\ \A S : <<>> \in Seq(S)
        BY DEF Elems, InLogOrder
      <4> QED BY <1>1, <2>1, <3>2, <4>1 DEF ConnectionTypeOK, Connected, InLogOrder
    <3> QED BY <1>3, <3>1, <3>2
  <2>2. CASE /\ buffer' = <<>>
             /\ connection' \in {NoConnection, Connection(cursor')}
             /\ connection' # NoConnection => consumer'
    BY <1>3, <2>2, EmptyBufferType
  <2> QED BY <2>1, <2>2 DEF StreamerStep
<1>6. consumer' \in BOOLEAN /\ parent' \in BOOLEAN
  BY DEF StreamerStep
<1>7. fetches' \in SUBSET [kind : {"Harness", "Wait", "Restore"}, base : Cursors]
  <2>1. [kind |-> "Harness", base |-> cursor]
            \in [kind : {"Harness", "Wait", "Restore"}, base : Cursors]
    BY <1>1
  <2> QED BY <2>1 DEF EventsTypeOK, StreamerStep
<1>8. setBacks' \in 0..MaxSetBacks
  BY <1>1, <1>2
<1> QED
  BY <1>2, <1>3, <1>4, <1>5, <1>6, <1>7, <1>8 DEF EventsTypeOK

\* A turn of the conversation keeps the types.
LEMMA TurnType ==
    ASSUME EventsTypeOK, TurnStep
    PROVE  EventsTypeOK'
<1>1. UNCHANGED <<log, consumer, parent, connection, buffer, cursor, saved, enqueued,
                  repeated, capped, started, setBacks>>
  BY DEF TurnStep, OutsideTurn, watch, cursors
<1>2. ConnectionTypeOK'
  BY <1>1, ConnectionTypeStays DEF EventsTypeOK
<1>3. [kind |-> "Wait", base |-> 0] \in [kind : {"Harness", "Wait", "Restore"}, base : Cursors]
  BY BoundsAreNat DEF Cursors
<1>4. fetches' \in SUBSET [kind : {"Harness", "Wait", "Restore"}, base : Cursors]
  BY <1>3 DEF EventsTypeOK, TurnStep
<1> QED
  BY <1>1, <1>2, <1>4 DEF EventsTypeOK, TurnStep, CursorTypeOK

\* So does a restart.
LEMMA RestartType ==
    ASSUME EventsTypeOK, Restart
    PROVE  EventsTypeOK'
<1>1. saved \in Cursors /\ started \in Cursors /\ log \in [Seqs -> EventTypes]
  BY DEF EventsTypeOK, CursorTypeOK
<1>2. MaxEvents \in Nat /\ MaxSetBacks \in Nat /\ saved \in Nat /\ started \in Nat
  BY <1>1, BoundsAreNat DEF Cursors
<1>3. saved' \in Cursors /\ cursor' = saved'
  BY <1>1, <1>2 DEF Restart, Cursors
<1>4. started' \in Cursors
  BY <1>1, <1>2, MaximumOfTwo DEF Restart
<1>5. repeated' \in BOOLEAN /\ consumer' \in BOOLEAN /\ parent' \in BOOLEAN
  BY Zenon DEF Restart
<1>6. CursorTypeOK'
  BY <1>3, <1>4, <1>5 DEF Restart, CursorTypeOK
<1>7. TurnTypeOK'
  <2>1. <<>> \in Seq(Seqs)
    OBVIOUS
  <2> QED BY <2>1 DEF Restart, TurnTypeOK
<1>8. ConnectionTypeOK'
  BY <1>3, EmptyBufferType DEF Restart
<1>9. fetches' \in SUBSET [kind : {"Harness", "Wait", "Restore"}, base : Cursors]
  BY <1>3 DEF Restart
<1>10. log' \in [Seqs -> EventTypes] /\ setBacks' \in 0..MaxSetBacks
  BY <1>1, <1>2 DEF Restart
<1> QED
  BY <1>5, <1>6, <1>7, <1>8, <1>9, <1>10 DEF EventsTypeOK

\* Every step is one of the driver, of the streamer, of the conversation, a
\* failed fetch, a restart, or none.
LEMMA StepKinds ==
    ASSUME EventsTypeOK, [Next]_vars
    PROVE  \/ StreamOpens \/ StreamBreaks \/ EventArrives \/ EventIsSkipped
           \/ \E at \in Cursors : StreamerStep(at)
           \/ FetchFails
           \/ TurnStep
           \/ Restart
           \/ UNCHANGED vars
<1>1. CASE \/ DrainTimer \/ RegisterConsumer \/ UnregisterConsumer
           \/ WatchChild \/ FetchAnswers
  BY <1>1, StreamerSteps
<1>2. CASE \/ StreamFinishes \/ AfterStreamFinished \/ FollowUp \/ FollowUpOfSubagent
           \/ StartWait \/ WatchdogFires \/ WaitCompletes \/ UserQuery \/ UserStops
  BY <1>2, TurnSteps DEF EventsTypeOK
<1> QED
  BY <1>1, <1>2 DEF Next

(***************************************************************************)
(* The types of AgentEvents are invariant, for every log, queue limit and  *)
(* number of set-backs; among them that the buffer of a connection is in   *)
(* the order of the log and ends at the driver's cursor.                   *)
(***************************************************************************)
THEOREM EventsTypeCorrect == Spec => []EventsTypeOK
<1>1. Init => EventsTypeOK
  BY InitType
<1>2. EventsTypeOK /\ [Next]_vars => EventsTypeOK'
  <2> SUFFICES ASSUME EventsTypeOK, [Next]_vars PROVE EventsTypeOK'
    OBVIOUS
  <2>1. CASE StreamOpens \/ StreamBreaks \/ EventArrives \/ EventIsSkipped
    BY <2>1, DriverType
  <2>2. CASE \E at \in Cursors : StreamerStep(at)
    BY <2>2, StreamerType
  <2>3. CASE TurnStep
    BY <2>3, TurnType
  <2>4. CASE Restart
    BY <2>4, RestartType
  <2>5. CASE FetchFails \/ UNCHANGED vars
    <3>1. /\ fetches' \subseteq fetches
          /\ UNCHANGED <<log, watch, connection, buffer, cursors, queue, turn, started, setBacks>>
      BY <2>5 DEF FetchFails, vars
    <3>2. ConnectionTypeOK'
      BY <3>1, ConnectionTypeStays DEF EventsTypeOK, watch
    <3> QED BY <3>1, <3>2 DEF EventsTypeOK, TurnTypeOK, CursorTypeOK, watch, cursors, queue, turn
  <2> QED BY <2>1, <2>2, <2>3, <2>4, <2>5, StepKinds
<1> QED
  BY <1>1, <1>2, PTL DEF Spec

-----------------------------------------------------------------------------
(* The cursor skips nothing.                                               *)

\* The life cycle up to n, beyond what earlier runs handled, was drained.
Covered(n) == \A s \in started + 1 .. n : IsLifecycle(s) => s \in enqueued

(***************************************************************************)
(* The inductive invariant: not only the cursor but each number that it    *)
(* may be set to is covered (the saved cursor and the base of a fetch),    *)
(* and what the driver's cursor has passed was drained or is buffered.     *)
(***************************************************************************)
CursorInv ==
    /\ Covered(cursor)
    /\ Covered(saved)
    /\ \A fetch \in fetches : Covered(fetch.base)
    /\ Connected => \A s \in started + 1 .. connection.since :
                        IsLifecycle(s) => \/ s \in enqueued
                                          \/ \E item \in Elems(buffer) : item.seq = s

\* It holds initially.
LEMMA InitCursor == Init => CursorInv
<1> SUFFICES ASSUME Init PROVE CursorInv
  OBVIOUS
<1>1. started + 1 .. 0 = {} /\ ~Connected
  BY DEF Init, Connected
<1> QED
  BY <1>1 DEF Init, CursorInv, Covered

\* What was covered stays covered while a run lasts.
LEMMA CoveredStays ==
    ASSUME UNCHANGED <<log, started>>, enqueued \subseteq enqueued', NEW n, Covered(n)
    PROVE  \A s \in started' + 1 .. n : IsLifecycle(s)' => s \in enqueued'
BY DEF Covered, IsLifecycle

\* The driver forwards the event after its cursor and skips only earlier ones.
LEMMA DriverCursor ==
    ASSUME EventsTypeOK, CursorInv,
           StreamOpens \/ StreamBreaks \/ EventArrives \/ EventIsSkipped
    PROVE  CursorInv'
<1>1. /\ UNCHANGED <<log, fetches, cursor, saved, enqueued, started>>
      /\ Connected
  BY DEF StreamOpens, StreamBreaks, EventArrives, EventIsSkipped, cursors
<1>2. /\ connection \in [since : Cursors, at : Cursors \cup {-1}]
      /\ connection.at <= connection.since /\ started \in Nat
      /\ connection.since \in Nat /\ MaxEvents \in Nat
      /\ connection.at \in Nat \cup {-1}
  BY <1>1, BoundsAreNat DEF EventsTypeOK, ConnectionTypeOK, CursorTypeOK, Connected, Cursors
<1>3. \A s \in started + 1 .. connection.since :
          IsLifecycle(s) => s \in enqueued \/ \E item \in Elems(buffer) : item.seq = s
  BY <1>1 DEF CursorInv
<1>4. \A s : IsLifecycle(s)' <=> IsLifecycle(s)
  BY <1>1 DEF IsLifecycle
<1>5. \A s \in started + 1 .. connection'.since :
          IsLifecycle(s) => s \in enqueued \/ \E item \in Elems(buffer') : item.seq = s
  <2>1. CASE StreamOpens \/ StreamBreaks \/ EventIsSkipped
    <3>1. connection'.since = connection.since /\ buffer' = buffer
      BY <1>2, <2>1 DEF StreamOpens, StreamBreaks, EventIsSkipped, Connection
    <3> QED BY <1>3, <3>1
  <2>2. CASE EventArrives
    <3> DEFINE s == connection.at + 1
    <3>1. s = connection.since + 1 /\ connection' = [since |-> s, at |-> s]
      BY <1>2, <2>2 DEF EventArrives, Skips
    <3>2. PICK body \in {FALSE, log[s].kind = "Message"} :
              buffer' = Append(buffer, [seq |-> s, body |-> body])
      BY <2>2 DEF EventArrives
    <3> DEFINE new == [seq |-> s, body |-> body]
    <3>3. Elems(buffer') = Elems(buffer) \cup {new}
      <4>1. \E T : buffer \in Seq(T) /\ new \in T
        <5>1. buffer \in Seq(Item \cup {new})
          BY DEF EventsTypeOK, ConnectionTypeOK
        <5> QED BY <5>1
      <4> QED BY <3>2, <4>1, AppendElems
    <3>4. new.seq = s
      OBVIOUS
    <3>5. \A t \in started + 1 .. s : t \in started + 1 .. connection.since \/ t = s
      BY <1>2, <3>1
    <3> HIDE DEF s, new
    <3> QED BY <1>3, <3>1, <3>3, <3>4, <3>5
  <2> QED BY <2>1, <2>2
<1> QED
  BY <1>1, <1>4, <1>5 DEF CursorInv, Covered

\* The streamer sets the cursor only to what is covered, and past the items of
\* the buffer only by draining them.
LEMMA StreamerCursor ==
    ASSUME EventsTypeOK, CursorInv, NEW at \in Cursors, StreamerStep(at)
    PROVE  CursorInv'
<1>1. /\ UNCHANGED <<log, started>>
      /\ cursor \in Nat /\ saved \in Nat /\ started \in Nat /\ at \in Nat
      /\ CursorTypeOK /\ ConnectionTypeOK /\ TurnTypeOK
  BY BoundsAreNat DEF StreamerStep, EventsTypeOK, CursorTypeOK, Cursors
<1>2. \A fetch \in fetches : fetch.base \in Nat
  BY BoundsAreNat DEF EventsTypeOK, Cursors
<1>3. \A m, n \in Nat : m <= n /\ Covered(n) => Covered(m)
  BY <1>1 DEF Covered
<1>4. Covered(at)
  <2>1. PICK known \in {cursor, saved, started} \cup {fetch.base : fetch \in fetches} :
            at <= known
    BY DEF StreamerStep
  <2>2. Covered(started)
    BY <1>1 DEF Covered
  <2>3. known \in Nat /\ Covered(known)
    BY <1>1, <1>2, <2>2 DEF CursorInv
  <2> QED BY <1>1, <1>3, <2>1, <2>3
<1>5. /\ enqueued \subseteq enqueued'
      /\ \A s \in started + 1 .. cursor' : IsLifecycle(s) => s \in enqueued'
      /\ saved' \in {saved, cursor'}
      /\ \A item \in Elems(buffer) : IsLifecycle(item.seq) =>
             item.seq \in enqueued' \/ item \in Elems(buffer') \/ ~(item.seq > at)
  <2>1. CASE cursor' = at /\ UNCHANGED <<buffer, saved, enqueued, repeated, queue, turn>>
    BY <1>4, <2>1 DEF Covered
  <2>2. CASE Drain(at)
    <3>1. enqueued' = enqueued \cup Elems(BatchOf(at))
      BY <1>1, <2>2, DrainKeeps
    <3>2. \A item \in Elems(buffer) :
              item.seq > at /\ IsLifecycle(item.seq) => item.seq \in Elems(BatchOf(at))
      BY <1>1, BatchOfProperties
    <3>3. /\ cursor' \in {at, saved} \cup {item.seq : item \in Elems(buffer)}
          /\ saved' \in {saved, cursor'}
      BY <1>1, <2>2, DrainCursor
    <3>4. \A s \in started + 1 .. cursor' : IsLifecycle(s) => s \in enqueued'
      <4>1. CASE cursor' \in {at, saved}
        BY <1>4, <3>1, <4>1 DEF Covered, CursorInv
      <4>2. ASSUME NEW last \in Elems(buffer), cursor' = last.seq,
                   NEW s \in started + 1 .. cursor', IsLifecycle(s)
            PROVE  s \in enqueued'
        <5>1. Connected
          BY <1>1, <4>2 DEF ConnectionTypeOK, Elems
        <5>2. connection.since \in Nat
          BY <1>1, <5>1, BoundsAreNat DEF ConnectionTypeOK, Connected, Cursors
        <5>3. last.seq \in Nat /\ last.seq <= connection.since
          <6>1. last \in Item
            BY <1>1, <4>2, ElemsType DEF ConnectionTypeOK
          <6> QED BY <1>1, <4>2, <6>1, BoundsAreNat DEF ConnectionTypeOK, Item, Seqs
        <5>4. s \in started + 1 .. connection.since /\ s \in Nat
          BY <1>1, <4>2, <5>2, <5>3
        <5>5. s \in enqueued \/ \E item \in Elems(buffer) : item.seq = s
          BY <4>2, <5>1, <5>4 DEF CursorInv
        <5>6. CASE ~(s > at)
          <6>1. s \in started + 1 .. at
            BY <1>1, <5>4, <5>6
          <6> QED BY <1>4, <3>1, <4>2, <6>1 DEF Covered
        <5>7. CASE s > at
          BY <3>1, <3>2, <4>2, <5>5, <5>7
        <5> QED BY <5>6, <5>7
      <4> QED BY <3>3, <4>1, <4>2
    <3> QED BY <3>1, <3>2, <3>3, <3>4
  <2> QED BY <2>1, <2>2 DEF StreamerStep
<1>6. \A s : IsLifecycle(s)' <=> IsLifecycle(s)
  BY <1>1 DEF IsLifecycle
<1>7. Covered(cursor)' /\ Covered(saved)'
  BY <1>1, <1>5, <1>6 DEF Covered, CursorInv
<1>8. \A fetch \in fetches' : Covered(fetch.base)'
  <2>1. \A fetch \in fetches' : Covered(fetch.base)
    BY DEF StreamerStep, CursorInv
  <2> QED BY <1>1, <1>5, <1>6, <2>1 DEF Covered
<1>9. Connected' => \A s \in started' + 1 .. connection'.since :
          IsLifecycle(s)' => s \in enqueued' \/ \E item \in Elems(buffer') : item.seq = s
  <2>1. CASE UNCHANGED <<consumer, connection>>
    <3>1. ASSUME Connected, NEW s \in started + 1 .. connection.since, IsLifecycle(s)
          PROVE  s \in enqueued' \/ \E item \in Elems(buffer') : item.seq = s
      <4>1. s \in enqueued \/ \E item \in Elems(buffer) : item.seq = s
        BY <3>1 DEF CursorInv
      <4>2. connection.since \in Nat /\ s \in Nat
        BY <1>1, <3>1, BoundsAreNat DEF ConnectionTypeOK, Connected, Cursors
      <4>3. CASE ~(s > at)
        <5>1. s \in started + 1 .. at
          BY <1>1, <3>1, <4>2, <4>3
        <5> QED BY <1>4, <1>5, <3>1, <5>1 DEF Covered
      <4>4. CASE s > at
        BY <1>5, <3>1, <4>1, <4>4
      <4> QED BY <4>3, <4>4
    <3> QED BY <1>1, <1>6, <2>1, <3>1 DEF Connected
  <2>2. CASE connection' \in {NoConnection, Connection(cursor')}
    <3>1. ASSUME Connected' PROVE connection'.since = cursor'
      BY <2>2, <3>1 DEF Connected, Connection
    <3> QED BY <1>7, <3>1 DEF Covered
  <2> QED BY <2>1, <2>2 DEF StreamerStep
<1> QED
  BY <1>7, <1>8, <1>9 DEF CursorInv

\* A restart: what is saved counts as handled by an earlier run.
LEMMA RestartCursor ==
    ASSUME EventsTypeOK, Restart
    PROVE  CursorInv'
<1>1. /\ saved' \in {saved, 0} /\ cursor' = saved' /\ started' = Maximum({started, saved})
      /\ fetches' = {[kind |-> "Restore", base |-> saved']} /\ ~Connected'
  BY DEF Restart, Connected
<1>2. saved \in Nat /\ started \in Nat
  BY BoundsAreNat DEF EventsTypeOK, CursorTypeOK, Cursors
<1> DEFINE before == started'
           base == saved'
<1>3. before \in Nat /\ base \in Nat /\ base <= before
  BY <1>1, <1>2, MaximumOfTwo
<1> HIDE DEF before, base
<1>4. \A s \in before + 1 .. base : FALSE
  BY <1>3
<1> QED
  BY <1>1, <1>4 DEF CursorInv, Covered, before, base

(***************************************************************************)
(* The cursor never passes an event of the life cycle that was not         *)
(* drained, whatever opens, breaks and replaces the connections and        *)
(* whatever cursors the server answers with, for every value of the        *)
(* constants.                                                              *)
(***************************************************************************)
THEOREM CursorCorrect == Spec => []CursorSkipsNothing
<1>1. Init => CursorInv
  BY InitCursor
<1>2. EventsTypeOK /\ CursorInv /\ [Next]_vars => CursorInv'
  <2> SUFFICES ASSUME EventsTypeOK, CursorInv, [Next]_vars PROVE CursorInv'
    OBVIOUS
  <2>1. CASE StreamOpens \/ StreamBreaks \/ EventArrives \/ EventIsSkipped
    BY <2>1, DriverCursor
  <2>2. CASE \E at \in Cursors : StreamerStep(at)
    BY <2>2, StreamerCursor
  <2>3. CASE TurnStep
    <3>1. UNCHANGED <<log, started, enqueued, cursor, saved, connection, buffer>>
      BY <2>3 DEF TurnStep, OutsideTurn, cursors
    <3>2. started \in Nat
      BY BoundsAreNat DEF EventsTypeOK, CursorTypeOK, Cursors
    <3>3. Covered(0)
      <4>1. started + 1 .. 0 = {}
        BY <3>2
      <4> QED BY <4>1 DEF Covered
    <3>4. \A fetch \in fetches' : Covered(fetch.base)
      BY <2>3, <3>3 DEF TurnStep, CursorInv
    <3> QED BY <3>1, <3>4 DEF CursorInv, Covered, IsLifecycle, Connected
  <2>4. CASE Restart
    BY <2>4, RestartCursor
  <2>5. CASE FetchFails \/ UNCHANGED vars
    <3>1. /\ fetches' \subseteq fetches
          /\ UNCHANGED <<log, started, enqueued, cursor, saved, connection, buffer>>
      BY <2>5 DEF FetchFails, vars, cursors
    <3> QED BY <3>1 DEF CursorInv, Covered, IsLifecycle, Connected
  <2> QED BY <2>1, <2>2, <2>3, <2>4, <2>5, StepKinds
<1>3. CursorInv => CursorSkipsNothing
  BY DEF CursorInv, Covered, CursorSkipsNothing
<1> QED
  BY <1>1, <1>2, <1>3, EventsTypeCorrect, PTL DEF Spec

-----------------------------------------------------------------------------
(* The events are kept.                                                    *)

(***************************************************************************)
(* The inductive invariant: what is queued was drained in this run, and,   *)
(* unless the cursor was set back, nothing that was drained is beyond it,  *)
(* so that the next batch is later than all that is queued.                *)
(***************************************************************************)
KeptInv ==
    /\ EventsAreKept
    /\ Elems(pending) \subseteq enqueued
    /\ setBacks = 0 => \A s \in enqueued : s <= cursor

\* A drain keeps what was drained before and what it drains.
LEMMA StreamerKeeps ==
    ASSUME EventsTypeOK, KeptInv, NEW at \in Cursors, StreamerStep(at)
    PROVE  KeptInv'
<1>1. /\ UNCHANGED log
      /\ cursor \in Nat /\ at \in Nat /\ setBacks \in Nat /\ setBacks' \in setBacks..MaxSetBacks
      /\ CursorTypeOK /\ ConnectionTypeOK /\ TurnTypeOK
      /\ at < cursor => setBacks' > 0
  BY BoundsAreNat DEF StreamerStep, EventsTypeOK, CursorTypeOK, Cursors
<1>2. setBacks' = 0 => setBacks = 0 /\ cursor <= at
  BY <1>1, BoundsAreNat
<1>3. \A s, t : /\ IsStatus(s)' <=> IsStatus(s)
                /\ Supersedes(s, t)' <=> Supersedes(s, t)
  BY <1>1 DEF IsStatus, Supersedes
<1>4. CASE cursor' = at /\ UNCHANGED <<buffer, saved, enqueued, repeated, queue, turn>>
  <2>1. UNCHANGED <<enqueued, pending, capped, given>> /\ cursor' = at
    BY <1>4 DEF queue, turn
  <2>2. enqueued \subseteq Nat
    BY BoundsAreNat DEF EventsTypeOK, CursorTypeOK, Seqs
  <2>3. \A s \in enqueued : IsKept(s)' <=> IsKept(s)
    BY <1>3, <2>1 DEF IsKept
  <2>4. EventsAreKept'
    BY <1>1, <1>2, <1>3, <2>1, <2>3 DEF EventsAreKept, KeptInv
  <2>5. setBacks' = 0 => \A s \in enqueued' : s <= cursor'
    BY <1>1, <1>2, <2>1, <2>2 DEF KeptInv
  <2> QED BY <2>1, <2>4, <2>5 DEF KeptInv
<1>5. CASE Drain(at)
  <2> DEFINE q == [pending |-> pending, capped |-> capped]
             batch == BatchOf(at)
             r == QueueAfter(at)
  <2>1. /\ enqueued' = enqueued \cup Elems(batch)
        /\ capped' = r.capped
        /\ given \subseteq given'
        /\ Elems(pending') \subseteq Elems(r.pending)
        /\ given' \cup Elems(pending') = given \cup Elems(r.pending)
    BY <1>1, <1>5, DrainKeeps
  <2>2. /\ batch \in Seq(Seqs)
        /\ \A s \in Elems(batch) : \E item \in Elems(buffer) : item.seq = s /\ s > at
        /\ \A j, k \in DOMAIN batch :
               j < k /\ IsStatus(batch[j]) /\ IsStatus(batch[k]) => batch[j] < batch[k]
    BY <1>1, BatchOfProperties
  <2>3. q \in Queue /\ q.pending = pending /\ q.capped = capped
    BY <1>1 DEF Queue, TurnTypeOK, CursorTypeOK
  <2>4. r = EnqueuedEach(q, batch)[Len(batch)]
    BY DEF QueueAfter
  <2> HIDE DEF q, batch, r
  <2>5. /\ Elems(r.pending) \subseteq Elems(pending) \cup Elems(batch)
        /\ \A t \in r.capped \ capped : IsStatus(t)
    BY <2>2, <2>3, <2>4, EnqueuedEachBounds
  <2>6. Elems(pending') \subseteq enqueued'
    BY <2>1, <2>5 DEF KeptInv
  <2>7. \A s \in capped' : IsStatus(s)'
    BY <1>3, <2>1, <2>5 DEF KeptInv, EventsAreKept
  <2>8. ASSUME setBacks' = 0, NEW s \in enqueued' PROVE s <= cursor'
    <3>1. /\ cursor' \in Cursors /\ at <= cursor'
          /\ \A item \in Elems(buffer) : item.seq > at => item.seq <= cursor'
      BY <1>1, <1>5, DrainCursor
    <3>2. cursor' \in Nat
      BY <3>1, BoundsAreNat DEF Cursors
    <3>3. CASE s \in enqueued
      <4>1. s \in Nat /\ s <= cursor
        BY <1>2, <2>8, <3>3, BoundsAreNat DEF KeptInv, EventsTypeOK, CursorTypeOK, Seqs
      <4> QED BY <1>1, <1>2, <2>8, <3>1, <3>2, <4>1
    <3>4. CASE s \in Elems(batch)
      BY <2>2, <3>1, <3>4
    <3> QED BY <2>1, <2>8, <3>3, <3>4
  <2>9. ASSUME setBacks' = 0, NEW s \in enqueued' PROVE IsKept(s)'
    <3>1. \A t \in Elems(q.pending), k \in DOMAIN batch : t < batch[k]
      <4>1. TAKE t \in Elems(q.pending), k \in DOMAIN batch
      <4>2. batch[k] \in Elems(batch) /\ batch[k] \in Seqs
        BY <2>2 DEF Elems
      <4>3. batch[k] > at /\ batch[k] \in Nat
        BY <2>2, <4>2, BoundsAreNat DEF Seqs
      <4>4. t \in enqueued /\ t \in Nat
        <5>1. t \in enqueued
          BY <2>3 DEF KeptInv
        <5> QED BY <5>1, BoundsAreNat DEF EventsTypeOK, CursorTypeOK, Seqs
      <4>5. t <= cursor /\ cursor <= at
        BY <1>2, <2>9, <4>4 DEF KeptInv
      <4> QED BY <1>1, <4>3, <4>4, <4>5
    <3>2. /\ capped \subseteq r.capped
          /\ \A t \in Elems(pending) \cup Elems(batch) :
                 \/ t \in Elems(r.pending) \cup r.capped
                 \/ \E u \in Elems(batch) : u > t /\ Supersedes(t, u)
      BY <2>2, <2>3, <2>4, <3>1, EnqueuedEachKeeps
    <3>3. given' \cup ToSet(pending') \cup capped' = given \cup Elems(r.pending) \cup r.capped
      BY <2>1 DEF Elems, ToSet
    <3>4. \A t : IsKept(t)' <=> \/ t \in given \cup Elems(r.pending) \cup r.capped
                                \/ \E u \in enqueued' : u > t /\ Supersedes(t, u)
      BY <1>3, <3>3 DEF IsKept
    <3>5. CASE s \in Elems(pending) \cup Elems(batch)
      BY <2>1, <3>2, <3>4, <3>5
    <3>6. CASE s \in enqueued
      <4>1. IsKept(s)
        BY <1>1, <1>2, <2>9, <3>6 DEF KeptInv, EventsAreKept
      <4>2. ToSet(pending) = Elems(pending)
        BY DEF ToSet, Elems
      <4> QED BY <2>1, <3>2, <3>4, <3>5, <4>1, <4>2 DEF IsKept
    <3> QED BY <2>1, <2>9, <3>5, <3>6
  <2>10. EventsAreKept'
    <3>1. \A s \in enqueued' : IsKept(s)' \/ setBacks' > 0
      <4>1. setBacks' = 0 \/ setBacks' > 0
        BY <1>1, BoundsAreNat
      <4> QED BY <2>9, <4>1
    <3> QED BY <2>7, <3>1 DEF EventsAreKept
  <2> QED BY <2>6, <2>8, <2>10 DEF KeptInv
<1> QED
  BY <1>4, <1>5 DEF StreamerStep

(***************************************************************************)
(* Of the events drained in a run none disappears as long as the cursor is *)
(* not set back, and only statuses are dropped at the limit of the queue,  *)
(* for every value of the constants.                                       *)
(***************************************************************************)
THEOREM EventsKept == Spec => []EventsAreKept
<1>1. Init => KeptInv
  BY DEF Init, KeptInv, EventsAreKept, Elems
<1>2. EventsTypeOK /\ KeptInv /\ [Next]_vars => KeptInv'
  <2> SUFFICES ASSUME EventsTypeOK, KeptInv, [Next]_vars PROVE KeptInv'
    OBVIOUS
  <2>1. CASE \E at \in Cursors : StreamerStep(at)
    BY <2>1, StreamerKeeps
  <2>2. CASE TurnStep
    <3>1. UNCHANGED <<log, cursor, enqueued, capped, setBacks>>
      BY <2>2 DEF TurnStep, OutsideTurn, cursors
    <3>2. /\ Elems(pending') \subseteq Elems(pending)
          /\ given' \cup Elems(pending') = given \cup Elems(pending)
      BY <2>2 DEF TurnStep
    <3>3. given' \cup ToSet(pending') \cup capped' = given \cup ToSet(pending) \cup capped
      BY <3>1, <3>2 DEF ToSet, Elems
    <3>4. \A s : IsKept(s)' <=> IsKept(s)
      BY <3>1, <3>3 DEF IsKept, Supersedes, IsStatus
    <3> QED BY <3>1, <3>2, <3>4 DEF KeptInv, EventsAreKept, IsStatus
  <2>3. CASE Restart
    BY <2>3 DEF Restart, KeptInv, EventsAreKept, Elems
  <2>4. CASE \/ StreamOpens \/ StreamBreaks \/ EventArrives \/ EventIsSkipped
             \/ FetchFails \/ UNCHANGED vars
    <3>1. UNCHANGED <<log, cursor, enqueued, capped, pending, given, setBacks>>
      BY <2>4 DEF StreamOpens, StreamBreaks, EventArrives, EventIsSkipped, FetchFails,
                  vars, cursors, queue, turn
    <3> QED BY <3>1 DEF KeptInv, EventsAreKept, IsKept, Supersedes, IsStatus
  <2> QED BY <2>1, <2>2, <2>3, <2>4, StepKinds
<1>3. KeptInv => EventsAreKept
  BY DEF KeptInv
<1> QED
  BY <1>1, <1>2, <1>3, EventsTypeCorrect, PTL DEF Spec
=============================================================================
