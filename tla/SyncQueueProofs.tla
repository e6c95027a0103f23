-------------------------- MODULE SyncQueueProofs --------------------------
(***************************************************************************)
(* Proofs about the queue of the edits of cloud objects: types, and that   *)
(* whatever an item waits for is pending.                                  *)
(***************************************************************************)
EXTENDS SyncQueue, OrderedSeqsProofs

-----------------------------------------------------------------------------
(* Types.                                                                  *)

Operations == {"Create", "Bulk", "Update", "Record"}

Versions == [rev : Nat, content : Int]

Keys == Nat \X (Objects \cup {NoObject})

ObjectLists == {objs \in Seq(Objects) : objs # <<>>}

Items == [n : Nat, op : Operations, objs : ObjectLists, client : BOOLEAN,
          refs : SUBSET Enums, rev : Nat, content : Int, deps : SUBSET Keys]

AnswerKinds == {"None", "Created", "Denied", "KeyConflict", "Accepted", "Rejected", "Recorded"}

Found == {<<>>} \cup UNION {[S -> Versions] : S \in SUBSET Objects}

Requests == [n : Nat, op : Operations, objs : ObjectLists, client : BOOLEAN,
             refs : SUBSET Enums, rev : Nat, content : Int,
             answer : AnswerKinds, found : Found, resent : Nat]

EventKinds == {"Created", "Updated", "Rejected", "Denied", "KeyConflict", "Failed",
               "Recorded", "NotRecorded"}

Events == [kind : EventKinds, o : Objects, n : Nat, rev : Nat, content : Int]

SyncQueues == [queue : Seq(Items), sent : SUBSET Requests, mapped : SUBSET Objects,
               running : BOOLEAN, events : Seq(Events)]

\* The items in the queue or in flight.
Pending(v) == Elems(v.queue) \cup v.sent

-----------------------------------------------------------------------------
(* What fails with an item.                                                *)

\* The dependents are closed, and each of them waits for something.
LEMMA DependentsProperties ==
    ASSUME NEW v, NEW ds
    PROVE  /\ DependentsOf(v, ds) \subseteq Elems(v.queue)
           /\ \A i \in Elems(v.queue) :
                  i.deps \cap (ds \cup {<<j.n, NoObject>> : j \in DependentsOf(v, ds)}) # {}
                  => i \in DependentsOf(v, ds)
           /\ \A i \in DependentsOf(v, ds) : i.deps # {}
<1> DEFINE items == Elems(v.queue)
           closed == {S \in SUBSET items : \A i \in items :
                         i.deps \cap (ds \cup {<<j.n, NoObject>> : j \in S}) # {} => i \in S}
           D == {i \in items : \A S \in closed : i \in S}
<1>1. DependentsOf(v, ds) = D
  BY DEF DependentsOf
<1> HIDE DEF items
<1>2. \A i \in items : i.deps \cap (ds \cup {<<j.n, NoObject>> : j \in D}) # {} => i \in D
  <2>1. SUFFICES ASSUME NEW i \in items, NEW S \in closed,
                        i.deps \cap (ds \cup {<<j.n, NoObject>> : j \in D}) # {}
                 PROVE  i \in S
    OBVIOUS
  <2>2. D \subseteq S
    OBVIOUS
  <2>3. i.deps \cap (ds \cup {<<j.n, NoObject>> : j \in S}) # {}
    BY <2>1, <2>2
  <2> QED BY <2>3
<1>3. D \subseteq items
  OBVIOUS
<1>4. ASSUME NEW x \in D, x.deps = {} PROVE FALSE
  <2> DEFINE S == D \ {x}
  <2>1. S \in SUBSET items
    BY <1>3
  <2>2. ASSUME NEW i \in items, i.deps \cap (ds \cup {<<j.n, NoObject>> : j \in S}) # {}
        PROVE  i \in S
    <3>1. i.deps \cap (ds \cup {<<j.n, NoObject>> : j \in D}) # {}
      BY <2>2
    <3>2. i \in D
      BY <1>2, <3>1
    <3>3. i # x
      BY <1>4, <2>2
    <3> QED BY <3>2, <3>3
  <2>3. S \in closed
    BY <2>1, <2>2
  <2> QED BY <2>3
<1> QED
  BY <1>1, <1>2, <1>3, <1>4 DEF items

-----------------------------------------------------------------------------
(* The queue is well formed, and how it changes when an answer is taken.   *)

\* The items have different numbers.
NumbersDiffer(v) ==
    /\ \A j, k \in DOMAIN v.queue : v.queue[j].n = v.queue[k].n => j = k
    /\ \A r, s \in v.sent : r.n = s.n => r = s
    /\ \A i \in Elems(v.queue), r \in v.sent : i.n # r.n

\* Only a bulk creation has several objects.
ItemOK(i, N) == i.n < N /\ (i.op # "Bulk" => Len(i.objs) = 1)

\* Neither a bulk creation nor an action waits for anything.
WaitOK(i) == i.op \in {"Bulk", "Record"} => i.deps = {} /\ i.refs = {}

\* The server's answers to the different requests.
AnswerFits(r) ==
    /\ r.answer \in {"Created", "KeyConflict"} => r.op \in Creations
    /\ r.answer = "Denied" => r.op = "Create"
    /\ r.answer \in {"Accepted", "Rejected"} => r.op = "Update"
    /\ r.answer = "Recorded" => r.op = "Record"
    /\ r.answer # "None" => r.found \in [Elems(r.objs) -> Versions]

QueueOK(v, N) ==
    /\ v \in SyncQueues
    /\ NumbersDiffer(v)
    /\ \A i \in Pending(v) : ItemOK(i, N)
    /\ \A i \in Elems(v.queue) : WaitOK(i)
    /\ \A r \in v.sent : AnswerFits(r)

Same(i, j) ==
    /\ i.n = j.n /\ i.op = j.op /\ i.objs = j.objs
    /\ i.client = j.client /\ i.content = j.content

(***************************************************************************)
(* The items of w are items of v, some of which are now in flight, having  *)
(* waited only for keys of D; the others wait for what they waited for,    *)
(* but for keys of D; none refers to more enums, nor waits for an item     *)
(* that is gone.                                                           *)
(***************************************************************************)
StemsFrom(i, j, D) ==
    Same(i, j) /\ i.refs \subseteq j.refs /\ i.deps \subseteq j.deps /\ j.deps \ D \subseteq i.deps

SentFrom(r, j, D, mapped) ==
    /\ Same(r, j) /\ r.refs \subseteq j.refs /\ j.deps \subseteq D /\ r.answer = "None"
    /\ j.op \in Creations \/ ~j.client \/ j.objs[1] \in mapped

Settles(j, d) == IsContent(j) /\ \E o \in Elems(j.objs) : d = DependencyOn(j, o)

Evolves(v, w, D) ==
    /\ v.sent \subseteq w.sent /\ v.mapped \subseteq w.mapped
    /\ \A i \in Elems(w.queue) : \E j \in Elems(v.queue) : StemsFrom(i, j, D)
    /\ \A r \in w.sent \ v.sent : \E j \in Elems(v.queue) : SentFrom(r, j, D, w.mapped)
    /\ \A j \in Elems(v.queue) :
          \/ \E i \in Pending(w) : Same(i, j)
          \/ \A i \in Elems(w.queue) : \A d \in i.deps : ~Settles(j, d)

\* Changes may follow one another.
LEMMA EvolvesTransitive ==
    ASSUME NEW u, NEW v, NEW w, NEW D, Evolves(u, v, D), Evolves(v, w, D)
    PROVE  Evolves(u, w, D)
<1>1. u.sent \subseteq w.sent /\ u.mapped \subseteq w.mapped
  BY DEF Evolves
<1>2. ASSUME NEW i \in Elems(w.queue)
      PROVE  \E j \in Elems(u.queue) : StemsFrom(i, j, D)
  BY DEF Evolves, StemsFrom, Same
<1>3. ASSUME NEW r \in w.sent \ u.sent
      PROVE  \E j \in Elems(u.queue) : SentFrom(r, j, D, w.mapped)
  <2>1. CASE r \in v.sent
    <3>1. PICK j \in Elems(u.queue) : SentFrom(r, j, D, v.mapped)
      BY <2>1, <1>3 DEF Evolves
    <3>2. SentFrom(r, j, D, w.mapped)
      BY <3>1 DEF SentFrom, Evolves
    <3> QED BY <3>2
  <2>2. CASE r \notin v.sent
    <3>1. PICK j \in Elems(v.queue) : SentFrom(r, j, D, w.mapped)
      BY <2>2, <1>3 DEF Evolves
    <3>2. PICK k \in Elems(u.queue) : StemsFrom(j, k, D)
      BY <3>1 DEF Evolves
    <3>3. SentFrom(r, k, D, w.mapped)
      BY <3>1, <3>2 DEF SentFrom, StemsFrom, Same
    <3> QED BY <3>3
  <2> QED BY <2>1, <2>2
<1>4. ASSUME NEW j \in Elems(u.queue)
      PROVE  \/ \E i \in Pending(w) : Same(i, j)
             \/ \A i \in Elems(w.queue) : \A d \in i.deps : ~Settles(j, d)
  <2>1. CASE \E i \in Pending(v) : Same(i, j)
    <3>1. PICK i \in Pending(v) : Same(i, j)
      BY <2>1
    <3>2. CASE i \in v.sent
      BY <3>1, <3>2 DEF Evolves, Pending
    <3>3. CASE i \in Elems(v.queue)
      <4>1. CASE \E k \in Pending(w) : Same(k, i)
        BY <4>1, <3>1 DEF Same
      <4>2. CASE \A k \in Elems(w.queue) : \A d \in k.deps : ~Settles(i, d)
        <5>1. \A d : Settles(j, d) => Settles(i, d)
          BY <3>1 DEF Settles, Same, IsContent, DependencyOn
        <5> QED BY <4>2, <5>1
      <4> QED BY <3>3, <4>1, <4>2 DEF Evolves
    <3> QED BY <3>1, <3>2, <3>3 DEF Pending
  <2>2. CASE \A i \in Elems(v.queue) : \A d \in i.deps : ~Settles(j, d)
    <3>1. SUFFICES ASSUME NEW i \in Elems(w.queue), NEW d \in i.deps
                   PROVE  ~Settles(j, d)
      OBVIOUS
    <3>2. PICK k \in Elems(v.queue) : StemsFrom(i, k, D)
      BY DEF Evolves
    <3>3. d \in k.deps
      BY <3>2 DEF StemsFrom
    <3> QED BY <3>3, <2>2
  <2> QED BY <2>1, <2>2 DEF Evolves
<1> QED
  BY <1>1, <1>2, <1>3, <1>4 DEF Evolves

\* The items change in place.
LEMMA ChangedInPlace ==
    ASSUME NEW v, NEW w \in SyncQueues, NEW N \in Nat, NEW D, QueueOK(v, N),
           w.sent = v.sent, v.mapped \subseteq w.mapped,
           DOMAIN w.queue = DOMAIN v.queue,
           \A k \in DOMAIN v.queue : StemsFrom(w.queue[k], v.queue[k], D)
    PROVE  QueueOK(w, N) /\ Evolves(v, w, D)
<1>1. NumbersDiffer(w)
  BY DEF NumbersDiffer, QueueOK, StemsFrom, Same, Elems
<1>2. \A i \in Pending(w) : ItemOK(i, N)
  BY DEF Pending, QueueOK, ItemOK, StemsFrom, Same, Elems
<1>3. \A i \in Elems(w.queue) : WaitOK(i)
  BY DEF QueueOK, WaitOK, StemsFrom, Same, Elems
<1>4. \A r \in w.sent : AnswerFits(r)
  BY DEF QueueOK
<1>5. \A i \in Elems(w.queue) : \E j \in Elems(v.queue) : StemsFrom(i, j, D)
  BY DEF Elems
<1>6. \A j \in Elems(v.queue) : \E i \in Pending(w) : Same(i, j)
  BY DEF Elems, Pending, StemsFrom
<1> QED
  BY <1>1, <1>2, <1>3, <1>4, <1>5, <1>6 DEF QueueOK, Evolves

\* A sequence of items whose items are changed one by one.
LEMMA MappedItems ==
    ASSUME NEW q \in Seq(Items), NEW f, DOMAIN f = DOMAIN q, f = [k \in DOMAIN q |-> f[k]],
           \A k \in DOMAIN q : f[k] \in Items
    PROVE  f \in Seq(Items)
<1>1. DOMAIN q = 1..Len(q) /\ Len(q) \in Nat
  OBVIOUS
<1>2. f \in [1..Len(q) -> Items]
  BY <1>1
<1> QED
  BY <1>1, <1>2

LEMMA ReleaseOK ==
    ASSUME NEW v, NEW N \in Nat, QueueOK(v, N), NEW d
    PROVE  /\ QueueOK(Release(v, d), N) /\ Evolves(v, Release(v, d), {d})
           /\ \A i \in Elems(Release(v, d).queue) : d \notin i.deps
           /\ Release(v, d).events = v.events /\ Release(v, d).mapped = v.mapped
           /\ Release(v, d).sent = v.sent
<1> DEFINE q == [k \in DOMAIN v.queue |-> [v.queue[k] EXCEPT !.deps = @ \ {d}]]
           w == [v EXCEPT !.queue = q]
<1>1. Release(v, d) = w
  BY DEF Release
<1>2. v \in SyncQueues
  BY DEF QueueOK
<1>3. ASSUME NEW k \in DOMAIN v.queue
      PROVE  /\ q[k] \in Items /\ StemsFrom(q[k], v.queue[k], {d}) /\ d \notin q[k].deps
  <2>1. v.queue[k] \in Items
    BY <1>2 DEF SyncQueues
  <2> QED BY <2>1 DEF StemsFrom, Same, Items
<1>4. DOMAIN q = DOMAIN v.queue /\ v.queue \in Seq(Items)
  BY <1>2 DEF SyncQueues
<1> HIDE DEF q
<1>5. q \in Seq(Items)
  <2>1. q = [k \in DOMAIN v.queue |-> q[k]]
    BY DEF q
  <2> QED BY <1>3, <1>4, <2>1, MappedItems
<1>6. /\ w \in SyncQueues /\ w.queue = q /\ w.sent = v.sent /\ w.mapped = v.mapped
      /\ w.events = v.events
  BY <1>2, <1>5 DEF SyncQueues
<1> HIDE DEF w
<1>7. QueueOK(w, N) /\ Evolves(v, w, {d})
  BY <1>3, <1>4, <1>6, ChangedInPlace
<1>8. \A i \in Elems(w.queue) : d \notin i.deps
  BY <1>3, <1>4, <1>6 DEF Elems
<1> QED
  BY <1>1, <1>6, <1>7, <1>8

LEMMA WithNewRevisionOK ==
    ASSUME NEW v, NEW N \in Nat, QueueOK(v, N), NEW o, NEW rev \in Nat
    PROVE  /\ QueueOK(WithNewRevision(v, o, rev), N) /\ Evolves(v, WithNewRevision(v, o, rev), {})
           /\ WithNewRevision(v, o, rev).events = v.events
           /\ WithNewRevision(v, o, rev).mapped = v.mapped
           /\ WithNewRevision(v, o, rev).sent = v.sent
<1> DEFINE current(i) == i.op = "Update" /\ i.objs[1] = o /\ (i.client => o \in v.mapped)
           q == [k \in DOMAIN v.queue |->
                    IF current(v.queue[k]) THEN [v.queue[k] EXCEPT !.rev = rev] ELSE v.queue[k]]
           w == [v EXCEPT !.queue = q]
<1>1. WithNewRevision(v, o, rev) = w
  BY DEF WithNewRevision
<1> HIDE DEF current
<1>2. v \in SyncQueues
  BY DEF QueueOK
<1>3. ASSUME NEW k \in DOMAIN v.queue
      PROVE  q[k] \in Items /\ StemsFrom(q[k], v.queue[k], {})
  <2>1. v.queue[k] \in Items
    BY <1>2 DEF SyncQueues
  <2> QED BY <2>1 DEF StemsFrom, Same, Items
<1>4. DOMAIN q = DOMAIN v.queue /\ v.queue \in Seq(Items)
  BY <1>2 DEF SyncQueues
<1> HIDE DEF q
<1>5. q \in Seq(Items)
  <2>1. q = [k \in DOMAIN v.queue |-> q[k]]
    BY DEF q
  <2> QED BY <1>3, <1>4, <2>1, MappedItems
<1>6. /\ w \in SyncQueues /\ w.queue = q /\ w.sent = v.sent /\ w.mapped = v.mapped
      /\ w.events = v.events
  BY <1>2, <1>5 DEF SyncQueues
<1> HIDE DEF w
<1>7. QueueOK(w, N) /\ Evolves(v, w, {})
  BY <1>3, <1>4, <1>6, ChangedInPlace
<1> QED
  BY <1>1, <1>6, <1>7

\* The enum o has got its server id, and workflows name it so.
LEMMA RenamedOK ==
    ASSUME NEW v, NEW N \in Nat, QueueOK(v, N), NEW o \in Objects, NEW d
    PROVE  LET named == [Renamed(v, o, d) EXCEPT !.mapped = @ \cup {o}]
           IN  /\ QueueOK(named, N) /\ Evolves(v, named, {})
               /\ named.events = v.events /\ named.sent = v.sent
               /\ named.mapped = v.mapped \cup {o}
               /\ o \in Enums => \A i \in Elems(named.queue) : o \in i.refs => d \notin i.deps
<1> DEFINE q == IF o \notin Enums THEN v.queue
                ELSE [k \in DOMAIN v.queue |->
                        IF d \in v.queue[k].deps THEN [v.queue[k] EXCEPT !.refs = @ \ {o}]
                        ELSE v.queue[k]]
           w == [v EXCEPT !.queue = q, !.mapped = @ \cup {o}]
<1>2. v \in SyncQueues
  BY DEF QueueOK
<1>1. [Renamed(v, o, d) EXCEPT !.mapped = @ \cup {o}] = w
  BY <1>2 DEF Renamed, SyncQueues
<1>3. ASSUME NEW k \in DOMAIN v.queue
      PROVE  /\ q[k] \in Items /\ StemsFrom(q[k], v.queue[k], {})
             /\ (o \in Enums /\ o \in q[k].refs) => d \notin q[k].deps
  <2>1. v.queue[k] \in Items
    BY <1>2 DEF SyncQueues
  <2> QED BY <2>1 DEF StemsFrom, Same, Items
<1>4. DOMAIN q = DOMAIN v.queue /\ v.queue \in Seq(Items)
  BY <1>2 DEF SyncQueues
<1>5. q = [k \in DOMAIN v.queue |-> q[k]]
  <2>1. v.queue = [k \in DOMAIN v.queue |-> v.queue[k]]
    BY <1>4
  <2> QED BY <2>1
<1> HIDE DEF q
<1>6. q \in Seq(Items)
  BY <1>3, <1>4, <1>5, MappedItems
<1>7. /\ w \in SyncQueues /\ w.queue = q /\ w.sent = v.sent /\ w.mapped = v.mapped \cup {o}
      /\ w.events = v.events
  BY <1>2, <1>6 DEF SyncQueues
<1> HIDE DEF w
<1>8. QueueOK(w, N) /\ Evolves(v, w, {})
  BY <1>3, <1>4, <1>7, ChangedInPlace
<1>9. o \in Enums => \A i \in Elems(w.queue) : o \in i.refs => d \notin i.deps
  BY <1>3, <1>4, <1>7 DEF Elems
<1> QED
  BY <1>1, <1>7, <1>8, <1>9

\* Some of the items.
LEMMA FilteredItems ==
    ASSUME NEW q \in Seq(Items), NEW S,
           \A j, k \in DOMAIN q : q[j].n = q[k].n => j = k
    PROVE  /\ Filter(q, S) \in Seq(Items) /\ Elems(Filter(q, S)) = Elems(q) \cap S
           /\ \A j, k \in DOMAIN Filter(q, S) :
                  Filter(q, S)[j].n = Filter(q, S)[k].n => j = k
<1> DEFINE f == Filter(q, S)
<1>1. PICK pos \in [DOMAIN f -> {i \in DOMAIN q : q[i] \in S}] :
          /\ \A k \in DOMAIN f : f[k] = q[pos[k]]
          /\ \A j, k \in DOMAIN f : j < k => pos[j] < pos[k]
  BY FilterPositions
<1>2. f \in Seq(Items) /\ Elems(f) = Elems(q) \cap S
  BY FilterProperties, FilterElems
<1> HIDE DEF f
<1>3. ASSUME NEW j \in DOMAIN f, NEW k \in DOMAIN f, f[j].n = f[k].n PROVE j = k
  <2>1. pos[j] \in DOMAIN q /\ pos[k] \in DOMAIN q
    BY <1>1
  <2>2. pos[j] = pos[k]
    BY <1>1, <1>3, <2>1
  <2>3. j \in Int /\ k \in Int /\ pos[j] \in Int /\ pos[k] \in Int
    BY <1>2, <2>1
  <2> QED BY <1>1, <2>2, <2>3
<1> QED
  BY <1>2, <1>3 DEF f

\* The events that tell of the failures of some items.
LEMMA FailureEvents ==
    ASSUME NEW q \in Seq(Items)
    PROVE  [k \in DOMAIN q |-> FailureOf(q[k])] \in Seq(Events)
<1> DEFINE es == [k \in DOMAIN q |-> FailureOf(q[k])]
<1>1. DOMAIN q = 1..Len(q) /\ Len(q) \in Nat
  OBVIOUS
<1>2. ASSUME NEW k \in DOMAIN q PROVE es[k] \in Events
  <2>1. q[k] \in Items
    OBVIOUS
  <2>2. q[k].n \in Nat /\ q[k].objs \in Seq(Objects) /\ q[k].objs # <<>>
    BY <2>1 DEF Items, ObjectLists
  <2>3. q[k].objs[1] \in Objects
    BY <2>2
  <2> QED BY <2>2, <2>3 DEF FailureOf, Event, Events, EventKinds, NoConflict
<1>3. es \in [1..Len(q) -> Events]
  BY <1>1, <1>2
<1> QED
  BY <1>1, <1>3

LEMMA EmitOK ==
    ASSUME NEW v, NEW N \in Nat, QueueOK(v, N), NEW e \in Events
    PROVE  /\ QueueOK(Emit(v, e), N) /\ Evolves(v, Emit(v, e), {})
           /\ Emit(v, e).queue = v.queue /\ Emit(v, e).sent = v.sent
           /\ Emit(v, e).mapped = v.mapped /\ Emit(v, e).events = Append(v.events, e)
<1>1. v \in SyncQueues
  BY DEF QueueOK
<1>2. /\ Emit(v, e) \in SyncQueues /\ Emit(v, e).queue = v.queue /\ Emit(v, e).sent = v.sent
      /\ Emit(v, e).mapped = v.mapped /\ Emit(v, e).events = Append(v.events, e)
  <2>1. v.events \in Seq(Events)
    BY <1>1 DEF SyncQueues
  <2>2. Append(v.events, e) \in Seq(Events)
    BY <2>1
  <2>3. Emit(v, e) = [v EXCEPT !.events = Append(v.events, e)]
    BY DEF Emit
  <2> QED BY <1>1, <2>2, <2>3 DEF SyncQueues
<1> DEFINE w == Emit(v, e)
<1> HIDE DEF w
<1>3. \A k \in DOMAIN v.queue : StemsFrom(v.queue[k], v.queue[k], {})
  BY DEF StemsFrom, Same
<1>4. w \in SyncQueues /\ w.queue = v.queue /\ w.sent = v.sent /\ w.mapped = v.mapped
  BY <1>2 DEF w
<1>5. QueueOK(w, N) /\ Evolves(v, w, {})
  BY <1>3, <1>4, ChangedInPlace
<1> QED
  BY <1>2, <1>5 DEF w

\* What depends on ds fails; what is left depends neither on ds nor on that.
LEMMA FailOK ==
    ASSUME NEW v, NEW N \in Nat, QueueOK(v, N), NEW ds, NEW es \in Seq(Events)
    PROVE  /\ QueueOK(Fail(v, ds, es), N) /\ Evolves(v, Fail(v, ds, es), {})
           /\ \A i \in Elems(Fail(v, ds, es).queue) : i.deps \cap ds = {}
           /\ Elems(Fail(v, ds, es).queue) \subseteq Elems(v.queue)
           /\ Fail(v, ds, es).sent = v.sent /\ Fail(v, ds, es).mapped = v.mapped
<1> DEFINE doomed == DependentsOf(v, ds)
           failures == Filter(v.queue, doomed)
           fs == [k \in DOMAIN failures |-> FailureOf(failures[k])]
           left == Filter(v.queue, Elems(v.queue) \ doomed)
           w == [v EXCEPT !.queue = left, !.events = @ \o fs \o es]
<1>1. Fail(v, ds, es) = w
  BY DEF Fail
<1>2. v \in SyncQueues /\ NumbersDiffer(v) /\ (\A i \in Elems(v.queue) : WaitOK(i))
  BY DEF QueueOK
<1>3. v.queue \in Seq(Items) /\ v.events \in Seq(Events)
  BY <1>2 DEF SyncQueues
<1>4. /\ doomed \subseteq Elems(v.queue)
      /\ \A i \in Elems(v.queue) :
            i.deps \cap (ds \cup {<<j.n, NoObject>> : j \in doomed}) # {} => i \in doomed
      /\ \A i \in doomed : i.deps # {}
  BY DependentsProperties
<1> HIDE DEF doomed
<1>5. \A j, k \in DOMAIN v.queue : v.queue[j].n = v.queue[k].n => j = k
  BY <1>2 DEF NumbersDiffer
<1>6. /\ left \in Seq(Items) /\ Elems(left) = Elems(v.queue) \ doomed
      /\ \A j, k \in DOMAIN left : left[j].n = left[k].n => j = k
  <2> DEFINE S == Elems(v.queue) \ doomed
  <2>1. Elems(v.queue) \cap S = S
    OBVIOUS
  <2> HIDE DEF S
  <2>2. /\ Filter(v.queue, S) \in Seq(Items) /\ Elems(Filter(v.queue, S)) = Elems(v.queue) \cap S
        /\ \A j, k \in DOMAIN Filter(v.queue, S) :
               Filter(v.queue, S)[j].n = Filter(v.queue, S)[k].n => j = k
    BY <1>3, <1>5, FilteredItems
  <2> QED BY <2>1, <2>2 DEF S
<1>7. failures \in Seq(Items)
  BY <1>3, <1>5, FilteredItems
<1> HIDE DEF left, failures
<1>8. fs \in Seq(Events)
  BY <1>7, FailureEvents
<1> HIDE DEF fs
<1>9. /\ w \in SyncQueues /\ w.queue = left /\ w.sent = v.sent /\ w.mapped = v.mapped
  <2>1. v.events \o fs \o es \in Seq(Events)
    BY <1>3, <1>8
  <2> QED BY <1>2, <1>6, <2>1 DEF SyncQueues
<1> HIDE DEF w
<1>10. QueueOK(w, N)
  <2>1. NumbersDiffer(w)
    BY <1>2, <1>6, <1>9 DEF NumbersDiffer
  <2>2. Pending(w) \subseteq Pending(v) /\ Elems(w.queue) \subseteq Elems(v.queue)
    BY <1>6, <1>9 DEF Pending
  <2> QED BY <1>9, <2>1, <2>2 DEF QueueOK
<1>11. \A i \in Elems(w.queue) : i.deps \cap (ds \cup {<<j.n, NoObject>> : j \in doomed}) = {}
  BY <1>4, <1>6, <1>9
<1>12. ASSUME NEW j \in doomed, NEW i \in Elems(w.queue), NEW d \in i.deps PROVE ~Settles(j, d)
  <2>1. j.op # "Bulk"
    BY <1>2, <1>4 DEF WaitOK
  <2>2. Settles(j, d) => d = <<j.n, NoObject>>
    BY <2>1 DEF Settles, DependencyOn
  <2> QED BY <2>2, <1>11
<1>13. Evolves(v, w, {})
  <2>1. \A i \in Elems(w.queue) : i \in Elems(v.queue) /\ StemsFrom(i, i, {})
    BY <1>6, <1>9 DEF StemsFrom, Same
  <2>2. ASSUME NEW j \in Elems(v.queue)
        PROVE  \/ \E i \in Pending(w) : Same(i, j)
               \/ \A i \in Elems(w.queue) : \A d \in i.deps : ~Settles(j, d)
    <3>1. CASE j \in doomed
      BY <3>1, <1>12
    <3>2. CASE j \notin doomed
      BY <3>2, <1>6, <1>9 DEF Pending, Same
    <3> QED BY <3>1, <3>2
  <2> QED BY <1>9, <2>1, <2>2 DEF Evolves
<1> QED
  BY <1>1, <1>6, <1>9, <1>10, <1>11, <1>13

LEMMA EvolvesReflexive ==
    ASSUME NEW v, NEW D
    PROVE  Evolves(v, v, D)
<1>1. \A i : StemsFrom(i, i, D)
  BY DEF StemsFrom, Same
<1> QED
  BY <1>1 DEF Evolves, Pending, StemsFrom

LEMMA RequestType ==
    ASSUME NEW i \in Items
    PROVE  /\ Request(i) \in Requests /\ Same(Request(i), i)
           /\ Request(i).answer = "None" /\ Request(i).refs = i.refs
<1>1. <<>> \in Found
  BY DEF Found
<1> QED
  BY <1>1 DEF Request, Requests, Items, AnswerKinds, Same

(***************************************************************************)
(* The first item that waits for nothing is sent, and unsendable ones      *)
(* before it leave; u is the queue without these, and what depends on them *)
(* fails with them.                                                        *)
(***************************************************************************)
LEMMA DequeueParts ==
    ASSUME NEW v, NEW N \in Nat, QueueOK(v, N), v.running
    PROVE  \E u : \E failing \in Seq(Items) :
              /\ Dequeue(v) = Fail(u, {<<i.n, NoObject>> : i \in Elems(failing)},
                                   [k \in DOMAIN failing |-> FailureOf(failing[k])])
              /\ QueueOK(u, N) /\ Elems(u.queue) \subseteq Elems(v.queue) /\ v.sent \subseteq u.sent
              /\ u.mapped = v.mapped /\ u.events = v.events
              /\ \A r \in u.sent \ v.sent : \E j \in Elems(v.queue) : SentFrom(r, j, {}, v.mapped)
              /\ \A i \in Elems(failing) : /\ i \in Elems(v.queue) /\ i.op = "Update"
                                           /\ \A j \in Pending(u) : i.n # j.n
              /\ \A j, k \in DOMAIN failing : failing[j].n = failing[k].n => j = k
              /\ \A j \in Elems(v.queue) :
                    j.op = "Record" \/ j \in Elems(failing) \/ \E i \in Pending(u) : Same(i, j)
              /\ \A i \in Elems(failing) : IsUnsendable(v, i)
<1> DEFINE ready    == {k \in DOMAIN v.queue : v.queue[k].deps = {}}
           sendable == {k \in ready : ~IsUnsendable(v, v.queue[k])}
           sent     == {k \in sendable : \A other \in sendable : k <= other}
           skipped  == {k \in ready \ sendable : \A other \in sendable : k < other}
           Failing  == {v.queue[k] : k \in {k \in skipped : v.queue[k].op # "Record"}}
           Staying  == {v.queue[k] : k \in DOMAIN v.queue \ (sent \cup skipped)}
           failing  == Filter(v.queue, Failing)
           rest     == Filter(v.queue, Staying)
           requests == {Request(v.queue[k]) : k \in sent}
           u == [v EXCEPT !.queue = rest, !.sent = @ \cup requests]
<1>1. Dequeue(v) = Fail(u, {<<i.n, NoObject>> : i \in Elems(failing)},
                        [k \in DOMAIN failing |-> FailureOf(failing[k])])
  BY DEF Dequeue
<1>2. /\ v \in SyncQueues /\ NumbersDiffer(v) /\ (\A i \in Elems(v.queue) : WaitOK(i))
      /\ \A i \in Pending(v) : ItemOK(i, N)
      /\ \A r \in v.sent : AnswerFits(r)
  BY DEF QueueOK
<1>3. v.queue \in Seq(Items) /\ v.sent \subseteq Requests
  BY <1>2 DEF SyncQueues
<1>4. \A j, k \in DOMAIN v.queue : v.queue[j].n = v.queue[k].n => j = k
  BY <1>2 DEF NumbersDiffer
<1>5. /\ sent \subseteq DOMAIN v.queue /\ skipped \subseteq DOMAIN v.queue
      /\ \A k \in sent : v.queue[k].deps = {} /\ ~IsUnsendable(v, v.queue[k])
      /\ \A k \in skipped : v.queue[k].deps = {} /\ IsUnsendable(v, v.queue[k])
      /\ \A k \in DOMAIN v.queue : v.queue[k] \in Items
  BY <1>3
<1> HIDE DEF sent, skipped
<1>6. /\ rest \in Seq(Items) /\ Elems(rest) = Staying
      /\ \A j, k \in DOMAIN rest : rest[j].n = rest[k].n => j = k
  <2>1. Elems(v.queue) \cap Staying = Staying
    BY DEF Elems
  <2> HIDE DEF Staying
  <2> QED BY <1>3, <1>4, <2>1, FilteredItems
<1>7. /\ failing \in Seq(Items) /\ Elems(failing) = Failing
      /\ \A j, k \in DOMAIN failing : failing[j].n = failing[k].n => j = k
  <2>1. Elems(v.queue) \cap Failing = Failing
    BY <1>5 DEF Elems
  <2> HIDE DEF Failing
  <2> QED BY <1>3, <1>4, <2>1, FilteredItems
<1> HIDE DEF rest, failing
<1>9. /\ requests \subseteq Requests
      /\ \A k \in sent : Same(Request(v.queue[k]), v.queue[k]) /\ Request(v.queue[k]).answer = "None"
      /\ \A k \in sent : Request(v.queue[k]).refs = v.queue[k].refs
  BY <1>5, RequestType
<1>10. /\ u \in SyncQueues /\ u.queue = rest /\ u.sent = v.sent \cup requests
       /\ u.mapped = v.mapped /\ u.events = v.events
  BY <1>2, <1>3, <1>6, <1>9 DEF SyncQueues
<1> HIDE DEF u
<1>11. Elems(u.queue) \subseteq Elems(v.queue)
  <2>1. Staying \subseteq Elems(v.queue)
    BY DEF Elems
  <2> QED BY <2>1, <1>6, <1>10
<1>12. QueueOK(u, N)
  <2>1. NumbersDiffer(u)
    <3>1. \A j, k \in DOMAIN u.queue : u.queue[j].n = u.queue[k].n => j = k
      BY <1>6, <1>10
    <3>2. ASSUME NEW r \in u.sent, NEW s \in u.sent, r.n = s.n PROVE r = s
      <4>1. CASE r \in v.sent /\ s \in v.sent
        BY <4>1, <3>2, <1>2 DEF NumbersDiffer
      <4>2. \A a \in v.sent, b \in requests : a.n # b.n
        BY <1>2, <1>5, <1>9 DEF NumbersDiffer, Same, Elems
      <4>3. ASSUME r \in requests, s \in requests PROVE r = s
        <5>1. PICK j \in sent, k \in sent : r = Request(v.queue[j]) /\ s = Request(v.queue[k])
          BY <4>3
        <5>2. v.queue[j].n = v.queue[k].n
          BY <5>1, <3>2, <1>9 DEF Same
        <5> QED BY <5>1, <5>2, <1>4, <1>5
      <4> QED BY <4>1, <4>2, <4>3, <3>2, <1>10
    <3>3. ASSUME NEW i \in Elems(u.queue), NEW r \in u.sent PROVE i.n # r.n
      <4>1. CASE r \in v.sent
        BY <4>1, <1>2, <1>11 DEF NumbersDiffer
      <4>2. CASE r \in requests
        <5>1. PICK j \in sent : r = Request(v.queue[j])
          BY <4>2
        <5>2. PICK k \in DOMAIN v.queue \ sent : i = v.queue[k]
          BY <1>6, <1>10
        <5>3. r.n = v.queue[j].n /\ j # k
          BY <5>1, <5>2, <1>9 DEF Same
        <5> QED BY <5>2, <5>3, <1>4, <1>5
      <4> QED BY <4>1, <4>2, <1>10
    <3> QED BY <3>1, <3>2, <3>3 DEF NumbersDiffer
  <2>2. ASSUME NEW k \in sent
        PROVE  ItemOK(Request(v.queue[k]), N) /\ AnswerFits(Request(v.queue[k]))
    <3>1. ItemOK(v.queue[k], N)
      BY <1>2, <1>5 DEF Pending, Elems
    <3> QED BY <3>1, <1>9 DEF ItemOK, Same, AnswerFits
  <2>3. \A i \in Pending(u) : ItemOK(i, N)
    BY <1>2, <1>10, <1>11, <2>2 DEF Pending
  <2>4. \A i \in Elems(u.queue) : WaitOK(i)
    BY <1>2, <1>11
  <2>5. \A r \in u.sent : AnswerFits(r)
    BY <1>2, <1>10, <2>2
  <2> QED BY <1>10, <2>1, <2>3, <2>4, <2>5 DEF QueueOK
<1>13. ASSUME NEW r \in u.sent \ v.sent
       PROVE  \E j \in Elems(v.queue) : SentFrom(r, j, {}, v.mapped)
  <2>1. PICK k \in sent : r = Request(v.queue[k])
    BY <1>10
  <2>2. v.queue[k] \in Elems(v.queue)
    BY <1>5 DEF Elems
  <2>3. SentFrom(r, v.queue[k], {}, v.mapped)
    BY <1>5, <1>9, <2>1 DEF SentFrom, IsUnsendable
  <2> QED BY <2>2, <2>3
<1>14. ASSUME NEW i \in Elems(failing)
       PROVE  /\ i \in Elems(v.queue) /\ i.op = "Update"
              /\ \A j \in Pending(u) : i.n # j.n
  <2>1. PICK k \in skipped : i = v.queue[k] /\ i.op # "Record"
    BY <1>7
  <2>2. i \in Elems(v.queue) /\ i.op = "Update"
    BY <2>1, <1>5 DEF Elems, IsUnsendable, Creations, Items, Operations
  <2>3. ASSUME NEW j \in Elems(u.queue) PROVE i.n # j.n
    <3>1. PICK l \in DOMAIN v.queue \ (sent \cup skipped) : j = v.queue[l]
      BY <1>6, <1>10
    <3> QED BY <2>1, <3>1, <1>4, <1>5
  <2>4. \A j \in v.sent : i.n # j.n
    BY <2>2, <1>2 DEF NumbersDiffer
  <2>5. ASSUME NEW j \in requests PROVE i.n # j.n
    <3>1. PICK l \in sent : j = Request(v.queue[l])
      OBVIOUS
    <3>2. j.n = v.queue[l].n
      BY <3>1, <1>9 DEF Same
    <3>3. ~IsUnsendable(v, v.queue[l]) /\ IsUnsendable(v, v.queue[k])
      BY <1>5
    <3> QED BY <2>1, <3>2, <3>3, <1>4, <1>5
  <2> QED BY <2>2, <2>3, <2>4, <2>5, <1>10 DEF Pending
<1>15. ASSUME NEW j \in Elems(v.queue)
       PROVE  j.op = "Record" \/ j \in Elems(failing) \/ \E i \in Pending(u) : Same(i, j)
  <2>1. PICK k \in DOMAIN v.queue : j = v.queue[k]
    BY DEF Elems
  <2>2. CASE k \in sent
    <3>1. Request(j) \in Pending(u) /\ Same(Request(j), j)
      BY <2>1, <2>2, <1>9, <1>10 DEF Pending
    <3> QED BY <3>1
  <2>3. CASE k \in skipped
    BY <2>1, <2>3, <1>7
  <2>4. CASE k \notin sent \cup skipped
    <3>1. j \in Pending(u) /\ Same(j, j)
      BY <2>1, <2>4, <1>6, <1>10 DEF Pending, Same
    <3> QED BY <3>1
  <2> QED BY <2>2, <2>3, <2>4
<1>16. v.sent \subseteq u.sent
  BY <1>10
<1>17. \A i \in Elems(failing) : IsUnsendable(v, i)
  BY <1>5, <1>7
<1> HIDE DEF requests
<1> QED
  BY <1>1, <1>7, <1>10, <1>11, <1>12, <1>13, <1>14, <1>15, <1>16, <1>17

LEMMA DequeueOK ==
    ASSUME NEW v, NEW N \in Nat, QueueOK(v, N)
    PROVE  /\ QueueOK(Dequeue(v), N) /\ Evolves(v, Dequeue(v), {})
           /\ Dequeue(v).mapped = v.mapped
<1>1. CASE ~v.running
  <2>1. Dequeue(v) = v
    BY <1>1 DEF Dequeue
  <2> QED BY <2>1, EvolvesReflexive
<1>2. CASE v.running
  <2>1. PICK u, failing :
              /\ failing \in Seq(Items)
              /\ Dequeue(v) = Fail(u, {<<i.n, NoObject>> : i \in Elems(failing)},
                                   [k \in DOMAIN failing |-> FailureOf(failing[k])])
              /\ QueueOK(u, N) /\ Elems(u.queue) \subseteq Elems(v.queue) /\ v.sent \subseteq u.sent
              /\ u.mapped = v.mapped /\ u.events = v.events
              /\ \A r \in u.sent \ v.sent : \E j \in Elems(v.queue) : SentFrom(r, j, {}, v.mapped)
              /\ \A i \in Elems(failing) : /\ i \in Elems(v.queue) /\ i.op = "Update"
                                           /\ \A j \in Pending(u) : i.n # j.n
              /\ \A j \in Elems(v.queue) :
                    j.op = "Record" \/ j \in Elems(failing) \/ \E i \in Pending(u) : Same(i, j)
    BY <1>2, DequeueParts
  <2> DEFINE ds == {<<i.n, NoObject>> : i \in Elems(failing)}
             es == [k \in DOMAIN failing |-> FailureOf(failing[k])]
             w == Fail(u, ds, es)
  <2>2. es \in Seq(Events)
    BY <2>1, FailureEvents
  <2>3. Dequeue(v) = w
    BY <2>1
  <2> HIDE DEF ds, es
  <2>4. /\ QueueOK(w, N) /\ Evolves(u, w, {})
        /\ \A i \in Elems(w.queue) : i.deps \cap ds = {}
        /\ Elems(w.queue) \subseteq Elems(u.queue)
        /\ w.sent = u.sent /\ w.mapped = u.mapped
    BY <2>1, <2>2, FailOK
  <2> HIDE DEF w
  <2>5. \A i \in Elems(w.queue) : i \in Elems(v.queue) /\ StemsFrom(i, i, {})
    BY <2>1, <2>4 DEF StemsFrom, Same
  <2>6. \A r \in w.sent \ v.sent : \E j \in Elems(v.queue) : SentFrom(r, j, {}, w.mapped)
    BY <2>1, <2>4
  <2>7. ASSUME NEW j \in Elems(v.queue)
        PROVE  \/ \E i \in Pending(w) : Same(i, j)
               \/ \A i \in Elems(w.queue) : \A d \in i.deps : ~Settles(j, d)
    <3>1. CASE j.op = "Record"
      BY <3>1 DEF Settles, IsContent, Creations
    <3>2. CASE j \in Elems(failing)
      <4>1. <<j.n, NoObject>> \in ds /\ j.op # "Bulk"
        BY <3>2, <2>1 DEF ds
      <4>2. \A d : Settles(j, d) => d \in ds
        BY <4>1 DEF Settles, DependencyOn
      <4> QED BY <4>2, <2>4
    <3>3. ASSUME NEW i \in Pending(u), Same(i, j)
          PROVE  \/ \E k \in Pending(w) : Same(k, j)
                 \/ \A k \in Elems(w.queue) : \A d \in k.deps : ~Settles(j, d)
      <4>1. CASE i \in u.sent
        BY <4>1, <3>3, <2>4 DEF Pending
      <4>2. CASE i \in Elems(u.queue) /\ \E k \in Pending(w) : Same(k, i)
        BY <4>2, <3>3 DEF Same
      <4>3. CASE /\ i \in Elems(u.queue)
                 /\ \A k \in Elems(w.queue) : \A d \in k.deps : ~Settles(i, d)
        <5>1. \A d : Settles(j, d) => Settles(i, d)
          BY <3>3 DEF Settles, Same, IsContent, DependencyOn
        <5> QED BY <4>3, <5>1
      <4> QED BY <4>1, <4>2, <4>3, <2>4 DEF Pending, Evolves
    <3> QED BY <3>1, <3>2, <3>3, <2>1
  <2>8. v.sent \subseteq w.sent /\ v.mapped \subseteq w.mapped /\ w.mapped = v.mapped
    BY <2>1, <2>4
  <2>9. Evolves(v, w, {})
    BY <2>5, <2>6, <2>7, <2>8 DEF Evolves
  <2> QED BY <2>3, <2>4, <2>8, <2>9
<1>3. v.running \in BOOLEAN
  BY DEF QueueOK, SyncQueues
<1> QED
  BY <1>1, <1>2, <1>3

-----------------------------------------------------------------------------
(* The answers.                                                            *)

KeysOf(r) == {DependencyOn(r, o) : o \in Elems(r.objs)}

\* w is well formed, v without keys of D, and nothing in it waits for a key of K.
Frees(v, w, D, K, N) ==
    /\ QueueOK(w, N) /\ Evolves(v, w, D)
    /\ \A i \in Elems(w.queue) : i.deps \cap K = {}

LEMMA EvolvesMore ==
    ASSUME NEW v, NEW w, NEW D, NEW E, D \subseteq E, Evolves(v, w, D)
    PROVE  Evolves(v, w, E)
<1>1. \A i, j : StemsFrom(i, j, D) => StemsFrom(i, j, E)
  BY DEF StemsFrom
<1>2. \A i, j : SentFrom(i, j, D, w.mapped) => SentFrom(i, j, E, w.mapped)
  BY DEF SentFrom
<1> QED
  BY <1>1, <1>2 DEF Evolves

LEMMA FreesThen ==
    ASSUME NEW u, NEW v, NEW w, NEW D, NEW E, NEW K, NEW N, Frees(u, v, D, K, N),
           QueueOK(w, N), Evolves(v, w, E), E \subseteq D
    PROVE  Frees(u, w, D, K, N)
<1>1. Evolves(u, w, D)
  BY EvolvesMore, EvolvesTransitive DEF Frees
<1>2. \A i \in Elems(w.queue) : \E j \in Elems(v.queue) : i.deps \subseteq j.deps
  BY DEF Evolves, StemsFrom
<1> QED
  BY <1>1, <1>2 DEF Frees

\* One more key is released.
LEMMA FreesRelease ==
    ASSUME NEW u, NEW v, NEW D, NEW K, NEW N \in Nat, Frees(u, v, D, K, N), NEW d \in D
    PROVE  Frees(u, Release(v, d), D, K \cup {d}, N)
<1> DEFINE w == Release(v, d)
<1>1. /\ QueueOK(w, N) /\ Evolves(v, w, {d}) /\ \A i \in Elems(w.queue) : d \notin i.deps
  BY ReleaseOK DEF Frees
<1> HIDE DEF w
<1>2. Frees(u, w, D, K, N)
  BY <1>1, FreesThen
<1> QED
  BY <1>1, <1>2 DEF Frees, w

LEMMA FreesNothing ==
    ASSUME NEW v, NEW D, NEW N, QueueOK(v, N)
    PROVE  Frees(v, v, D, {}, N)
BY EvolvesReflexive DEF Frees

\* Events about the request's objects.
LEMMA AnswerEvents ==
    ASSUME NEW r \in Requests, AnswerFits(r), NEW o \in Elems(r.objs), NEW kind \in EventKinds
    PROVE  /\ o \in Objects /\ r.objs[1] \in Elems(r.objs) /\ r.n \in Nat
           /\ Event(kind, o, r.n, NoConflict) \in Events
           /\ r.answer # "None" => /\ r.found[o] \in Versions
                                   /\ Event(kind, o, r.n, r.found[o]) \in Events
<1>1. r.objs \in Seq(Objects) /\ r.objs # <<>> /\ r.n \in Nat
  BY DEF Requests, ObjectLists
<1>2. o \in Objects /\ r.objs[1] \in Elems(r.objs)
  BY <1>1 DEF Elems
<1>3. NoConflict \in Versions
  BY DEF NoConflict, Versions
<1>4. r.answer # "None" => r.found[o] \in Versions
  BY DEF AnswerFits
<1> QED
  BY <1>1, <1>2, <1>3, <1>4 DEF Event, Events, Versions

\* Updates, creations that are denied, and actions are answered alike.
LEMMA AnswerTaken ==
    ASSUME NEW v, NEW N \in Nat, QueueOK(v, N), NEW d, NEW e \in Events
    PROVE  /\ Frees(v, Dequeue(Emit(Release(v, d), e)), {d}, {d}, N)
           /\ Frees(v, Dequeue(Release(Emit(v, e), d)), {d}, {d}, N)
           /\ \A o : \A rev \in Nat :
                 Frees(v, Dequeue(Emit(WithNewRevision(Release(v, d), o, rev), e)), {d}, {d}, N)
<1>1. Frees(v, Release(v, d), {d}, {d}, N)
  <2>1. Frees(v, Release(v, d), {d}, {} \cup {d}, N)
    BY FreesNothing, FreesRelease
  <2>2. {} \cup {d} = {d}
    OBVIOUS
  <2> QED BY <2>1, <2>2
<1>2. ASSUME NEW u, Frees(v, u, {d}, {d}, N)
      PROVE  /\ Frees(v, Emit(u, e), {d}, {d}, N) /\ Frees(v, Dequeue(u), {d}, {d}, N)
  <2>1. QueueOK(u, N)
    BY <1>2 DEF Frees
  <2>2. QueueOK(Emit(u, e), N) /\ Evolves(u, Emit(u, e), {})
    BY <2>1, EmitOK
  <2>3. QueueOK(Dequeue(u), N) /\ Evolves(u, Dequeue(u), {})
    BY <2>1, DequeueOK
  <2> QED BY <1>2, <2>2, <2>3, FreesThen
<1>3. ASSUME NEW o, NEW rev \in Nat
      PROVE  Frees(v, WithNewRevision(Release(v, d), o, rev), {d}, {d}, N)
  <2>1. QueueOK(Release(v, d), N)
    BY <1>1 DEF Frees
  <2>2. /\ QueueOK(WithNewRevision(Release(v, d), o, rev), N)
        /\ Evolves(Release(v, d), WithNewRevision(Release(v, d), o, rev), {})
    BY <2>1, WithNewRevisionOK
  <2> QED BY <1>1, <2>2, FreesThen
<1>4. Frees(v, Release(Emit(v, e), d), {d}, {d}, N)
  <2>1. QueueOK(Emit(v, e), N) /\ Evolves(v, Emit(v, e), {})
    BY EmitOK
  <2>2. Frees(v, Emit(v, e), {d}, {}, N)
    BY <2>1, FreesNothing, FreesThen
  <2>3. Frees(v, Release(Emit(v, e), d), {d}, {} \cup {d}, N)
    BY <2>2, FreesRelease
  <2>4. {} \cup {d} = {d}
    OBVIOUS
  <2> QED BY <2>3, <2>4
<1> QED
  BY <1>1, <1>2, <1>3, <1>4

\* One object of a creation.
LEMMA ObjectCreatedFrees ==
    ASSUME NEW u, NEW v, NEW D, NEW K, NEW N \in Nat, Frees(u, v, D, K, N),
           NEW r \in Requests, AnswerFits(r), r.answer = "Created",
           NEW o \in Elems(r.objs), DependencyOn(r, o) \in D
    PROVE  Frees(u, ObjectCreated(v, r, o), D, K \cup {DependencyOn(r, o)}, N)
<1> DEFINE d == DependencyOn(r, o)
           now == r.found[o]
           named == [Renamed(v, o, d) EXCEPT !.mapped = @ \cup {o}]
           released == Release(named, d)
           revised == WithNewRevision(released, o, now.rev)
           e == Event("Created", o, r.n, now)
           emitted == Emit(revised, e)
<1>1. o \in Objects /\ now \in Versions /\ e \in Events
  BY AnswerEvents DEF EventKinds
<1>2. now.rev \in Nat
  BY <1>1 DEF Versions
<1>3. ObjectCreated(v, r, o) = Dequeue(emitted)
  BY DEF ObjectCreated
<1> HIDE DEF d, now, e
<1>4. Frees(u, named, D, K, N)
  <2>1. QueueOK(v, N)
    BY DEF Frees
  <2>2. /\ QueueOK(named, N) /\ Evolves(v, named, {})
        /\ named.events = v.events /\ named.sent = v.sent
        /\ named.mapped = v.mapped \cup {o}
    BY <1>1, <2>1, RenamedOK
  <2> QED BY <2>2, FreesThen
<1> HIDE DEF named
<1>5. Frees(u, released, D, K \cup {d}, N)
  BY <1>4, FreesRelease DEF d
<1> HIDE DEF released
<1>6. Frees(u, revised, D, K \cup {d}, N)
  <2>1. QueueOK(released, N)
    BY <1>5 DEF Frees
  <2>2. QueueOK(revised, N) /\ Evolves(released, revised, {})
    BY <1>2, <2>1, WithNewRevisionOK
  <2> QED BY <1>5, <2>2, FreesThen
<1> HIDE DEF revised
<1>7. Frees(u, emitted, D, K \cup {d}, N)
  <2>1. QueueOK(revised, N)
    BY <1>6 DEF Frees
  <2>2. QueueOK(emitted, N) /\ Evolves(revised, emitted, {})
    BY <1>1, <2>1, EmitOK
  <2> QED BY <1>6, <2>2, FreesThen
<1> HIDE DEF emitted
<1>8. Frees(u, Dequeue(emitted), D, K \cup {d}, N)
  <2>1. QueueOK(emitted, N)
    BY <1>7 DEF Frees
  <2>2. QueueOK(Dequeue(emitted), N) /\ Evolves(emitted, Dequeue(emitted), {})
    BY <2>1, DequeueOK
  <2> QED BY <1>7, <2>2, FreesThen
<1> QED
  BY <1>3, <1>8 DEF d

\* The recursion over the objects of a creation.
LEMMA CreatedEachSteps ==
    ASSUME NEW v, NEW N \in Nat, QueueOK(v, N),
           NEW r \in Requests, AnswerFits(r), r.answer = "Created"
    PROVE  LET created == CreatedEach(v, r)
           IN  /\ created[0] = v
               /\ \A k \in 1..Len(r.objs) : created[k] = ObjectCreated(created[k - 1], r, r.objs[k])
<1> DEFINE n == Len(r.objs)
           V == {x \in SyncQueues : QueueOK(x, N)}
           Step(p, k) == ObjectCreated(p, r, r.objs[k])
           Body(f, k) == IF k = 0 THEN v ELSE Step(f[k - 1], k)
<1>1. n \in Nat /\ (\A k \in 1..n : r.objs[k] \in Elems(r.objs)) /\ v \in V
  <2>1. r.objs \in Seq(Objects)
    BY DEF Requests, ObjectLists
  <2> QED BY <2>1 DEF Elems, QueueOK
<1>2. ASSUME NEW p \in V, NEW k \in 1..n PROVE Step(p, k) \in V
  <2> DEFINE o == r.objs[k]
             D == {DependencyOn(r, o)}
  <2>1. o \in Elems(r.objs)
    BY <1>1
  <2> HIDE DEF o
  <2>2. Frees(p, p, D, {}, N)
    BY FreesNothing
  <2>3. Frees(p, ObjectCreated(p, r, o), D, {} \cup {DependencyOn(r, o)}, N)
    BY <2>1, <2>2, ObjectCreatedFrees
  <2> QED BY <2>3 DEF Frees, QueueOK, o
<1> HIDE DEF n, Step, V
<1>3. \E g : g = [k \in 0..n |-> Body(g, k)]
  <2> DEFINE step == [p \in V \X (1..n) |-> Step(p[1], p[2])]
  <2>1. step \in [V \X (1..n) -> V]
    BY <1>2
  <2>2. \A p \in V, k \in 1..n : step[<<p, k>>] = Step(p, k)
    OBVIOUS
  <2> HIDE DEF step
  <2>3. PICK g : Iterates(V, n, v, step, g)
    BY <1>1, <2>1, IterationExists
  <2>4. \A k \in 0..n : k # 0 => k \in 1..n /\ g[k - 1] \in V
    BY <1>1, <2>3 DEF Iterates
  <2>5. g = [k \in 0..n |-> Body(g, k)]
    BY <2>2, <2>3, <2>4 DEF Iterates
  <2> QED BY <2>5
<1> DEFINE created == CHOOSE f : f = [k \in 0..n |-> Body(f, k)]
<1>4. created = [k \in 0..n |-> Body(created, k)]
  BY <1>3
<1>5. created = CreatedEach(v, r)
  BY DEF CreatedEach, n, Step
<1> HIDE DEF created
<1>6. created[0] = v /\ \A k \in 1..n : created[k] = Step(created[k - 1], k)
  BY <1>1, <1>4
<1> QED
  BY <1>5, <1>6 DEF n, Step

LEMMA CreationTaken ==
    ASSUME NEW v, NEW N \in Nat, QueueOK(v, N),
           NEW r \in Requests, AnswerFits(r), r.answer = "Created"
    PROVE  Frees(v, CreatedEach(v, r)[Len(r.objs)], KeysOf(r), KeysOf(r), N)
<1> DEFINE n == Len(r.objs)
           created == CreatedEach(v, r)
           KeysTo(k) == {DependencyOn(r, r.objs[j]) : j \in 1..k}
           S == {k \in Nat : k <= n => Frees(v, created[k], KeysOf(r), KeysTo(k), N)}
<1>1. /\ n \in Nat /\ \A k \in 1..n : r.objs[k] \in Elems(r.objs)
      /\ KeysTo(n) = KeysOf(r)
  <2>1. r.objs \in Seq(Objects)
    BY DEF Requests, ObjectLists
  <2> QED BY <2>1 DEF Elems, KeysOf
<1>2. /\ created[0] = v
      /\ \A k \in 1..n : created[k] = ObjectCreated(created[k - 1], r, r.objs[k])
  BY CreatedEachSteps
<1> HIDE DEF created, n
<1>3. 0 \in S
  <2>1. KeysTo(0) = {}
    OBVIOUS
  <2> QED BY <1>2, <2>1, FreesNothing
<1>4. ASSUME NEW k \in Nat, k \in S PROVE k + 1 \in S
  <2>1. SUFFICES ASSUME k + 1 <= n
                 PROVE  Frees(v, created[k + 1], KeysOf(r), KeysTo(k + 1), N)
    OBVIOUS
  <2> DEFINE o == r.objs[k + 1]
  <2>2. k + 1 \in 1..n /\ (k + 1) - 1 = k
    BY <1>1, <2>1
  <2>3. o \in Elems(r.objs) /\ DependencyOn(r, o) \in KeysOf(r)
    BY <1>1, <2>2 DEF KeysOf
  <2>4. created[k + 1] = ObjectCreated(created[k], r, o)
    BY <1>2, <2>2
  <2>5. KeysTo(k + 1) = KeysTo(k) \cup {DependencyOn(r, o)}
    <3>1. 1..(k + 1) = (1..k) \cup {k + 1}
      OBVIOUS
    <3> QED BY <3>1
  <2>6. Frees(v, created[k], KeysOf(r), KeysTo(k), N)
    BY <1>1, <1>4, <2>1
  <2> HIDE DEF o, KeysTo
  <2>7. Frees(v, ObjectCreated(created[k], r, o), KeysOf(r), KeysTo(k) \cup {DependencyOn(r, o)}, N)
    BY <2>3, <2>6, ObjectCreatedFrees
  <2> QED BY <2>4, <2>5, <2>7
<1> HIDE DEF S
<1>5. Nat \subseteq S
  BY <1>3, <1>4, SetInduction
<1>6. Frees(v, created[n], KeysOf(r), KeysTo(n), N)
  BY <1>1, <1>5 DEF S
<1> QED
  BY <1>1, <1>6 DEF created, n

\* Without one of its requests, the queue is still well formed.
LEMMA WithoutOK ==
    ASSUME NEW N \in Nat, QueueOK(sync, N), NEW r \in sync.sent
    PROVE  /\ QueueOK(Without(r), N) /\ r \in Requests /\ AnswerFits(r) /\ ItemOK(r, N)
           /\ Without(r).queue = sync.queue /\ Without(r).sent = sync.sent \ {r}
           /\ Without(r).mapped = sync.mapped /\ Without(r).events = sync.events
<1>1. sync \in SyncQueues
  BY DEF QueueOK
<1>2. /\ Without(r) \in SyncQueues
      /\ Without(r).queue = sync.queue /\ Without(r).sent = sync.sent \ {r}
      /\ Without(r).mapped = sync.mapped /\ Without(r).events = sync.events
  BY <1>1 DEF Without, SyncQueues
<1>3. r \in Requests
  BY <1>1 DEF SyncQueues
<1>4. AnswerFits(r) /\ ItemOK(r, N)
  BY DEF QueueOK, Pending
<1> DEFINE v == Without(r)
<1> HIDE DEF v
<1>5. v \in SyncQueues /\ v.queue = sync.queue /\ v.sent = sync.sent \ {r}
  BY <1>2 DEF v
<1>6. NumbersDiffer(v)
  BY <1>5 DEF QueueOK, NumbersDiffer
<1>7. QueueOK(v, N)
  BY <1>5, <1>6 DEF QueueOK, Pending
<1> QED
  BY <1>2, <1>3, <1>4, <1>7 DEF v

\* All that depends on a failed request fails.
LEMMA FailAllFrees ==
    ASSUME NEW N \in Nat, QueueOK(sync, N), NEW r \in sync.sent, NEW kind \in EventKinds
    PROVE  Frees(Without(r), FailAll(r, kind), KeysOf(r), KeysOf(r), N)
<1> DEFINE es == [k \in DOMAIN r.objs |-> Event(kind, r.objs[k], r.n, NoConflict)]
           v == Without(r)
           ds == KeysOf(r)
           w == Fail(v, ds, es)
<1>1. QueueOK(v, N) /\ r \in Requests /\ AnswerFits(r)
  BY WithoutOK
<1>2. es \in Seq(Events)
  <2>1. r.objs \in Seq(Objects) /\ Len(r.objs) \in Nat /\ DOMAIN r.objs = 1..Len(r.objs)
    BY <1>1 DEF Requests, ObjectLists
  <2>2. ASSUME NEW k \in DOMAIN r.objs PROVE es[k] \in Events
    <3>1. r.objs[k] \in Elems(r.objs)
      BY DEF Elems
    <3> DEFINE o == r.objs[k]
    <3> HIDE DEF o
    <3>2. Event(kind, o, r.n, NoConflict) \in Events
      BY <1>1, <3>1, AnswerEvents DEF o
    <3> QED BY <3>2 DEF o
  <2>3. es \in [1..Len(r.objs) -> Events]
    BY <2>1, <2>2
  <2> QED BY <2>1, <2>3
<1>3. FailAll(r, kind) = w
  BY DEF FailAll, KeysOf
<1> HIDE DEF es, v, ds
<1>4. /\ QueueOK(w, N) /\ Evolves(v, w, {}) /\ \A i \in Elems(w.queue) : i.deps \cap ds = {}
  BY <1>1, <1>2, FailOK
<1> HIDE DEF w
<1>5. Evolves(v, w, ds)
  BY <1>4, EvolvesMore
<1> QED
  BY <1>3, <1>4, <1>5 DEF Frees, v, ds

LEMMA OneKey ==
    ASSUME NEW r \in Requests, r.op # "Bulk"
    PROVE  KeysOf(r) = {Whole(r)}
<1>1. r.objs[1] \in Elems(r.objs)
  BY DEF Requests, ObjectLists, Elems
<1> QED
  BY <1>1 DEF KeysOf, DependencyOn, Whole

\* The queue after an answer, whichever it is.
LEMMA ReceiveFrees ==
    ASSUME NEW N \in Nat, QueueOK(sync, N), NEW r \in sync.sent, Receive(r)
    PROVE  Frees(Without(r), sync', KeysOf(r), KeysOf(r), N)
<1> DEFINE v == Without(r)
           o == r.objs[1]
           d == Whole(r)
<1>1. QueueOK(v, N) /\ r \in Requests /\ AnswerFits(r)
  BY WithoutOK
<1>2. o \in Elems(r.objs) /\ o \in Objects
  BY <1>1 DEF Requests, ObjectLists, Elems
<1> HIDE DEF v, o, d
<1>3. ASSUME NEW kind \in EventKinds
      PROVE  /\ Event(kind, o, r.n, NoConflict) \in Events
             /\ r.answer # "None" => /\ r.found[o].rev \in Nat
                                     /\ Event(kind, o, r.n, r.found[o]) \in Events
  BY <1>1, <1>2, AnswerEvents DEF Versions
<1>4. /\ "Updated" \in EventKinds /\ "Rejected" \in EventKinds /\ "Denied" \in EventKinds
      /\ "Recorded" \in EventKinds /\ "KeyConflict" \in EventKinds
  BY DEF EventKinds
<1>5. CASE OnAccepted(r)
  <2>1. /\ r.answer = "Accepted"
        /\ sync' = Dequeue(Emit(WithNewRevision(Release(v, d), o, r.found[o].rev),
                                Event("Updated", o, r.n, r.found[o])))
    BY <1>5 DEF OnAccepted, v, o, d
  <2>2. KeysOf(r) = {d}
    BY <1>1, <2>1, OneKey DEF AnswerFits, d
  <2>3. PICK e, rev : e = Event("Updated", o, r.n, r.found[o]) /\ rev = r.found[o].rev
    OBVIOUS
  <2>4. e \in Events /\ rev \in Nat
    BY <1>3, <1>4, <2>1, <2>3
  <2>5. Frees(v, Dequeue(Emit(WithNewRevision(Release(v, d), o, rev), e)), {d}, {d}, N)
    BY <1>1, <2>4, AnswerTaken
  <2> QED BY <2>1, <2>2, <2>3, <2>5 DEF v
<1>6. CASE OnRejected(r)
  <2>1. /\ r.answer = "Rejected"
        /\ sync' = Dequeue(Release(Emit(v, Event("Rejected", o, r.n, r.found[o])), d))
    BY <1>6 DEF OnRejected, v, o, d
  <2>2. KeysOf(r) = {d}
    BY <1>1, <2>1, OneKey DEF AnswerFits, d
  <2>3. PICK e : e = Event("Rejected", o, r.n, r.found[o])
    OBVIOUS
  <2>4. e \in Events
    BY <1>3, <1>4, <2>1, <2>3
  <2>5. Frees(v, Dequeue(Release(Emit(v, e), d)), {d}, {d}, N)
    BY <1>1, <2>4, AnswerTaken
  <2> QED BY <2>1, <2>2, <2>3, <2>5 DEF v
<1>7. CASE OnCreated(r)
  <2>1. r.answer = "Created" /\ sync' = CreatedEach(v, r)[Len(r.objs)]
    BY <1>7 DEF OnCreated, v
  <2>2. Frees(v, CreatedEach(v, r)[Len(r.objs)], KeysOf(r), KeysOf(r), N)
    BY <1>1, <2>1, CreationTaken
  <2> QED BY <2>1, <2>2 DEF v
<1>8. CASE OnDenied(r)
  <2>1. /\ r.answer = "Denied"
        /\ sync' = Dequeue(Emit(Release(v, d), Event("Denied", o, r.n, NoConflict)))
    BY <1>8 DEF OnDenied, v, o, d
  <2>2. KeysOf(r) = {d}
    BY <1>1, <2>1, OneKey DEF AnswerFits, d
  <2>3. PICK e : e = Event("Denied", o, r.n, NoConflict)
    OBVIOUS
  <2>4. e \in Events
    BY <1>3, <1>4, <2>3
  <2>5. Frees(v, Dequeue(Emit(Release(v, d), e)), {d}, {d}, N)
    BY <1>1, <2>4, AnswerTaken
  <2> QED BY <2>1, <2>2, <2>3, <2>5 DEF v
<1>9. CASE OnKeyConflict(r)
  <2>1. sync' = Dequeue(FailAll(r, "KeyConflict"))
    BY <1>9 DEF OnKeyConflict
  <2>2. Frees(v, FailAll(r, "KeyConflict"), KeysOf(r), KeysOf(r), N)
    BY <1>4, FailAllFrees DEF v
  <2>3. PICK u : u = FailAll(r, "KeyConflict")
    OBVIOUS
  <2>4. QueueOK(u, N) /\ Frees(v, u, KeysOf(r), KeysOf(r), N)
    BY <2>2, <2>3 DEF Frees
  <2>5. QueueOK(Dequeue(u), N) /\ Evolves(u, Dequeue(u), {})
    BY <2>4, DequeueOK
  <2>6. Frees(v, Dequeue(u), KeysOf(r), KeysOf(r), N)
    BY <2>4, <2>5, FreesThen
  <2> QED BY <2>1, <2>3, <2>6 DEF v
<1>10. CASE OnRecorded(r)
  <2>1. /\ r.answer = "Recorded"
        /\ sync' = Dequeue(Emit(Release(v, d), Event("Recorded", o, r.n, NoConflict)))
    BY <1>10 DEF OnRecorded, v, o, d
  <2>2. KeysOf(r) = {d}
    BY <1>1, <2>1, OneKey DEF AnswerFits, d
  <2>3. PICK e : e = Event("Recorded", o, r.n, NoConflict)
    OBVIOUS
  <2>4. e \in Events
    BY <1>3, <1>4, <2>3
  <2>5. Frees(v, Dequeue(Emit(Release(v, d), e)), {d}, {d}, N)
    BY <1>1, <2>4, AnswerTaken
  <2> QED BY <2>1, <2>2, <2>3, <2>5 DEF v
<1> QED
  BY <1>5, <1>6, <1>7, <1>8, <1>9, <1>10 DEF Receive

LEMMA RequestFailedFrees ==
    ASSUME NEW N \in Nat, QueueOK(sync, N), NEW r \in sync.sent, RequestFailed(r)
    PROVE  Frees(Without(r), sync', KeysOf(r), KeysOf(r), N)
<1>1. PICK kind \in EventKinds : kind = IF IsContent(r) THEN "Failed" ELSE "NotRecorded"
  BY DEF EventKinds
<1>2. PICK u : u = FailAll(r, kind)
  OBVIOUS
<1>3. Frees(Without(r), u, KeysOf(r), KeysOf(r), N)
  BY <1>2, FailAllFrees
<1>4. sync' \in {u, Dequeue(u)}
  BY <1>1, <1>2 DEF RequestFailed
<1>5. QueueOK(Dequeue(u), N) /\ Evolves(u, Dequeue(u), {})
  BY <1>3, DequeueOK DEF Frees
<1>6. Frees(Without(r), Dequeue(u), KeysOf(r), KeysOf(r), N)
  BY <1>3, <1>5, FreesThen
<1> QED
  BY <1>3, <1>4, <1>6

-----------------------------------------------------------------------------
(* A new item.                                                             *)

\* What get_items_with_object_id finds.
LEMMA ItemsWithIdProperties ==
    ASSUME NEW v \in SyncQueues, NEW o \in Objects, NEW ids, NEW d \in ItemsWithId(v, o, ids)
    PROVE  /\ d \in Keys
           /\ \E j \in Pending(v) : IsContent(j) /\ o \in Elems(j.objs) /\ d = DependencyOn(j, o)
<1> DEFINE queued == {i \in Elems(v.queue) :
                         \/ i.op \in Creations /\ TRUE \in ids
                         \/ i.op = "Update" /\ i.client \in ids}
           inFlight == {r \in v.sent :
                           \/ r.op \in Creations /\ TRUE \in ids
                           \/ r.op = "Update" /\ FALSE \in ids}
<1>1. PICK j \in queued \cup inFlight : o \in Elems(j.objs) /\ d = DependencyOn(j, o)
  BY DEF ItemsWithId
<1>2. j \in Pending(v) /\ IsContent(j)
  BY DEF Pending, IsContent
<1>3. j.n \in Nat
  <2>1. Elems(v.queue) \subseteq Items /\ v.sent \subseteq Requests
    BY ElemsType DEF SyncQueues
  <2>2. j \in Items \/ j \in Requests
    BY <1>2, <2>1 DEF Pending
  <2> QED BY <2>2 DEF Items, Requests
<1>4. d \in Keys
  BY <1>1, <1>3 DEF DependencyOn, Keys
<1> QED
  BY <1>1, <1>2, <1>4

\* The item with its inferred dependencies.
LEMMA InferredProperties ==
    ASSUME NEW v \in SyncQueues, NEW item \in Items
    PROVE  LET new == Inferred(v, item).item
           IN  /\ new \in Items /\ Same(new, item) /\ new.refs \subseteq item.refs
               /\ (item.op # "Update" /\ item.refs = {}) => new.deps = {}
               /\ \A d \in new.deps : \E j \in Pending(v) : Settles(j, d)
               /\ Inferred(v, item).events \in Seq(Events)
<1> DEFINE refs    == item.refs \ v.mapped
           missing == {e \in refs : ItemsWithId(v, e, {TRUE}) = {}}
           o       == item.objs[1]
           ids     == IF o \in v.mapped THEN BOOLEAN ELSE {item.client}
           own     == IF item.op = "Update" THEN ItemsWithId(v, o, ids) ELSE {}
           enums   == IF missing # {} THEN {}
                      ELSE UNION {ItemsWithId(v, e, {TRUE}) : e \in refs}
           deps    == (own \cup enums) \ {<<item.n, NoObject>>}
           new     == [item EXCEPT !.refs = refs, !.deps = deps]
<1>1. /\ Inferred(v, item).item = new
      /\ Inferred(v, item).events = IF missing = {} THEN <<>>
                                    ELSE <<FailureOf(item), FailureOf(item)>>
  BY DEF Inferred, UpdateDependencies
<1>2. o \in Objects /\ refs \subseteq Enums /\ Enums \subseteq Objects
  BY DEF Items, ObjectLists, Objects
<1> HIDE DEF ids, o, refs, missing
<1>3. ASSUME NEW d \in deps PROVE d \in Keys /\ \E j \in Pending(v) : Settles(j, d)
  <2>1. CASE d \in own
    <3>1. d \in ItemsWithId(v, o, ids)
      BY <2>1
    <3>2. d \in Keys /\ \E j \in Pending(v) : IsContent(j) /\ o \in Elems(j.objs) /\ d = DependencyOn(j, o)
      BY <1>2, <3>1, ItemsWithIdProperties
    <3> QED BY <3>2 DEF Settles
  <2>2. CASE d \in enums
    <3>1. PICK e \in refs : d \in ItemsWithId(v, e, {TRUE})
      BY <2>2
    <3>2. e \in Objects
      BY <1>2
    <3>3. d \in Keys /\ \E j \in Pending(v) : IsContent(j) /\ e \in Elems(j.objs) /\ d = DependencyOn(j, e)
      BY <3>1, <3>2, ItemsWithIdProperties
    <3> QED BY <3>3 DEF Settles
  <2> QED BY <2>1, <2>2
<1>4. (item.op # "Update" /\ item.refs = {}) => deps = {}
  <2>1. item.refs = {} => refs = {}
    BY DEF refs
  <2> QED BY <2>1
<1> HIDE DEF deps
<1>5. new \in Items /\ Same(new, item) /\ new.refs \subseteq item.refs /\ new.deps = deps
  <2>1. deps \in SUBSET Keys
    BY <1>3
  <2>2. refs \subseteq item.refs
    BY DEF refs
  <2> QED BY <1>2, <2>1, <2>2 DEF Items, Same
<1>6. FailureOf(item) \in Events
  BY <1>2 DEF FailureOf, Event, Events, EventKinds, NoConflict, Items, o
<1> HIDE DEF new
<1>7. Inferred(v, item).events \in Seq(Events)
  BY <1>1, <1>6
<1> QED
  BY <1>1, <1>3, <1>4, <1>5, <1>7

\* It waits for nothing but items of its own object.
WaitsForOwn(v, i) ==
    \A d \in i.deps : \E j \in Pending(v) : IsContent(j) /\ i.objs[1] \in Elems(j.objs) /\ d[1] = j.n

\* An item that refers to nothing infers no other dependencies.
LEMMA InferredOwn ==
    ASSUME NEW v \in SyncQueues, NEW item \in Items, item.refs = {}
    PROVE  WaitsForOwn(v, Inferred(v, item).item)
<1> DEFINE o   == item.objs[1]
           ids == IF o \in v.mapped THEN BOOLEAN ELSE {item.client}
           own == IF item.op = "Update" THEN ItemsWithId(v, o, ids) ELSE {}
<1>1. PICK new : new = Inferred(v, item).item
  OBVIOUS
<1>2. Same(new, item)
  <2>1. /\ new \in Items /\ Same(new, item) /\ new.refs \subseteq item.refs
        /\ (item.op # "Update" /\ item.refs = {}) => new.deps = {}
        /\ \A d \in new.deps : \E j \in Pending(v) : Settles(j, d)
        /\ Inferred(v, item).events \in Seq(Events)
    BY <1>1, InferredProperties
  <2> QED BY <2>1
<1>3. new.objs[1] = o
  BY <1>2 DEF Same
<1>4. new.deps \subseteq own
  <2>1. new = [item EXCEPT !.refs = {}, !.deps = own \ {<<item.n, NoObject>>}]
    BY <1>1 DEF Inferred, UpdateDependencies
  <2>2. new.deps = own \ {<<item.n, NoObject>>}
    BY <2>1 DEF Items
  <2> QED BY <2>2
<1>5. o \in Objects
  BY DEF Items, ObjectLists
<1> HIDE DEF o, ids
<1>6. ASSUME NEW d \in own
      PROVE  \E j \in Pending(v) : IsContent(j) /\ o \in Elems(j.objs) /\ d[1] = j.n
  <2>1. d \in ItemsWithId(v, o, ids)
    OBVIOUS
  <2>2. PICK j \in Pending(v) : IsContent(j) /\ o \in Elems(j.objs) /\ d = DependencyOn(j, o)
    BY <1>5, <2>1, ItemsWithIdProperties
  <2>3. d[1] = j.n
    BY <2>2 DEF DependencyOn
  <2> QED BY <2>2, <2>3
<1> QED
  BY <1>1, <1>3, <1>4, <1>6 DEF WaitsForOwn

\* An item waits for all that is found of the enums it refers to.
LEMMA InferredAwaits ==
    ASSUME NEW v, NEW item \in Items, \A e \in item.refs \ v.mapped : ItemsWithId(v, e, {TRUE}) # {}
    PROVE  LET new == Inferred(v, item).item
           IN  /\ new.refs = item.refs \ v.mapped
               /\ \A e \in new.refs : ItemsWithId(v, e, {TRUE}) \ {<<item.n, NoObject>>} \subseteq new.deps
<1> DEFINE refs  == item.refs \ v.mapped
           own   == IF item.op = "Update" THEN UpdateDependencies(v, item) ELSE {}
           found == UNION {ItemsWithId(v, e, {TRUE}) : e \in refs}
           deps  == (own \cup found) \ {<<item.n, NoObject>>}
<1>1. PICK new : new = Inferred(v, item).item
  OBVIOUS
<1>2. {e \in refs : ItemsWithId(v, e, {TRUE}) = {}} = {}
  OBVIOUS
<1>3. new = [item EXCEPT !.refs = refs, !.deps = deps]
  BY <1>1, <1>2 DEF Inferred
<1>4. \A e \in refs : ItemsWithId(v, e, {TRUE}) \ {<<item.n, NoObject>>} \subseteq deps
  OBVIOUS
<1> HIDE DEF refs, deps
<1>5. new.refs = refs /\ new.deps = deps
  BY <1>3 DEF Items
<1> QED
  BY <1>1, <1>4, <1>5 DEF refs

\* What a creation is found by.
Creates(c, e) == c.op \in Creations /\ e \in Elems(c.objs)

LEMMA CreationsFound ==
    ASSUME NEW v, NEW c \in Pending(v), NEW e, Creates(c, e)
    PROVE  DependencyOn(c, e) \in ItemsWithId(v, e, {TRUE})
BY DEF Creates, ItemsWithId, Pending

\* The queue once the item is in it, before any is sent.
Queued(v, item) ==
    [v EXCEPT !.queue = Append(@, Inferred(v, item).item),
              !.events = @ \o Inferred(v, item).events]

LEMMA QueuedOK ==
    ASSUME NEW v, NEW N \in Nat, QueueOK(v, N), NEW item \in Items, item.n = N,
           item.op # "Bulk" => Len(item.objs) = 1,
           item.op \in {"Bulk", "Record"} => item.refs = {}
    PROVE  LET new == Inferred(v, item).item
               u == Queued(v, item)
           IN  /\ QueueOK(u, N + 1) /\ Enqueue(v, item) = Dequeue(u)
               /\ Elems(u.queue) = Elems(v.queue) \cup {new}
               /\ u.sent = v.sent /\ u.mapped = v.mapped
               /\ u.events = v.events \o Inferred(v, item).events
<1> DEFINE new == Inferred(v, item).item
           es == Inferred(v, item).events
           u == [v EXCEPT !.queue = Append(@, new), !.events = @ \o es]
<1>1. Queued(v, item) = u /\ Enqueue(v, item) = Dequeue(u)
  BY DEF Queued, Enqueue
<1>2. v \in SyncQueues /\ v.queue \in Seq(Items) /\ v.events \in Seq(Events)
  BY DEF QueueOK, SyncQueues
<1>3. /\ new \in Items /\ Same(new, item) /\ new.refs \subseteq item.refs
      /\ (item.op # "Update" /\ item.refs = {}) => new.deps = {}
      /\ \A d \in new.deps : \E j \in Pending(v) : Settles(j, d)
      /\ es \in Seq(Events)
  BY <1>2, InferredProperties
<1> HIDE DEF new, es
<1>4. /\ Append(v.queue, new) \in Seq(Items)
      /\ Elems(Append(v.queue, new)) = Elems(v.queue) \cup {new}
  BY <1>2, <1>3, AppendElems
<1>5. /\ u \in SyncQueues /\ u.queue = Append(v.queue, new)
      /\ u.sent = v.sent /\ u.mapped = v.mapped /\ u.events = v.events \o es
  <2>1. v.events \o es \in Seq(Events)
    BY <1>2, <1>3
  <2> QED BY <1>2, <1>4, <2>1 DEF SyncQueues
<1> HIDE DEF u
<1>6. new.n = N /\ ItemOK(new, N + 1) /\ WaitOK(new)
  BY <1>3 DEF ItemOK, WaitOK, Same
<1>7. ASSUME NEW i \in Pending(v) PROVE i.n # N /\ ItemOK(i, N + 1)
  <2>1. ItemOK(i, N) /\ i.n \in Nat
    <3>1. Elems(v.queue) \subseteq Items /\ v.sent \subseteq Requests
      BY <1>2, ElemsType DEF SyncQueues
    <3>2. i \in Items \/ i \in Requests
      BY <3>1 DEF Pending
    <3> QED BY <3>2 DEF Items, Requests, QueueOK
  <2> QED BY <2>1 DEF ItemOK
<1>8. NumbersDiffer(u)
  <2>1. ASSUME NEW j \in DOMAIN u.queue, NEW k \in DOMAIN u.queue, u.queue[j].n = u.queue[k].n
        PROVE  j = k
    <3>1. /\ Len(v.queue) \in Nat /\ DOMAIN v.queue = 1..Len(v.queue)
          /\ DOMAIN u.queue = 1..(Len(v.queue) + 1)
          /\ u.queue[Len(v.queue) + 1] = new
          /\ \A i \in DOMAIN v.queue : u.queue[i] = v.queue[i]
      BY <1>2, <1>3, <1>5
    <3>2. \A i \in DOMAIN v.queue : u.queue[i].n # N
      BY <1>7, <3>1 DEF Pending, Elems
    <3>3. CASE j \in DOMAIN v.queue /\ k \in DOMAIN v.queue
      BY <2>1, <3>1, <3>3 DEF QueueOK, NumbersDiffer
    <3> QED BY <1>6, <2>1, <3>1, <3>2, <3>3
  <2>2. \A r, s \in u.sent : r.n = s.n => r = s
    BY <1>5 DEF QueueOK, NumbersDiffer
  <2>3. \A i \in Elems(u.queue), r \in u.sent : i.n # r.n
    BY <1>4, <1>5, <1>6, <1>7 DEF QueueOK, NumbersDiffer, Pending
  <2> QED BY <2>1, <2>2, <2>3 DEF NumbersDiffer
<1>9. /\ \A i \in Pending(u) : ItemOK(i, N + 1)
      /\ \A i \in Elems(u.queue) : WaitOK(i)
      /\ \A r \in u.sent : AnswerFits(r)
  BY <1>4, <1>5, <1>6, <1>7 DEF QueueOK, Pending
<1>10. QueueOK(u, N + 1)
  BY <1>5, <1>8, <1>9 DEF QueueOK
<1> QED
  BY <1>1, <1>4, <1>5, <1>10 DEF new, es

(***************************************************************************)
(* Whatever an item waits for is a key of D, or an item that is outstanding*)
(* will settle it.                                                         *)
(***************************************************************************)
DependenciesOK(v, D) ==
    \A i \in Elems(v.queue) : \A d \in i.deps : d \in D \/ \E j \in Pending(v) : Settles(j, d)

LEMMA EvolvesDependencies ==
    ASSUME NEW v, NEW w, NEW D, NEW E, Evolves(v, w, D), DependenciesOK(v, E)
    PROVE  DependenciesOK(w, E)
<1>1. SUFFICES ASSUME NEW i \in Elems(w.queue), NEW d \in i.deps, d \notin E
               PROVE  \E j \in Pending(w) : Settles(j, d)
  BY DEF DependenciesOK
<1>2. PICK i0 \in Elems(v.queue) : StemsFrom(i, i0, D)
  BY DEF Evolves
<1>3. PICK j \in Pending(v) : Settles(j, d)
  BY <1>1, <1>2 DEF DependenciesOK, StemsFrom
<1>4. CASE j \in v.sent
  BY <1>3, <1>4 DEF Evolves, Pending
<1>5. CASE j \in Elems(v.queue)
  <2>1. PICK k \in Pending(w) : Same(k, j)
    BY <1>3, <1>5 DEF Evolves
  <2>2. Settles(k, d)
    BY <1>3, <2>1 DEF Settles, Same, IsContent, DependencyOn
  <2> QED BY <2>2
<1> QED
  BY <1>4, <1>5 DEF Pending

LEMMA FreesDependencies ==
    ASSUME NEW v, NEW w, NEW D, NEW N, Frees(v, w, D, D, N), DependenciesOK(v, D)
    PROVE  DependenciesOK(w, {})
<1>1. DependenciesOK(w, D)
  BY EvolvesDependencies DEF Frees
<1> QED
  BY <1>1 DEF DependenciesOK, Frees

LEMMA WithoutDependencies ==
    ASSUME NEW N \in Nat, QueueOK(sync, N), DependenciesOK(sync, {}), NEW r \in sync.sent
    PROVE  DependenciesOK(Without(r), KeysOf(r))
<1>1. Without(r).queue = sync.queue /\ Without(r).sent = sync.sent \ {r}
  BY WithoutOK
<1>2. \A d : Settles(r, d) => d \in KeysOf(r)
  BY DEF Settles, KeysOf
<1>3. SUFFICES ASSUME NEW i \in Elems(sync.queue), NEW d \in i.deps, d \notin KeysOf(r)
               PROVE  \E j \in Pending(Without(r)) : Settles(j, d)
  BY <1>1 DEF DependenciesOK
<1>4. PICK j \in Pending(sync) : Settles(j, d)
  BY DEF DependenciesOK
<1>5. j \in Pending(Without(r))
  BY <1>1, <1>2, <1>3, <1>4 DEF Pending
<1> QED
  BY <1>4, <1>5

LEMMA EnqueueDependencies ==
    ASSUME NEW v, NEW N \in Nat, QueueOK(v, N), DependenciesOK(v, {}), NEW item \in Items,
           item.n = N, item.op # "Bulk" => Len(item.objs) = 1,
           item.op \in {"Bulk", "Record"} => item.refs = {}
    PROVE  QueueOK(Enqueue(v, item), N + 1) /\ DependenciesOK(Enqueue(v, item), {})
<1> DEFINE new == Inferred(v, item).item
           u == Queued(v, item)
<1>1. /\ QueueOK(u, N + 1) /\ Enqueue(v, item) = Dequeue(u)
      /\ Elems(u.queue) = Elems(v.queue) \cup {new}
      /\ u.sent = v.sent /\ u.mapped = v.mapped
      /\ u.events = v.events \o Inferred(v, item).events
  BY QueuedOK
<1>2. \A d \in new.deps : \E j \in Pending(v) : Settles(j, d)
  BY InferredProperties DEF QueueOK
<1> HIDE DEF new, u
<1>3. DependenciesOK(u, {})
  BY <1>1, <1>2 DEF DependenciesOK, Pending
<1>4. QueueOK(Dequeue(u), N + 1) /\ Evolves(u, Dequeue(u), {})
  BY <1>1, DequeueOK
<1> QED
  BY <1>1, <1>3, <1>4, EvolvesDependencies

-----------------------------------------------------------------------------
(* The types and the dependencies are invariant.                           *)

ModelObjects == [id : {"None", "Client", "Server", "Deleted"}, rev : Nat, content : Int,
                 status : Int, conflict : Versions, team : BOOLEAN]

ActionRecords == [o : Objects, n : Nat, client : BOOLEAN]

ObjectsOK ==
    /\ model \in [Objects -> ModelObjects] /\ saved \in [Objects -> Rows]
    /\ server \in [Objects -> Versions]

ActionsOK ==
    /\ actions \subseteq ActionRecords /\ IsFiniteSet(actions)
    /\ \A a \in actions : a.n < next
    /\ \A a, b \in actions : a.n = b.n => a = b

TypeInv ==
    /\ next \in Nat /\ edits \in Nat
    /\ QueueOK(sync, next) /\ DependenciesOK(sync, {})
    /\ ObjectsOK /\ ActionsOK

\* The types imply what the run checks of them.
LEMMA TypeInvImplies ==
    ASSUME TypeInv
    PROVE  TypeOK /\ DependenciesArePending
<1>1. sync \in SyncQueues /\ ObjectsOK
  BY DEF TypeInv, QueueOK
<1>2. \A o \in Objects : Upsert(model[o]) \in Rows /\ saved[o] \in Rows
  BY <1>1 DEF ObjectsOK, ModelObjects, Upsert, Rows, IsPending
<1>3. ASSUME NEW i \in Outstanding
      PROVE  /\ i.op \in {"Create", "Bulk", "Update", "Record"}
             /\ i.n < next /\ Elems(i.objs) \subseteq Objects /\ i.refs \subseteq Enums
  <2>1. Elems(sync.queue) \subseteq Items /\ sync.sent \subseteq Requests
    BY <1>1, ElemsType DEF SyncQueues
  <2>2. i \in Items \/ i \in Requests
    BY <2>1 DEF Outstanding
  <2>3. i.op \in Operations /\ i.objs \in Seq(Objects) /\ i.refs \subseteq Enums
    BY <2>2 DEF Items, Requests, ObjectLists
  <2>4. ItemOK(i, next)
    BY DEF TypeInv, QueueOK, Pending, Outstanding
  <2> QED BY <2>3, <2>4 DEF Operations, ItemOK, Elems
<1>4. sync.mapped \subseteq Objects /\ sync.running \in BOOLEAN
  BY <1>1 DEF SyncQueues
<1>5. \A e \in Elems(sync.events) : e.o \in Objects
  <2>1. Elems(sync.events) \subseteq Events
    BY <1>1, ElemsType DEF SyncQueues
  <2> QED BY <2>1 DEF Events
<1>6. DependenciesArePending
  <2>1. SUFFICES ASSUME NEW i \in Elems(sync.queue), NEW d \in i.deps
                 PROVE  \E j \in Outstanding :
                            d \in {<<j.n, NoObject>>}
                                  \cup (IF j.op = "Bulk" THEN {<<j.n, o>> : o \in Elems(j.objs)} ELSE {})
    BY DEF DependenciesArePending
  <2>2. PICK j \in Outstanding : Settles(j, d)
    BY DEF TypeInv, DependenciesOK, Pending, Outstanding
  <2> QED BY <2>2 DEF Settles, DependencyOn
<1> QED
  BY <1>2, <1>3, <1>4, <1>5, <1>6 DEF TypeOK

\* A new item about an object.
LEMMA NewItemType ==
    ASSUME NEW op \in Operations, NEW o \in Objects, NEW object \in ModelObjects, NEW n \in Nat
    PROVE  LET item == NewItem(op, o, object, n)
           IN  /\ item \in Items /\ item.n = n /\ item.op = op /\ item.objs = <<o>>
               /\ Len(item.objs) = 1 /\ item.deps = {} /\ item.content = object.content
               /\ item.client = (object.id = "Client") /\ item.refs = Refs(o, object)
               /\ [item EXCEPT !.refs = {}] \in Items
<1>1. Refs(o, object) \subseteq Enums
  BY ReferencesAssumption DEF Refs
<1>2. <<o>> \in ObjectLists
  BY DEF ObjectLists
<1> QED
  BY <1>1, <1>2 DEF NewItem, Items, ModelObjects

\* A request is replaced: the server answers it, or it is sent again.
LEMMA ReplacedRequest ==
    ASSUME NEW N \in Nat, QueueOK(sync, N), DependenciesOK(sync, {}),
           NEW r \in sync.sent, NEW s \in Requests,
           s.n = r.n, s.op = r.op, s.objs = r.objs, AnswerFits(s),
           NEW w, w = [sync EXCEPT !.sent = (@ \ {r}) \cup {s}]
    PROVE  QueueOK(w, N) /\ DependenciesOK(w, {})
<1>1. sync \in SyncQueues
  BY DEF QueueOK
<1>2. w \in SyncQueues /\ w.queue = sync.queue /\ w.sent = (sync.sent \ {r}) \cup {s}
  BY <1>1 DEF SyncQueues
<1>3. NumbersDiffer(w)
  BY <1>2 DEF QueueOK, NumbersDiffer
<1>4. \A i \in Pending(w) : ItemOK(i, N)
  BY <1>2 DEF QueueOK, Pending, ItemOK
<1>5. QueueOK(w, N)
  BY <1>2, <1>3, <1>4 DEF QueueOK
<1>6. \A d : Settles(r, d) => Settles(s, d)
  BY DEF Settles, DependencyOn, IsContent
<1>7. DependenciesOK(w, {})
  BY <1>2, <1>6 DEF DependenciesOK, Pending
<1> QED
  BY <1>5, <1>7

LEMMA ServeStep ==
    ASSUME TypeInv, NEW r \in sync.sent, Serve(r) PROVE TypeInv'
<1>1. /\ sync \in SyncQueues /\ r \in Requests /\ r.answer = "None" /\ next \in Nat
      /\ QueueOK(sync, next) /\ DependenciesOK(sync, {}) /\ server \in [Objects -> Versions]
  BY DEF TypeInv, QueueOK, SyncQueues, Serve, ObjectsOK
<1>2. UNCHANGED <<model, saved, actions, next, edits>>
  BY DEF Serve, ApplyCreation, DenyCreation, FindKeyConflict, ApplyUpdate, ApplyRecord, Answer, bounds
<1>3. r.objs \in Seq(Objects) /\ r.objs # <<>> /\ Elems(r.objs) \subseteq Objects /\ r.objs[1] \in Objects
  BY <1>1 DEF Requests, ObjectLists, Elems
<1>4. r.content \in Int
  BY <1>1 DEF Requests
<1>5. \A o \in Objects : Written(o, r.content) \in Versions
  BY <1>1, <1>4 DEF Written, Versions
<1>6. server' \in [Objects -> Versions]
  <2>1. CASE ApplyCreation(r)
    BY <2>1, <1>1, <1>5 DEF ApplyCreation
  <2>2. CASE ApplyUpdate(r)
    BY <2>2, <1>1, <1>3, <1>5 DEF ApplyUpdate
  <2>3. CASE DenyCreation(r) \/ FindKeyConflict(r) \/ ApplyRecord(r)
    BY <2>3, <1>1 DEF DenyCreation, FindKeyConflict, ApplyRecord
  <2> QED BY <2>1, <2>2, <2>3 DEF Serve
<1>7. PICK answer \in AnswerKinds :
          /\ Answer(r, answer)
          /\ answer \in {"Created", "KeyConflict"} => r.op \in Creations
          /\ answer = "Denied" => r.op = "Create"
          /\ answer \in {"Accepted", "Rejected"} => r.op = "Update"
          /\ answer = "Recorded" => r.op = "Record"
  BY DEF Serve, ApplyCreation, DenyCreation, FindKeyConflict, ApplyUpdate, ApplyRecord, AnswerKinds
<1> DEFINE found == [o \in Elems(r.objs) |-> server'[o]]
<1>8. found \in [Elems(r.objs) -> Versions] /\ found \in Found
  BY <1>3, <1>6 DEF Found
<1>9. PICK f : f = found
  OBVIOUS
<1> DEFINE s == [r EXCEPT !.answer = answer, !.found = f]
<1>10. sync' = [sync EXCEPT !.sent = (@ \ {r}) \cup {s}]
  BY <1>7, <1>9 DEF Answer
<1>11. /\ s \in Requests /\ s.n = r.n /\ s.op = r.op /\ s.objs = r.objs
       /\ s.answer = answer /\ s.found = f
  BY <1>1, <1>8, <1>9 DEF Requests
<1>12. AnswerFits(s)
  BY <1>7, <1>8, <1>9, <1>11 DEF AnswerFits
<1> HIDE DEF s, found
<1>13. PICK N \in Nat : N = next
  BY <1>1
<1>13a. PICK w : w = [sync EXCEPT !.sent = (@ \ {r}) \cup {s}]
  OBVIOUS
<1>14. QueueOK(w, N) /\ DependenciesOK(w, {})
  BY <1>1, <1>11, <1>12, <1>13, <1>13a, ReplacedRequest
<1>15. sync' = w /\ next' = N
  BY <1>2, <1>10, <1>13, <1>13a
<1>16. QueueOK(sync, next)' /\ DependenciesOK(sync, {})'
  BY <1>14, <1>15
<1>17. ObjectsOK' /\ ActionsOK'
  BY <1>2, <1>6 DEF TypeInv, ObjectsOK, ActionsOK
<1> QED
  BY <1>2, <1>16, <1>17 DEF TypeInv

LEMMA LoseAnswerStep ==
    ASSUME TypeInv, NEW r \in sync.sent, LoseAnswer(r) PROVE TypeInv'
<1>1. /\ sync \in SyncQueues /\ r \in Requests /\ next \in Nat
      /\ QueueOK(sync, next) /\ DependenciesOK(sync, {})
  BY DEF TypeInv, QueueOK, SyncQueues
<1>2. UNCHANGED <<model, saved, actions, server, next, edits>>
  BY DEF LoseAnswer, bounds
<1> DEFINE s == [r EXCEPT !.answer = "None", !.found = <<>>, !.resent = @ + 1]
<1>3. sync' = [sync EXCEPT !.sent = (@ \ {r}) \cup {s}]
  BY DEF LoseAnswer
<1>4. <<>> \in Found /\ r.resent + 1 \in Nat
  BY <1>1 DEF Found, Requests
<1>5. /\ s \in Requests /\ s.n = r.n /\ s.op = r.op /\ s.objs = r.objs
      /\ s.answer = "None"
  BY <1>1, <1>4 DEF Requests, AnswerKinds
<1> HIDE DEF s
<1>6. AnswerFits(s)
  BY <1>5 DEF AnswerFits
<1>7. PICK N \in Nat : N = next
  BY <1>1
<1>7a. PICK w : w = [sync EXCEPT !.sent = (@ \ {r}) \cup {s}]
  OBVIOUS
<1>8. QueueOK(w, N) /\ DependenciesOK(w, {})
  BY <1>1, <1>5, <1>6, <1>7, <1>7a, ReplacedRequest
<1>9. sync' = w /\ next' = N
  BY <1>2, <1>3, <1>7, <1>7a
<1>10. QueueOK(sync, next)' /\ DependenciesOK(sync, {})'
  BY <1>8, <1>9
<1>11. ObjectsOK' /\ ActionsOK'
  BY <1>2 DEF TypeInv, ObjectsOK, ActionsOK
<1> QED
  BY <1>2, <1>10, <1>11 DEF TypeInv

LEMMA AnswerTakenStep ==
    ASSUME TypeInv, NEW r \in sync.sent, Receive(r) \/ RequestFailed(r) PROVE TypeInv'
<1>1. PICK N \in Nat : N = next
  BY DEF TypeInv
<1>2. QueueOK(sync, N) /\ DependenciesOK(sync, {})
  BY <1>1 DEF TypeInv
<1>3. Frees(Without(r), sync', KeysOf(r), KeysOf(r), N)
  BY <1>2, ReceiveFrees, RequestFailedFrees
<1>4. DependenciesOK(Without(r), KeysOf(r))
  BY <1>2, WithoutDependencies
<1>5. UNCHANGED <<model, saved, actions, server, next, edits>>
  BY DEF Receive, RequestFailed, bounds
<1>6. PICK v, w, D : v = Without(r) /\ w = sync' /\ D = KeysOf(r)
  OBVIOUS
<1>7. DependenciesOK(w, {}) /\ QueueOK(w, N)
  BY <1>3, <1>4, <1>6, FreesDependencies DEF Frees
<1>8. QueueOK(sync, next)' /\ DependenciesOK(sync, {})'
  BY <1>1, <1>5, <1>6, <1>7
<1>9. ObjectsOK' /\ ActionsOK'
  BY <1>5 DEF TypeInv, ObjectsOK, ActionsOK
<1> QED
  BY <1>5, <1>8, <1>9 DEF TypeInv

\* The event is taken off.
LEMMA DeliveredOK ==
    ASSUME NEW N \in Nat, QueueOK(sync, N), DependenciesOK(sync, {}), ~Quiet
    PROVE  /\ Head(sync.events) \in Events
           /\ QueueOK(Delivered, N) /\ DependenciesOK(Delivered, {})
           /\ Delivered.queue = sync.queue /\ Delivered.sent = sync.sent
           /\ Delivered.mapped = sync.mapped /\ Delivered.events = Tail(sync.events)
<1>1. sync \in SyncQueues /\ sync.events \in Seq(Events) /\ sync.events # <<>>
  BY DEF QueueOK, SyncQueues, Quiet
<1>2. Head(sync.events) \in Events /\ Tail(sync.events) \in Seq(Events)
  BY <1>1
<1>3. /\ Delivered \in SyncQueues /\ Delivered.queue = sync.queue /\ Delivered.sent = sync.sent
      /\ Delivered.mapped = sync.mapped /\ Delivered.events = Tail(sync.events)
  BY <1>1, <1>2 DEF Delivered, SyncQueues
<1> DEFINE w == Delivered
<1> HIDE DEF w
<1>4. w \in SyncQueues /\ w.queue = sync.queue /\ w.sent = sync.sent
  BY <1>3 DEF w
<1>5. QueueOK(w, N) /\ DependenciesOK(w, {})
  BY <1>4 DEF QueueOK, DependenciesOK, NumbersDiffer, Pending
<1> QED
  BY <1>2, <1>3, <1>5 DEF w

LEMMA DecrementType ==
    ASSUME NEW status \in Int, NEW idle \in Int
    PROVE  Decrement(status, idle) \in Int
BY DEF Decrement

LEMMA UpsertType ==
    ASSUME NEW object \in ModelObjects
    PROVE  Upsert(object) \in Rows
BY DEF Upsert, Rows, ModelObjects, IsPending

LEMMA UnbornType ==
    /\ NoConflict \in Versions /\ Unborn \in ModelObjects
    /\ NoLocalChanges \in Int /\ Errored \in Int /\ InConflict \in Int
BY DEF NoConflict, Versions, Unborn, ModelObjects, NoLocalChanges, Errored, InConflict

\* The handlers of events keep the types of the objects.
LEMMA HandledObjects ==
    ASSUME ObjectsOK, NEW e \in Events,
           \/ HandleCreated(e) \/ HandleUpdated(e) \/ HandleFailed(e) \/ HandleKeyConflict(e)
           \/ HandleDenied(e) \/ HandleRejected(e) \/ HandleRecorded(e)
    PROVE  model' \in [Objects -> ModelObjects] /\ saved' \in [Objects -> Rows]
<1>1. /\ e.o \in Objects /\ e.rev \in Nat /\ e.content \in Int
      /\ model[e.o] \in ModelObjects /\ saved[e.o] \in Rows
  BY DEF ObjectsOK, Events
<1>2. \A idle \in Int : Decrement(model[e.o].status, idle) \in Int
  BY <1>1, DecrementType DEF ModelObjects
<1>3. \A row \in Rows : \A status : MarkSynced(row, status, e.rev) \in Rows
  BY <1>1 DEF MarkSynced, Rows
<1>4. /\ NoConflict \in Versions /\ Unborn \in ModelObjects
      /\ NoLocalChanges \in Int /\ Errored \in Int /\ InConflict \in Int
  BY UnbornType
<1>5. CASE HandleCreated(e)
  <2> DEFINE now == [model[e.o] EXCEPT !.id = "Server", !.rev = e.rev,
                                       !.status = Decrement(@, NoLocalChanges)]
             row == MarkSynced([saved[e.o] EXCEPT !.id = "Server"], model[e.o].status, e.rev)
  <2>1. now \in ModelObjects
    BY <1>1, <1>2, <1>4 DEF ModelObjects
  <2>2. [saved[e.o] EXCEPT !.id = "Server"] \in Rows
    BY <1>1 DEF Rows
  <2>3. row \in Rows
    BY <1>3, <2>2
  <2>4. \A o \in Objects : Upsert(model[o]) \in Rows /\ saved[o] \in Rows
    BY UpsertType DEF ObjectsOK
  <2>5. model' = [model EXCEPT ![e.o] = now]
    BY <1>5 DEF HandleCreated
  <2>6. \E naming : saved' = [o \in Objects |-> IF o = e.o THEN row
                                                ELSE IF o \in naming THEN Upsert(model[o]) ELSE saved[o]]
    BY <1>5 DEF HandleCreated
  <2> HIDE DEF now, row
  <2>7. model' \in [Objects -> ModelObjects]
    BY <2>1, <2>5 DEF ObjectsOK
  <2> QED BY <2>3, <2>4, <2>6, <2>7
<1>6. CASE HandleUpdated(e)
  <2> DEFINE now == [model[e.o] EXCEPT !.rev = e.rev, !.status = Decrement(@, NoLocalChanges),
                                       !.conflict = IF ClearsConflict(@, e.rev) THEN NoConflict ELSE @]
             row == MarkSynced(saved[e.o], model[e.o].status, e.rev)
  <2>1. now \in ModelObjects
    BY <1>1, <1>2, <1>4 DEF ModelObjects
  <2>2. row \in Rows
    BY <1>1, <1>3
  <2>3. model' = [model EXCEPT ![e.o] = now] /\ saved' = [saved EXCEPT ![e.o] = row]
    BY <1>6 DEF HandleUpdated
  <2> HIDE DEF now, row
  <2> QED BY <2>1, <2>2, <2>3 DEF ObjectsOK
<1>7. CASE HandleFailed(e)
  <2>1. [model[e.o] EXCEPT !.status = Decrement(@, Errored)] \in ModelObjects
    BY <1>1, <1>2, <1>4 DEF ModelObjects
  <2> QED BY <1>7, <2>1 DEF HandleFailed, ObjectsOK
<1>8. CASE HandleKeyConflict(e)
  <2>1. [Unborn EXCEPT !.id = "Deleted"] \in ModelObjects
    BY <1>4 DEF ModelObjects
  <2>2. model' \in [Objects -> ModelObjects]
    BY <1>8, <2>1 DEF HandleKeyConflict, ObjectsOK
  <2>3. Upsert(model'[e.o]) \in Rows
    BY <1>1, <2>2, UpsertType
  <2> QED BY <1>8, <2>2, <2>3 DEF HandleKeyConflict, ObjectsOK
<1>9. CASE HandleDenied(e)
  <2>1. [model[e.o] EXCEPT !.team = FALSE] \in ModelObjects
    BY <1>1 DEF ModelObjects
  <2>2. Upsert([model[e.o] EXCEPT !.team = FALSE]) \in Rows
    BY <2>1, UpsertType
  <2> QED BY <1>9, <2>1, <2>2 DEF HandleDenied, ObjectsOK
<1>10. CASE HandleRejected(e)
  <2>1. CASE KeepLocalContent(e)
    <3>1. [model[e.o] EXCEPT !.conflict = [rev |-> e.rev, content |-> e.content], !.status = InConflict]
              \in ModelObjects
      BY <1>1, <1>4 DEF ModelObjects, Versions
    <3> QED BY <2>1, <3>1 DEF KeepLocalContent, ObjectsOK
  <2>2. CASE TakeServerContent(e)
    <3>1. [model[e.o] EXCEPT !.content = e.content, !.rev = e.rev, !.status = Decrement(@, NoLocalChanges)]
              \in ModelObjects
      BY <1>1, <1>2, <1>4 DEF ModelObjects
    <3> DEFINE now == [model[e.o] EXCEPT !.content = e.content, !.rev = e.rev,
                                         !.status = Decrement(@, NoLocalChanges)]
    <3>0. model' = [model EXCEPT ![e.o] = now]
      BY <2>2 DEF TakeServerContent
    <3> HIDE DEF now
    <3>2. model' \in [Objects -> ModelObjects]
      BY <3>0, <3>1 DEF ObjectsOK, now
    <3>3. Upsert(model'[e.o]) \in Rows
      BY <1>1, <3>2, UpsertType
    <3> QED BY <2>2, <3>2, <3>3 DEF TakeServerContent, ObjectsOK
  <2>3. CASE IgnoreRejection(e)
    BY <2>3 DEF IgnoreRejection, ObjectsOK
  <2> QED BY <1>10, <2>1, <2>2, <2>3 DEF HandleRejected
<1>11. CASE HandleRecorded(e)
  BY <1>11 DEF HandleRecorded, ObjectsOK
<1> QED
  BY <1>5, <1>6, <1>7, <1>8, <1>9, <1>10, <1>11

\* An object is sent whole, as a creation or as an update.
LEMMA SyncItemType ==
    ASSUME NEW o \in Objects, NEW object \in ModelObjects, NEW n \in Nat
    PROVE  LET item == SyncItem(o, object, n)
           IN  /\ item \in Items /\ item.n = n /\ item.objs = <<o>> /\ Len(item.objs) = 1
               /\ item.op = IF object.id = "Client" THEN "Create" ELSE "Update"
               /\ item.deps = {} /\ item.content = object.content
               /\ item.client = (object.id = "Client") /\ item.refs = Refs(o, object)
<1> DEFINE op == IF object.id = "Client" THEN "Create" ELSE "Update"
           item == NewItem(op, o, object, n)
<1>1. op \in Operations
  BY DEF Operations
<1>2. SyncItem(o, object, n) = item
  BY DEF SyncItem
<1> HIDE DEF op
<1>3. /\ item \in Items /\ item.n = n /\ item.op = op /\ item.objs = <<o>>
      /\ Len(item.objs) = 1 /\ item.deps = {} /\ item.content = object.content
      /\ item.client = (object.id = "Client") /\ item.refs = Refs(o, object)
      /\ [item EXCEPT !.refs = {}] \in Items
  BY <1>1, NewItemType
<1> QED
  BY <1>2, <1>3 DEF op

LEMMA DeliverStep ==
    ASSUME TypeInv, Deliver PROVE TypeInv'
<1>1. PICK N \in Nat : N = next
  BY DEF TypeInv
<1>2. /\ QueueOK(sync, N) /\ DependenciesOK(sync, {}) /\ ~Quiet /\ ObjectsOK /\ ActionsOK
      /\ edits \in Nat /\ UNCHANGED <<server, edits>>
  BY <1>1 DEF TypeInv, Deliver
<1>3. PICK e : e = Head(sync.events)
  OBVIOUS
<1>4. PICK w : w = Delivered
  OBVIOUS
<1>5. e \in Events /\ QueueOK(w, N) /\ DependenciesOK(w, {})
  BY <1>2, <1>3, <1>4, DeliveredOK
<1>6. \/ HandleCreated(e) \/ HandleUpdated(e) \/ HandleFailed(e) \/ HandleKeyConflict(e)
      \/ HandleDenied(e) \/ HandleRejected(e) \/ HandleRecorded(e)
  BY <1>3 DEF Deliver
<1>7. ObjectsOK'
  BY <1>2, <1>5, <1>6, HandledObjects DEF ObjectsOK
<1>8. next' \in Nat /\ next' >= next /\ actions' \subseteq actions
  BY <1>1, <1>6 DEF HandleCreated, HandleUpdated, HandleFailed, HandleKeyConflict, HandleDenied,
                    HandleRejected, HandleRecorded
<1>9. ActionsOK'
  <2>1. IsFiniteSet(actions')
    BY <1>2, <1>8, FS_Subset DEF ActionsOK
  <2>2. \A a \in actions : a.n \in Nat
    BY <1>2 DEF ActionsOK, ActionRecords
  <2> QED BY <1>1, <1>2, <1>8, <2>1, <2>2 DEF ActionsOK
<1>10. CASE HandleDenied(e)
  <2> DEFINE moved == [model[e.o] EXCEPT !.team = FALSE]
  <2>1. moved \in ModelObjects /\ e.o \in Objects
    BY <1>2, <1>5 DEF ObjectsOK, ModelObjects, Events
  <2> HIDE DEF moved
  <2>2. PICK item : item = SyncItem(e.o, moved, N)
    OBVIOUS
  <2>3. /\ item \in Items /\ item.n = N /\ Len(item.objs) = 1
        /\ item.op \in {"Create", "Update"}
    BY <2>1, <2>2, SyncItemType
  <2>4. QueueOK(Enqueue(w, item), N + 1) /\ DependenciesOK(Enqueue(w, item), {})
    BY <1>5, <2>3, EnqueueDependencies
  <2>5. PICK u : u = Enqueue(w, item)
    OBVIOUS
  <2>6. sync' = u /\ next' = N + 1
    BY <1>1, <1>4, <1>10, <2>2, <2>5 DEF HandleDenied, moved
  <2>7. QueueOK(sync, next)' /\ DependenciesOK(sync, {})'
    BY <2>4, <2>5, <2>6
  <2> QED BY <1>2, <1>7, <1>8, <1>9, <2>7 DEF TypeInv
<1>11. CASE ~HandleDenied(e)
  <2>1. sync' = w /\ next' = N
    BY <1>1, <1>4, <1>6, <1>11 DEF HandleCreated, HandleUpdated, HandleFailed, HandleKeyConflict,
                                   HandleRejected, HandleRecorded
  <2>2. QueueOK(sync, next)' /\ DependenciesOK(sync, {})'
    BY <1>5, <2>1
  <2> QED BY <1>2, <1>7, <1>8, <1>9, <2>2 DEF TypeInv
<1> QED
  BY <1>10, <1>11

\* The user's actions enqueue an item.
LEMMA EnqueueNextStep ==
    ASSUME TypeInv, NEW item \in Items, item.n = next, EnqueueNext(item),
           item.op # "Bulk" => Len(item.objs) = 1,
           item.op \in {"Bulk", "Record"} => item.refs = {}
    PROVE  /\ next \in Nat /\ next' = next + 1 /\ UNCHANGED <<server, edits>>
           /\ QueueOK(sync, next)' /\ DependenciesOK(sync, {})'
<1>1. PICK N \in Nat : N = next
  BY DEF TypeInv
<1>2. PICK v : v = sync
  OBVIOUS
<1>3. QueueOK(v, N) /\ DependenciesOK(v, {}) /\ item.n = N
  BY <1>1, <1>2 DEF TypeInv
<1>4. QueueOK(Enqueue(v, item), N + 1) /\ DependenciesOK(Enqueue(v, item), {})
  BY <1>3, EnqueueDependencies
<1>5. PICK u : u = Enqueue(v, item)
  OBVIOUS
<1>6. sync' = u /\ next' = N + 1 /\ UNCHANGED <<server, edits>>
  BY <1>1, <1>2, <1>5 DEF EnqueueNext
<1> QED
  BY <1>1, <1>4, <1>5, <1>6

LEMMA SaveType ==
    ASSUME ObjectsOK, NEW o \in Objects, NEW object \in ModelObjects, Save(o, object)
    PROVE  model' \in [Objects -> ModelObjects] /\ saved' \in [Objects -> Rows]
BY UpsertType DEF Save, ObjectsOK

LEMMA SameActions ==
    ASSUME ActionsOK, next \in Nat, next' \in Nat, next' >= next, UNCHANGED actions
    PROVE  ActionsOK'
<1>1. \A a \in actions : a.n \in Nat
  BY DEF ActionsOK, ActionRecords
<1> QED
  BY <1>1 DEF ActionsOK

LEMMA CreateStep ==
    ASSUME TypeInv, NEW o \in Objects, Create(o) PROVE TypeInv'
<1>0. PICK object : object = [Unborn EXCEPT !.id = "Client", !.content = next, !.status = 1,
                                            !.team = o \in TeamObjects]
  OBVIOUS
<1>1. object \in ModelObjects
  <2>1. next \in Int /\ (o \in TeamObjects) \in BOOLEAN /\ 1 \in Int
    BY DEF TypeInv
  <2>2. PICK team \in BOOLEAN : team = (o \in TeamObjects)
    BY <2>1
  <2>3. object = [Unborn EXCEPT !.id = "Client", !.content = next, !.status = 1, !.team = team]
    BY <1>0, <2>2
  <2> QED BY <2>1, <2>3, UnbornType DEF ModelObjects
<1>2. Save(o, object) /\ EnqueueNext(NewItem("Create", o, object, next)) /\ UNCHANGED actions
  BY <1>0 DEF Create
<1>3. PICK N \in Nat : N = next
  BY DEF TypeInv
<1>4. "Create" \in Operations
  BY DEF Operations
<1>5. PICK item : item = NewItem("Create", o, object, N)
  OBVIOUS
<1>6. /\ item \in Items /\ item.n = N /\ item.op = "Create" /\ item.objs = <<o>>
      /\ Len(item.objs) = 1 /\ item.deps = {} /\ item.content = object.content
      /\ item.client = (object.id = "Client") /\ item.refs = Refs(o, object)
      /\ [item EXCEPT !.refs = {}] \in Items
  BY <1>1, <1>4, <1>5, NewItemType
<1>7. /\ next \in Nat /\ next' = next + 1 /\ UNCHANGED <<server, edits>>
      /\ QueueOK(sync, next)' /\ DependenciesOK(sync, {})'
  BY <1>2, <1>3, <1>5, <1>6, EnqueueNextStep
<1>8. ObjectsOK'
  BY <1>1, <1>2, <1>7, SaveType DEF TypeInv, ObjectsOK
<1>9. ActionsOK'
  BY <1>2, <1>7, SameActions DEF TypeInv
<1> QED
  BY <1>7, <1>8, <1>9 DEF TypeInv

LEMMA UpdateStep ==
    ASSUME TypeInv, NEW o \in Objects, Update(o) PROVE TypeInv'
<1>0. PICK object : object = [model[o] EXCEPT !.content = next, !.status = IF @ > 0 THEN @ + 1 ELSE 1]
  OBVIOUS
<1>1. object \in ModelObjects
  <2>1. model[o] \in ModelObjects /\ next \in Int
    BY DEF TypeInv, ObjectsOK
  <2>2. PICK status \in Int : status = IF model[o].status > 0 THEN model[o].status + 1 ELSE 1
    BY <2>1 DEF ModelObjects
  <2>3. object = [model[o] EXCEPT !.content = next, !.status = status]
    BY <1>0, <2>2
  <2> QED BY <2>1, <2>3 DEF ModelObjects
<1>2. Save(o, object) /\ EnqueueNext(NewItem("Update", o, object, next)) /\ UNCHANGED actions
  BY <1>0 DEF Update
<1>3. PICK N \in Nat : N = next
  BY DEF TypeInv
<1>4. "Update" \in Operations
  BY DEF Operations
<1>5. PICK item : item = NewItem("Update", o, object, N)
  OBVIOUS
<1>6. /\ item \in Items /\ item.n = N /\ item.op = "Update" /\ item.objs = <<o>>
      /\ Len(item.objs) = 1 /\ item.deps = {} /\ item.content = object.content
      /\ item.client = (object.id = "Client") /\ item.refs = Refs(o, object)
      /\ [item EXCEPT !.refs = {}] \in Items
  BY <1>1, <1>4, <1>5, NewItemType
<1>7. /\ next \in Nat /\ next' = next + 1 /\ UNCHANGED <<server, edits>>
      /\ QueueOK(sync, next)' /\ DependenciesOK(sync, {})'
  BY <1>2, <1>3, <1>5, <1>6, EnqueueNextStep
<1>8. ObjectsOK'
  BY <1>1, <1>2, <1>7, SaveType DEF TypeInv, ObjectsOK
<1>9. ActionsOK'
  BY <1>2, <1>7, SameActions DEF TypeInv
<1> QED
  BY <1>7, <1>8, <1>9 DEF TypeInv

LEMMA RecordStep ==
    ASSUME TypeInv, NEW o \in Objects, Record(o) PROVE TypeInv'
<1>1. PICK N \in Nat : N = next
  BY DEF TypeInv
<1>2. PICK object : object = model[o]
  OBVIOUS
<1>3. object \in ModelObjects /\ "Record" \in Operations
  BY <1>2 DEF TypeInv, ObjectsOK, Operations
<1>4. PICK new : new = NewItem("Record", o, object, N)
  OBVIOUS
<1> DEFINE item == [new EXCEPT !.refs = {}]
<1>5. /\ new \in Items /\ new.n = N /\ new.op = "Record" /\ Len(new.objs) = 1
      /\ new.client = (object.id = "Client") /\ item \in Items
  BY <1>3, <1>4, NewItemType
<1>6. /\ item.n = N /\ item.op = "Record" /\ Len(item.objs) = 1 /\ item.refs = {}
      /\ item.client \in BOOLEAN
  BY <1>5 DEF Items
<1>7. /\ EnqueueNext(item) /\ UNCHANGED <<model, saved>>
      /\ actions' = actions \cup {[o |-> o, n |-> N, client |-> item.client]}
  BY <1>1, <1>2, <1>4 DEF Record
<1> HIDE DEF item
<1>8. /\ next \in Nat /\ next' = next + 1 /\ UNCHANGED <<server, edits>>
      /\ QueueOK(sync, next)' /\ DependenciesOK(sync, {})'
  BY <1>1, <1>5, <1>6, <1>7, EnqueueNextStep
<1>9. ObjectsOK'
  BY <1>7, <1>8 DEF TypeInv, ObjectsOK
<1>10. ActionsOK'
  <2> DEFINE a0 == [o |-> o, n |-> N, client |-> item.client]
  <2>1. a0 \in ActionRecords /\ a0.n = N
    BY <1>6 DEF ActionRecords
  <2> HIDE DEF a0
  <2>2. IsFiniteSet(actions \cup {a0})
    BY FS_AddElement DEF TypeInv, ActionsOK
  <2>3. \A a \in actions : a.n \in Nat /\ a.n < N
    BY <1>1 DEF TypeInv, ActionsOK, ActionRecords
  <2>4. actions' = actions \cup {a0}
    BY <1>7 DEF a0
  <2> QED BY <1>1, <1>8, <2>1, <2>2, <2>3, <2>4 DEF TypeInv, ActionsOK
<1> QED
  BY <1>8, <1>9, <1>10 DEF TypeInv

LEMMA ResyncStep ==
    ASSUME TypeInv, NEW o \in Objects, Resync(o) PROVE TypeInv'
<1>1. PICK N \in Nat : N = next
  BY DEF TypeInv
<1>2. PICK object : object = model[o]
  OBVIOUS
<1>3. object \in ModelObjects
  BY <1>2 DEF TypeInv, ObjectsOK
<1>4. PICK item : item = SyncItem(o, object, N)
  OBVIOUS
<1>5. /\ item \in Items /\ item.n = N /\ Len(item.objs) = 1
      /\ item.op \in {"Create", "Update"}
  BY <1>3, <1>4, SyncItemType
<1>6. /\ EnqueueNext(item) /\ UNCHANGED <<saved, actions>>
      /\ model' = [model EXCEPT ![o].status = 1]
  BY <1>1, <1>2, <1>4 DEF Resync
<1>7. /\ next \in Nat /\ next' = next + 1 /\ UNCHANGED <<server, edits>>
      /\ QueueOK(sync, next)' /\ DependenciesOK(sync, {})'
  BY <1>1, <1>5, <1>6, EnqueueNextStep
<1>8. ObjectsOK'
  <2>1. [model[o] EXCEPT !.status = 1] \in ModelObjects
    BY <1>2, <1>3 DEF ModelObjects
  <2> QED BY <1>6, <1>7, <2>1 DEF TypeInv, ObjectsOK
<1>9. ActionsOK'
  BY <1>6, <1>7, SameActions DEF TypeInv
<1> QED
  BY <1>7, <1>8, <1>9 DEF TypeInv

LEMMA BulkCreateStep ==
    ASSUME TypeInv, NEW p \in Preferences, NEW q \in Preferences, BulkCreate(<<p, q>>)
    PROVE  TypeInv'
<1>1. PICK N \in Nat : N = next
  BY DEF TypeInv
<1>0. PICK object : object = [Unborn EXCEPT !.id = "Client", !.content = N, !.status = 1]
  OBVIOUS
<1> DEFINE objs == <<p, q>>
<1>2. object \in ModelObjects /\ objs[1] = p
  <2>1. N \in Int /\ 1 \in Int
    OBVIOUS
  <2> QED BY <1>0, <2>1, UnbornType DEF ModelObjects
<1>3. objs \in ObjectLists /\ p \in Objects /\ p \notin Workflows
  BY KindsAssumption DEF ObjectLists, Objects
<1>4. PICK new : new = NewItem("Bulk", p, object, N)
  OBVIOUS
<1>5. "Bulk" \in Operations
  BY DEF Operations
<1>6. /\ model' = [o \in Objects |-> IF o \in Elems(objs) THEN object ELSE model[o]]
      /\ saved' = [o \in Objects |-> IF o \in Elems(objs) THEN Upsert(object) ELSE saved[o]]
      /\ EnqueueNext([new EXCEPT !.objs = objs]) /\ UNCHANGED actions
  BY <1>0, <1>1, <1>2, <1>4 DEF BulkCreate
<1> HIDE DEF objs
<1>7. /\ new \in Items /\ new.n = N /\ new.op = "Bulk" /\ new.objs = <<p>>
      /\ Len(new.objs) = 1 /\ new.deps = {} /\ new.content = object.content
      /\ new.client = (object.id = "Client") /\ new.refs = Refs(p, object)
      /\ [new EXCEPT !.refs = {}] \in Items
  BY <1>2, <1>3, <1>4, <1>5, NewItemType
<1>8. new.refs = {}
  BY <1>3, <1>7 DEF Refs
<1> DEFINE item == [new EXCEPT !.objs = objs]
<1>9. item \in Items /\ item.n = N /\ item.op = "Bulk" /\ item.refs = {}
  BY <1>3, <1>7, <1>8 DEF Items
<1> HIDE DEF item
<1>10. /\ next \in Nat /\ next' = next + 1 /\ UNCHANGED <<server, edits>>
       /\ QueueOK(sync, next)' /\ DependenciesOK(sync, {})'
  BY <1>1, <1>6, <1>9, EnqueueNextStep DEF item
<1>11. ObjectsOK'
  <2>1. Upsert(object) \in Rows
    BY <1>2, UpsertType
  <2> QED BY <1>2, <1>6, <1>10, <2>1 DEF TypeInv, ObjectsOK
<1>12. ActionsOK'
  BY <1>6, <1>10, SameActions DEF TypeInv
<1> QED
  BY <1>10, <1>11, <1>12 DEF TypeInv

LEMMA ObjectSteps ==
    ASSUME TypeInv, NEW o \in Objects, ReplaceWithConflict(o) \/ Refresh(o) \/ OthersEdit(o)
    PROVE  TypeInv'
<1>1. /\ ObjectsOK /\ model[o] \in ModelObjects /\ server[o] \in Versions /\ edits \in Nat
      /\ next \in Nat
  BY DEF TypeInv, ObjectsOK
<1>2. UNCHANGED <<sync, actions, next>>
  BY DEF ReplaceWithConflict, Refresh, OthersEdit, bounds
<1>3. NoConflict \in Versions /\ NoLocalChanges \in Int
  BY UnbornType
<1>4. ObjectsOK' /\ edits' \in Nat
  <2>1. CASE ReplaceWithConflict(o)
    <3> DEFINE now == [model[o] EXCEPT !.status = NoLocalChanges, !.conflict = NoConflict,
                                       !.rev = model[o].conflict.rev,
                                       !.content = model[o].conflict.content]
    <3>1. now \in ModelObjects
      BY <1>1, <1>3 DEF ModelObjects, Versions
    <3>2. Save(o, now) /\ UNCHANGED <<server, edits>>
      BY <2>1 DEF ReplaceWithConflict, bounds
    <3> HIDE DEF now
    <3> QED BY <1>1, <3>1, <3>2, SaveType DEF ObjectsOK
  <2>2. CASE Refresh(o)
    <3> DEFINE conflicted == [model[o] EXCEPT !.conflict = server[o]]
               taken == [model[o] EXCEPT !.rev = server[o].rev, !.content = server[o].content]
    <3>1. conflicted \in ModelObjects /\ taken \in ModelObjects
      BY <1>1 DEF ModelObjects, Versions
    <3>2. (Save(o, conflicted) \/ Save(o, taken)) /\ UNCHANGED <<server, edits>>
      BY <2>2 DEF Refresh, bounds
    <3> HIDE DEF conflicted, taken
    <3> QED BY <1>1, <3>1, <3>2, SaveType DEF ObjectsOK
  <2>3. CASE OthersEdit(o)
    <3>1. edits' = edits + 1 /\ UNCHANGED <<model, saved>>
      BY <2>3 DEF OthersEdit
    <3>2. Written(o, 0 - edits') \in Versions
      BY <1>1, <3>1 DEF Written, Versions
    <3> QED BY <1>1, <2>3, <3>1, <3>2 DEF OthersEdit, ObjectsOK
  <2> QED BY <2>1, <2>2, <2>3
<1>5. ActionsOK'
  BY <1>2 DEF TypeInv, ActionsOK
<1>6. QueueOK(sync, next)' /\ DependenciesOK(sync, {})'
  BY <1>2 DEF TypeInv
<1> QED
  BY <1>2, <1>4, <1>5, <1>6 DEF TypeInv

\* The dequeueing starts or stops.
LEMMA RunningOK ==
    ASSUME NEW v, NEW N \in Nat, QueueOK(v, N), NEW running \in BOOLEAN
    PROVE  LET w == [v EXCEPT !.running = running]
           IN  /\ QueueOK(w, N) /\ w.queue = v.queue /\ w.sent = v.sent
               /\ w.mapped = v.mapped /\ w.events = v.events
               /\ \A D : DependenciesOK(v, D) => DependenciesOK(w, D)
<1> DEFINE w == [v EXCEPT !.running = running]
<1>1. /\ w \in SyncQueues /\ w.queue = v.queue /\ w.sent = v.sent
      /\ w.mapped = v.mapped /\ w.events = v.events
  BY DEF QueueOK, SyncQueues
<1> HIDE DEF w
<1>2. QueueOK(w, N) /\ \A D : DependenciesOK(v, D) => DependenciesOK(w, D)
  BY <1>1 DEF QueueOK, DependenciesOK, NumbersDiffer, Pending
<1> QED
  BY <1>1, <1>2 DEF w

LEMMA PollStep ==
    ASSUME TypeInv, Poll \/ GoOffline PROVE TypeInv'
<1>1. UNCHANGED <<model, saved, actions, server, next, edits>>
  BY DEF Poll, GoOffline, bounds
<1>2. PICK N \in Nat : N = next
  BY DEF TypeInv
<1>3. PICK v : v = sync
  OBVIOUS
<1>4. QueueOK(v, N) /\ DependenciesOK(v, {})
  BY <1>2, <1>3 DEF TypeInv
<1>5. ASSUME NEW running \in BOOLEAN
      PROVE  /\ QueueOK([v EXCEPT !.running = running], N)
             /\ DependenciesOK([v EXCEPT !.running = running], {})
  <2> DEFINE w == [v EXCEPT !.running = running]
  <2>1. /\ QueueOK(w, N) /\ w.queue = v.queue /\ w.sent = v.sent
        /\ w.mapped = v.mapped /\ w.events = v.events
        /\ \A D : DependenciesOK(v, D) => DependenciesOK(w, D)
    BY <1>4, RunningOK
  <2> QED BY <1>4, <2>1
<1>6. PICK u, w : u = [v EXCEPT !.running = TRUE] /\ w = [v EXCEPT !.running = FALSE]
  OBVIOUS
<1>7. QueueOK(u, N) /\ DependenciesOK(u, {}) /\ QueueOK(w, N) /\ DependenciesOK(w, {})
  BY <1>5, <1>6
<1>8. QueueOK(Dequeue(u), N) /\ DependenciesOK(Dequeue(u), {})
  <2>1. QueueOK(Dequeue(u), N) /\ Evolves(u, Dequeue(u), {}) /\ Dequeue(u).mapped = u.mapped
    BY <1>7, DequeueOK
  <2> QED BY <1>7, <2>1, EvolvesDependencies
<1>9. PICK x : x = Dequeue(u)
  OBVIOUS
<1>10. next' = N /\ (sync' = x \/ sync' = w)
  BY <1>1, <1>2, <1>3, <1>6, <1>9 DEF Poll, GoOffline
<1>11. QueueOK(sync, next)' /\ DependenciesOK(sync, {})'
  BY <1>7, <1>8, <1>9, <1>10
<1>12. ObjectsOK' /\ ActionsOK'
  BY <1>1 DEF TypeInv, ObjectsOK, ActionsOK
<1> QED
  BY <1>1, <1>11, <1>12 DEF TypeInv

\* The dependencies of a whole queue are inferred.
LEMMA InferredEach ==
    ASSUME NEW v, NEW N \in Nat, QueueOK(v, N), \A i \in Elems(v.queue) : i.op # "Bulk"
    PROVE  LET w == [v EXCEPT !.queue = [k \in DOMAIN @ |-> Inferred(v, @[k]).item]]
           IN  /\ QueueOK(w, N) /\ DependenciesOK(w, {})
               /\ w.sent = v.sent /\ w.mapped = v.mapped /\ w.events = v.events
               /\ DOMAIN w.queue = DOMAIN v.queue
               /\ \A k \in DOMAIN v.queue :
                      w.queue[k] = Inferred(v, v.queue[k]).item /\ Same(w.queue[k], v.queue[k])
<1> DEFINE q == [k \in DOMAIN v.queue |-> Inferred(v, v.queue[k]).item]
           w == [v EXCEPT !.queue = q]
<1>1. v \in SyncQueues /\ v.queue \in Seq(Items) /\ NumbersDiffer(v)
  BY DEF QueueOK, SyncQueues
<1>2. ASSUME NEW k \in DOMAIN v.queue
      PROVE  /\ q[k] \in Items /\ Same(q[k], v.queue[k]) /\ WaitOK(q[k]) /\ ItemOK(q[k], N)
             /\ \A d \in q[k].deps : \E j \in Pending(v) : Settles(j, d)
  <2>1. PICK item : item = v.queue[k]
    OBVIOUS
  <2>2. /\ item \in Items /\ item \in Elems(v.queue)
        /\ WaitOK(item) /\ ItemOK(item, N) /\ item.op # "Bulk"
    BY <1>1, <2>1 DEF Elems, QueueOK, Pending
  <2> DEFINE new == Inferred(v, item).item
  <2>3. /\ new \in Items /\ Same(new, item) /\ new.refs \subseteq item.refs
        /\ (item.op # "Update" /\ item.refs = {}) => new.deps = {}
        /\ \A d \in new.deps : \E j \in Pending(v) : Settles(j, d)
        /\ Inferred(v, item).events \in Seq(Events)
    BY <1>1, <2>2, InferredProperties
  <2>4. q[k] = new
    BY <2>1
  <2> HIDE DEF new, q
  <2>5. WaitOK(new) /\ ItemOK(new, N)
    BY <2>2, <2>3 DEF WaitOK, ItemOK, Same
  <2> QED BY <2>1, <2>3, <2>4, <2>5
<1>3. DOMAIN q = DOMAIN v.queue /\ q = [k \in DOMAIN v.queue |-> q[k]]
      /\ \A k \in DOMAIN v.queue : q[k] = Inferred(v, v.queue[k]).item
  OBVIOUS
<1>4. [v EXCEPT !.queue = [k \in DOMAIN @ |-> Inferred(v, @[k]).item]] = w
  OBVIOUS
<1> HIDE DEF q
<1>5. q \in Seq(Items)
  BY <1>1, <1>2, <1>3, MappedItems
<1>6. /\ w \in SyncQueues /\ w.queue = q /\ w.sent = v.sent /\ w.mapped = v.mapped
      /\ w.events = v.events
  BY <1>1, <1>5 DEF SyncQueues
<1> HIDE DEF w
<1>7. NumbersDiffer(w)
  <2>1. \A k \in DOMAIN v.queue : q[k].n = v.queue[k].n
    BY <1>2 DEF Same
  <2>2. \A j, k \in DOMAIN w.queue : w.queue[j].n = w.queue[k].n => j = k
    BY <1>1, <1>3, <1>6, <2>1 DEF NumbersDiffer
  <2>3. \A k \in DOMAIN v.queue : v.queue[k] \in Elems(v.queue)
    BY DEF Elems
  <2>4. \A i \in Elems(w.queue) : \E k \in DOMAIN v.queue : i = q[k]
    BY <1>3, <1>6 DEF Elems
  <2>5. \A i \in Elems(w.queue), r \in w.sent : i.n # r.n
    BY <1>1, <1>6, <2>1, <2>3, <2>4 DEF NumbersDiffer
  <2> QED BY <2>5, <1>1, <1>6, <2>2, <2>3 DEF NumbersDiffer
<1>8. QueueOK(w, N)
  BY <1>2, <1>3, <1>6, <1>7 DEF QueueOK, Pending, Elems
<1>9. \A j \in Pending(v) : \E i \in Pending(w) : \A d : Settles(j, d) => Settles(i, d)
  <2>1. SUFFICES ASSUME NEW j \in Elems(v.queue)
                 PROVE  \E i \in Pending(w) : \A d : Settles(j, d) => Settles(i, d)
    BY <1>6 DEF Pending
  <2>2. PICK k \in DOMAIN v.queue : j = v.queue[k]
    BY DEF Elems
  <2>3. Same(q[k], j) /\ q[k] \in Pending(w)
    BY <1>2, <1>3, <1>6, <2>2 DEF Pending, Elems
  <2> QED BY <2>3 DEF Settles, Same, DependencyOn, IsContent
<1>10. DependenciesOK(w, {})
  BY <1>2, <1>3, <1>6, <1>9 DEF DependenciesOK, Elems
<1> QED
  BY <1>2, <1>3, <1>4, <1>6, <1>8, <1>10

\* Orderings of a finite set.
LEMMA OrderingType ==
    ASSUME NEW T, IsFiniteSet(T), NEW s \in Orderings(T)
    PROVE  /\ s \in Seq(T) /\ DOMAIN s = 1..Cardinality(T) /\ Cardinality(T) \in Nat
           /\ Injective(s)
BY FS_CardinalityType DEF Orderings

\* An ordering of a finite set has each of its elements.
LEMMA OrderingIsOnto ==
    ASSUME NEW T, IsFiniteSet(T), NEW s \in Orderings(T), NEW x \in T
    PROVE  \E k \in DOMAIN s : s[k] = x
<1>1. PICK n : n = Cardinality(T)
  OBVIOUS
<1>2. s \in [1..n -> T] /\ Injective(s) /\ n \in Nat
  BY <1>1, FS_CardinalityType DEF Orderings
<1>3. s \in Injection(1..n, T)
  BY <1>2 DEF Injective, Injection, IsInjective
<1>4. Cardinality(1..n) = n
  <2>1. 1 \in Int /\ n \in Int
    BY <1>2
  <2>2. Cardinality(1..n) = IF 1 > n THEN 0 ELSE n - 1 + 1
    BY <2>1, FS_Interval
  <2> QED BY <2>2, <1>2
<1>5. s \in Surjection(1..n, T)
  BY <1>1, <1>3, <1>4, FS_Injection
<1> QED
  BY <1>2, <1>5 DEF Surjection

\* What is queued at the start: numbered items of objects, then the actions.
StartsWith(objects, acts, N) ==
    /\ objects \in Seq(Items) /\ acts \in Seq(Items)
    /\ \A k \in DOMAIN objects : /\ objects[k].n = N + k /\ objects[k].op \in {"Create", "Update"}
                                 /\ Len(objects[k].objs) = 1
    /\ \A k \in DOMAIN acts : /\ acts[k].n < N /\ acts[k].op = "Record"
                              /\ acts[k].deps = {} /\ acts[k].refs = {}
                              /\ Len(acts[k].objs) = 1
    /\ \A j, k \in DOMAIN acts : acts[j].n = acts[k].n => j = k

StartQueue(q) == [queue |-> q, sent |-> {}, mapped |-> {}, running |-> FALSE, events |-> <<>>]

LEMMA StartQueueType ==
    ASSUME NEW q \in Seq(Items)
    PROVE  /\ StartQueue(q) \in SyncQueues /\ StartQueue(q).queue = q /\ StartQueue(q).sent = {}
           /\ StartQueue(q).mapped = {} /\ StartQueue(q).events = <<>>
<1>1. {} \in SUBSET Requests /\ {} \in SUBSET Objects /\ FALSE \in BOOLEAN
  OBVIOUS
<1>2. PICK es : es = <<>>
  OBVIOUS
<1>3. es \in Seq(Events)
  BY <1>2
<1>4. StartQueue(q) = [queue |-> q, sent |-> {}, mapped |-> {}, running |-> FALSE, events |-> es]
  BY <1>2 DEF StartQueue
<1> QED
  BY <1>1, <1>2, <1>3, <1>4 DEF SyncQueues

LEMMA RestartedQueue ==
    ASSUME NEW N \in Nat, NEW M \in Nat, NEW objects, NEW acts, StartsWith(objects, acts, N),
           Len(objects) < M, NEW v, v = StartQueue(objects \o acts)
    PROVE  /\ QueueOK(v, N + M) /\ \A i \in Elems(v.queue) : i.op # "Bulk"
           /\ Elems(v.queue) = Elems(objects) \cup Elems(acts)
<1>a. /\ objects \in Seq(Items) /\ acts \in Seq(Items)
      /\ \A k \in DOMAIN objects : /\ objects[k].n = N + k /\ objects[k].op \in {"Create", "Update"}
                                   /\ Len(objects[k].objs) = 1
  BY DEF StartsWith
<1>b. \A k \in DOMAIN acts : /\ acts[k].n < N /\ acts[k].op = "Record"
                             /\ acts[k].deps = {} /\ acts[k].refs = {}
                             /\ Len(acts[k].objs) = 1
  BY DEF StartsWith
<1>c. \A j, k \in DOMAIN acts : acts[j].n = acts[k].n => j = k
  BY DEF StartsWith
<1> DEFINE q == objects \o acts
           n == Len(objects)
<1>1. /\ q \in Seq(Items) /\ Elems(q) = Elems(objects) \cup Elems(acts)
      /\ n \in Nat /\ Len(acts) \in Nat /\ DOMAIN q = 1..(n + Len(acts))
      /\ DOMAIN objects = 1..n /\ DOMAIN acts = 1..Len(acts)
      /\ \A k \in 1..n : q[k] = objects[k]
      /\ \A k \in 1..Len(acts) : q[n + k] = acts[k]
  BY <1>a, ConcatElems
<1>2. v = StartQueue(q)
  OBVIOUS
<1> HIDE DEF q, n
<1>3. v \in SyncQueues /\ v.queue = q /\ v.sent = {}
  BY <1>1, <1>2, StartQueueType
<1>4. \A i \in Elems(q) : ItemOK(i, N + M) /\ WaitOK(i) /\ i.op # "Bulk"
  <2>1. ASSUME NEW k \in DOMAIN objects
        PROVE  ItemOK(objects[k], N + M) /\ WaitOK(objects[k]) /\ objects[k].op # "Bulk"
    <3>1. k \in Int /\ k <= n /\ n < M
      BY <1>1 DEF n
    <3>2. N + k < N + M
      BY <1>1, <3>1
    <3>3. objects[k].n < N + M /\ objects[k].op \in {"Create", "Update"} /\ Len(objects[k].objs) = 1
      BY <1>a, <3>2
    <3> QED BY <3>3 DEF ItemOK, WaitOK
  <2>2. ASSUME NEW k \in DOMAIN acts
        PROVE  ItemOK(acts[k], N + M) /\ WaitOK(acts[k]) /\ acts[k].op # "Bulk"
    <3>1. acts[k] \in Items
      BY <1>a
    <3>2. acts[k].n \in Nat
      BY <3>1 DEF Items
    <3> QED BY <1>b, <3>2 DEF ItemOK, WaitOK
  <2>3. \A i \in Elems(objects) : ItemOK(i, N + M) /\ WaitOK(i) /\ i.op # "Bulk"
    BY <2>1 DEF Elems
  <2>4. \A i \in Elems(acts) : ItemOK(i, N + M) /\ WaitOK(i) /\ i.op # "Bulk"
    BY <2>2 DEF Elems
  <2> QED BY <1>1, <2>3, <2>4
<1>5. ASSUME NEW j \in DOMAIN q, NEW k \in DOMAIN q, q[j].n = q[k].n PROVE j = k
  <2>1. ASSUME NEW i \in DOMAIN q
        PROVE  \/ i \in 1..n /\ q[i].n = N + i
               \/ i - n \in 1..Len(acts) /\ q[i] = acts[i - n] /\ q[i].n < N
    <3>1. CASE i \in 1..n
      BY <3>1, <1>1, <1>a
    <3>2. CASE i \notin 1..n
      <4>1. i - n \in 1..Len(acts) /\ n + (i - n) = i
        BY <3>2, <1>1
      <4> QED BY <4>1, <1>1, <1>b
    <3> QED BY <3>1, <3>2
  <2>2. j \in Int /\ k \in Int
    BY <1>1
  <2>3. CASE j \in 1..n
    <3>1. q[j].n = N + j /\ j >= 1
      BY <2>1, <2>2, <2>3, <1>1
    <3>2. ~(q[k].n < N)
      BY <1>5, <2>2, <3>1
    <3>3. q[k].n = N + k
      BY <2>1, <3>2
    <3>4. N + j = N + k
      BY <1>5, <3>1, <3>3
    <3>5. \A a, b \in Int : N + a = N + b => a = b
      OBVIOUS
    <3> QED BY <2>2, <3>4, <3>5
  <2>4. CASE j \notin 1..n
    <3>1. j - n \in 1..Len(acts) /\ q[j] = acts[j - n] /\ q[j].n < N
      BY <2>1, <2>4
    <3>2. k - n \in 1..Len(acts) /\ q[k] = acts[k - n]
      BY <1>5, <2>1, <2>2, <3>1
    <3>3. j - n = k - n
      BY <1>1, <1>5, <1>c, <3>1, <3>2
    <3> QED BY <1>1, <2>2, <3>3
  <2> QED BY <2>3, <2>4
<1>6. NumbersDiffer(v)
  BY <1>3, <1>5 DEF NumbersDiffer
<1>7. QueueOK(v, N + M)
  BY <1>3, <1>4, <1>6 DEF QueueOK, Pending
<1> QED
  BY <1>1, <1>3, <1>4, <1>7 DEF q

\* What SQLite gives back, and what of it is pending.
LoadedObjects == [o \in Objects |-> Loaded(saved[o])]
LoadedPending == {o \in Objects : Exists(LoadedObjects[o]) /\ IsPending(LoadedObjects[o].status)}

IsItemOf(i, o, object) ==
    /\ i.objs = <<o>> /\ i.client = (object.id = "Client")
    /\ i.op = IF object.id = "Client" THEN "Create" ELSE "Update"

\* The enums that an item names by their client ids have no others, and it waits for the creations
\* of all if these are pending.
AwaitsCreations(v, i, e) ==
    /\ \E c \in Pending(v) : Creates(c, e)
    /\ \A c \in Pending(v) : Creates(c, e) => DependencyOn(c, e) \in i.deps
NamesLoaded(v, i) ==
    /\ \A e \in i.refs : e \in Enums /\ LoadedObjects[e].id = "Client"
    /\ i.refs \subseteq LoadedPending => \A e \in i.refs : AwaitsCreations(v, i, e)

\* The queue then has one item of each pending object, and the actions; what refers to nothing
\* waits for none of the others.
RestartedFrom(w, order) ==
    /\ w.sent = {} /\ w.mapped = {} /\ w.events = <<>>
    /\ \A i \in Elems(w.queue) :
          /\ Len(i.objs) = 1
          /\ i.op # "Record" => \E k \in DOMAIN order :
                 i.n = next + k /\ IsItemOf(i, order[k], LoadedObjects[order[k]])
    /\ \A k \in DOMAIN order : \E i \in Elems(w.queue) :
           i.n = next + k /\ IsItemOf(i, order[k], LoadedObjects[order[k]])
    /\ \A i \in Elems(w.queue) : i.objs[1] \notin Workflows => WaitsForOwn(w, i)
    /\ \A i \in Elems(w.queue) : NamesLoaded(w, i)

LEMMA RestartSteps ==
    ASSUME TypeInv, Restart
    PROVE  /\ TypeInv' /\ model' = LoadedObjects /\ UNCHANGED saved
           /\ \E order \in Orderings(LoadedPending) : RestartedFrom(sync', order)
<1> DEFINE loaded == [o \in Objects |-> Loaded(saved[o])]
           pending == {o \in Objects : Exists(loaded[o]) /\ IsPending(loaded[o].status)}
           enums(o) == IF o \in Workflows /\ loaded[o].content > 0
                       THEN {e \in References[o] : loaded[e].id = "Client"} ELSE {}
           known == {a \in actions : Exists(loaded[a.o]) /\ (a.client => loaded[a.o].id = "Client")}
           Item(o, k) == [SyncItem(o, loaded[o], next + k) EXCEPT !.refs = enums(o)]
           Action(a) == [NewItem("Record", a.o, loaded[a.o], a.n) EXCEPT !.refs = {}]
<1>1. PICK N \in Nat : N = next
  BY DEF TypeInv
<1>2. PICK order \in Orderings(pending), reports \in Orderings(known) :
          LET objects == [k \in DOMAIN order |-> Item(order[k], k)]
              acts == [k \in DOMAIN reports |-> Action(reports[k])]
              v == [queue |-> objects \o acts, sent |-> {}, mapped |-> {}, running |-> FALSE, events |-> <<>>]
          IN  sync' = [v EXCEPT !.queue = [k \in DOMAIN @ |-> Inferred(v, @[k]).item]]
  BY DEF Restart
<1>3. \A o \in Objects : loaded[o] \in ModelObjects
  <2>1. SUFFICES ASSUME NEW o \in Objects PROVE Loaded(saved[o]) \in ModelObjects
    OBVIOUS
  <2>2. PICK row : row = saved[o]
    OBVIOUS
  <2>3. row \in Rows
    BY <2>2 DEF TypeInv, ObjectsOK
  <2>4. PICK status \in Int : status = IF row.pending THEN 1 ELSE NoLocalChanges
    BY UnbornType
  <2>5. Loaded(row) = [Unborn EXCEPT !.id = row.id, !.rev = row.rev, !.content = row.content,
                                     !.team = row.team, !.status = status]
    BY <2>4 DEF Loaded
  <2>6. Loaded(row) \in ModelObjects
    BY <2>3, <2>4, <2>5, UnbornType DEF ModelObjects, Rows
  <2> QED BY <2>2, <2>6
<1>4. \A o \in Objects : /\ \A e \in enums(o) : e \in Enums /\ loaded[e].id = "Client"
                         /\ o \notin Workflows => enums(o) = {}
  BY ReferencesAssumption
<1>5. IsFiniteSet(pending) /\ pending \subseteq Objects
  BY KindsAssumption, FS_Subset
<1>6. IsFiniteSet(known) /\ known \subseteq actions
  BY FS_Subset DEF TypeInv, ActionsOK
<1>7. /\ next' = N + 1 + Cardinality(pending) /\ model' = loaded
      /\ UNCHANGED <<saved, actions, server, edits>>
  BY <1>1 DEF Restart
<1> HIDE DEF enums
<1>8. ASSUME NEW o \in Objects, NEW k \in Nat
      PROVE  /\ Item(o, k) \in Items /\ Item(o, k).n = N + k
             /\ Item(o, k).op \in {"Create", "Update"} /\ Len(Item(o, k).objs) = 1
             /\ IsItemOf(Item(o, k), o, loaded[o])
             /\ Item(o, k).refs = enums(o)
  <2>1. PICK object : object = loaded[o]
    OBVIOUS
  <2>2. PICK m \in Nat : m = next + k
    BY <1>1
  <2>3. PICK item : item = SyncItem(o, object, m)
    OBVIOUS
  <2>4. /\ item \in Items /\ item.n = m /\ item.objs = <<o>> /\ Len(item.objs) = 1
        /\ item.op = IF object.id = "Client" THEN "Create" ELSE "Update"
        /\ item.deps = {} /\ item.content = object.content
        /\ item.client = (object.id = "Client") /\ item.refs = Refs(o, object)
    BY <1>3, <2>1, <2>3, SyncItemType
  <2>5. Item(o, k) = [item EXCEPT !.refs = enums(o)]
    BY <2>1, <2>2, <2>3
  <2>6. [item EXCEPT !.refs = enums(o)] \in Items
    BY <1>4, <2>4 DEF Items
  <2>7. item.op \in {"Create", "Update"}
    BY <2>4
  <2> HIDE DEF Item
  <2>8. Item(o, k).objs = item.objs /\ Item(o, k).op = item.op /\ Item(o, k).client = item.client
    BY <2>4, <2>5 DEF Items
  <2>9. IsItemOf(Item(o, k), o, loaded[o])
    BY <2>1, <2>4, <2>8 DEF IsItemOf
  <2>10. Item(o, k).refs = enums(o)
    BY <2>4, <2>5 DEF Items
  <2> QED BY <1>1, <2>2, <2>4, <2>5, <2>6, <2>7, <2>9, <2>10 DEF Items
<1>9. ASSUME NEW a \in actions
      PROVE  /\ Action(a) \in Items /\ Action(a).n = a.n /\ Action(a).op = "Record"
             /\ Action(a).deps = {} /\ Action(a).refs = {} /\ Len(Action(a).objs) = 1
  <2>1. a.o \in Objects /\ a.n \in Nat
    BY DEF TypeInv, ActionsOK, ActionRecords
  <2>2. PICK o, m, object : o = a.o /\ m = a.n /\ object = loaded[a.o]
    OBVIOUS
  <2>3. PICK item : item = NewItem("Record", o, object, m)
    OBVIOUS
  <2>4. "Record" \in Operations /\ o \in Objects /\ m \in Nat /\ object \in ModelObjects
    BY <1>3, <2>1, <2>2 DEF Operations
  <2>5. /\ item \in Items /\ item.n = m /\ item.op = "Record" /\ item.objs = <<o>>
        /\ Len(item.objs) = 1 /\ item.deps = {} /\ item.content = object.content
        /\ item.client = (object.id = "Client") /\ item.refs = Refs(o, object)
        /\ [item EXCEPT !.refs = {}] \in Items
    BY <2>3, <2>4, NewItemType
  <2>6. Action(a) = [item EXCEPT !.refs = {}]
    BY <2>2, <2>3
  <2> HIDE DEF Action
  <2> QED BY <2>2, <2>5, <2>6 DEF Items
<1>10. /\ order \in Seq(pending) /\ DOMAIN order = 1..Cardinality(pending)
       /\ Cardinality(pending) \in Nat
  BY <1>5, OrderingType
<1>11. /\ reports \in Seq(known) /\ DOMAIN reports = 1..Cardinality(known)
       /\ Cardinality(known) \in Nat /\ Injective(reports)
  BY <1>6, OrderingType
<1> HIDE DEF Item, Action, loaded, pending, known
<1>12. PICK objects : objects = [k \in DOMAIN order |-> Item(order[k], k)]
  OBVIOUS
<1>13. PICK acts : acts = [k \in DOMAIN reports |-> Action(reports[k])]
  OBVIOUS
<1>14. /\ objects \in Seq(Items) /\ Len(objects) = Cardinality(pending)
       /\ DOMAIN objects = DOMAIN order
       /\ \A k \in DOMAIN objects : /\ objects[k].n = N + k /\ objects[k].op \in {"Create", "Update"}
                                    /\ Len(objects[k].objs) = 1
                                    /\ IsItemOf(objects[k], order[k], loaded[order[k]])
                                    /\ objects[k].refs = enums(order[k])
  <2>1. ASSUME NEW k \in DOMAIN order
        PROVE  /\ objects[k] \in Items /\ objects[k].n = N + k /\ objects[k].op \in {"Create", "Update"}
               /\ Len(objects[k].objs) = 1
               /\ IsItemOf(objects[k], order[k], loaded[order[k]])
               /\ objects[k].refs = enums(order[k])
    <3>1. order[k] \in Objects /\ k \in Nat
      BY <1>5, <1>10
    <3>2. objects[k] = Item(order[k], k)
      BY <1>12
    <3> QED BY <1>8, <3>1, <3>2
  <2>2. DOMAIN objects = 1..Cardinality(pending)
    BY <1>10, <1>12
  <2>3. objects \in [1..Cardinality(pending) -> Items]
    BY <1>10, <1>12, <2>1
  <2>4. objects \in Seq(Items) /\ Len(objects) = Cardinality(pending)
    BY <1>10, <2>3
  <2> QED BY <1>10, <2>1, <2>2, <2>4
<1>15. /\ acts \in Seq(Items)
       /\ \A k \in DOMAIN acts : /\ acts[k].n < N /\ acts[k].op = "Record"
                                 /\ acts[k].deps = {} /\ acts[k].refs = {}
                                 /\ Len(acts[k].objs) = 1
       /\ \A j, k \in DOMAIN acts : acts[j].n = acts[k].n => j = k
  <2>1. ASSUME NEW k \in DOMAIN reports
        PROVE  /\ acts[k] \in Items /\ acts[k].n = reports[k].n /\ reports[k] \in actions
               /\ acts[k].op = "Record" /\ acts[k].n < N
               /\ acts[k].deps = {} /\ acts[k].refs = {} /\ Len(acts[k].objs) = 1
    <3>1. reports[k] \in actions
      BY <1>6, <1>11
    <3>2. acts[k] = Action(reports[k])
      BY <1>13
    <3>3. reports[k].n < N
      BY <1>1, <3>1 DEF TypeInv, ActionsOK
    <3> QED BY <1>9, <3>1, <3>2, <3>3
  <2>2. DOMAIN acts = DOMAIN reports
    BY <1>13
  <2>3. acts \in [1..Cardinality(known) -> Items]
    BY <1>11, <1>13, <2>1
  <2>4. acts \in Seq(Items)
    BY <1>11, <2>3
  <2>5. ASSUME NEW j \in DOMAIN acts, NEW k \in DOMAIN acts, acts[j].n = acts[k].n PROVE j = k
    <3>1. reports[j].n = reports[k].n /\ reports[j] \in actions /\ reports[k] \in actions
      BY <2>1, <2>2, <2>5
    <3>2. reports[j] = reports[k]
      BY <3>1 DEF TypeInv, ActionsOK
    <3> QED BY <1>11, <2>2, <3>2 DEF Injective
  <2> QED BY <2>1, <2>2, <2>4, <2>5
<1>16. PICK v : v = StartQueue(objects \o acts)
  OBVIOUS
<1>17. PICK M \in Nat : M = 1 + Cardinality(pending)
  BY <1>10
<1>18. /\ QueueOK(v, N + M) /\ \A i \in Elems(v.queue) : i.op # "Bulk"
       /\ Elems(v.queue) = Elems(objects) \cup Elems(acts)
  <2>1. Len(objects) < M
    BY <1>10, <1>14, <1>17
  <2>2. StartsWith(objects, acts, N)
    BY <1>14, <1>15 DEF StartsWith
  <2>3. /\ QueueOK(v, N + M) /\ \A i \in Elems(v.queue) : i.op # "Bulk"
        /\ Elems(v.queue) = Elems(objects) \cup Elems(acts)
    BY <1>16, <2>1, <2>2, RestartedQueue
  <2> QED BY <2>3
<1> DEFINE w == [v EXCEPT !.queue = [k \in DOMAIN @ |-> Inferred(v, @[k]).item]]
<1>19. /\ QueueOK(w, N + M) /\ DependenciesOK(w, {})
       /\ w.sent = v.sent /\ w.mapped = v.mapped /\ w.events = v.events
       /\ DOMAIN w.queue = DOMAIN v.queue
       /\ \A k \in DOMAIN v.queue :
              w.queue[k] = Inferred(v, v.queue[k]).item /\ Same(w.queue[k], v.queue[k])
  <2>1. N + M \in Nat
    OBVIOUS
  <2>2. PICK L \in Nat : L = N + M
    BY <2>1
  <2>3. QueueOK(v, L)
    BY <1>18, <2>2
  <2>4. /\ QueueOK(w, L) /\ DependenciesOK(w, {})
        /\ w.sent = v.sent /\ w.mapped = v.mapped /\ w.events = v.events
        /\ DOMAIN w.queue = DOMAIN v.queue
        /\ \A k \in DOMAIN v.queue :
               w.queue[k] = Inferred(v, v.queue[k]).item /\ Same(w.queue[k], v.queue[k])
    BY <1>18, <2>3, InferredEach
  <2> HIDE DEF w
  <2> QED BY <2>2, <2>4
<1>20. sync' = w
  BY <1>2, <1>12, <1>13, <1>16 DEF StartQueue
<1> HIDE DEF w
<1>21. next' = N + M /\ next' \in Nat
  BY <1>7, <1>10, <1>17
<1>22. PICK x : x = w
  OBVIOUS
<1>23. QueueOK(sync, next)' /\ DependenciesOK(sync, {})'
  BY <1>19, <1>20, <1>21, <1>22
<1>24. ObjectsOK'
  <2>1. loaded \in [Objects -> ModelObjects]
    BY <1>3 DEF loaded
  <2> QED BY <1>7, <2>1 DEF TypeInv, ObjectsOK
<1>25. ActionsOK'
  BY <1>1, <1>7, <1>17, <1>21, SameActions DEF TypeInv
<1>26. TypeInv'
  BY <1>7, <1>21, <1>23, <1>24, <1>25 DEF TypeInv
<1>27. LoadedObjects = loaded /\ LoadedPending = pending
  BY DEF LoadedObjects, LoadedPending, loaded, pending
<1>28. x.sent = {} /\ x.mapped = {} /\ x.events = <<>>
  <2>1. objects \o acts \in Seq(Items)
    BY <1>14, <1>15
  <2> QED BY <1>16, <1>19, <1>22, <2>1, StartQueueType
<1>29. /\ \A i \in Elems(x.queue) : \E j \in Elems(v.queue) : Same(i, j)
       /\ \A j \in Elems(v.queue) : \E i \in Elems(x.queue) : Same(i, j)
  BY <1>19, <1>22 DEF Elems
<1>30. ASSUME NEW i \in Elems(x.queue)
       PROVE  /\ Len(i.objs) = 1
              /\ i.op # "Record" => \E k \in DOMAIN order :
                     i.n = next + k /\ IsItemOf(i, order[k], LoadedObjects[order[k]])
  <2>1. PICK j \in Elems(objects) \cup Elems(acts) : Same(i, j)
    BY <1>18, <1>29
  <2>2. CASE j \in Elems(acts)
    BY <1>15, <2>1, <2>2 DEF Elems, Same
  <2>3. CASE j \in Elems(objects)
    <3>1. PICK k \in DOMAIN objects : j = objects[k]
      BY <2>3 DEF Elems
    <3>2. k \in DOMAIN order /\ j.n = next + k /\ IsItemOf(j, order[k], LoadedObjects[order[k]])
      BY <1>1, <1>14, <1>27, <3>1
    <3>3. i.n = next + k /\ IsItemOf(i, order[k], LoadedObjects[order[k]])
      BY <2>1, <3>2 DEF Same, IsItemOf
    <3>4. Len(i.objs) = 1
      BY <1>14, <2>1, <3>1 DEF Same
    <3> QED BY <3>2, <3>3, <3>4
  <2> QED BY <2>1, <2>2, <2>3
<1>31. ASSUME NEW k \in DOMAIN order
       PROVE  \E i \in Elems(x.queue) : i.n = next + k /\ IsItemOf(i, order[k], LoadedObjects[order[k]])
  <2>1. objects[k] \in Elems(v.queue)
    BY <1>14, <1>18 DEF Elems
  <2>2. PICK i \in Elems(x.queue) : Same(i, objects[k])
    BY <1>29, <2>1
  <2>3. objects[k].n = next + k /\ IsItemOf(objects[k], order[k], LoadedObjects[order[k]])
    BY <1>1, <1>14, <1>27
  <2> QED BY <2>2, <2>3 DEF Same, IsItemOf
<1>32. ASSUME NEW i \in Elems(x.queue), i.objs[1] \notin Workflows PROVE WaitsForOwn(x, i)
  <2>1. PICK k \in DOMAIN v.queue : i = Inferred(v, v.queue[k]).item /\ Same(i, v.queue[k])
    BY <1>19, <1>22 DEF Elems
  <2>2. PICK item : item = v.queue[k]
    OBVIOUS
  <2>3. item \in Elems(objects) \cup Elems(acts) /\ item.objs[1] \notin Workflows /\ v \in SyncQueues
    BY <1>18, <1>32, <2>1, <2>2 DEF Elems, Same, QueueOK
  <2>4. item \in Items /\ item.refs = {}
    <3>1. CASE item \in Elems(acts)
      BY <3>1, <1>15 DEF Elems
    <3>2. CASE item \in Elems(objects)
      <4>1. PICK l \in DOMAIN objects : item = objects[l]
        BY <3>2 DEF Elems
      <4>2. /\ objects[l] \in Items /\ IsItemOf(objects[l], order[l], loaded[order[l]])
            /\ objects[l].refs = enums(order[l]) /\ order[l] \in Objects
        BY <1>5, <1>10, <1>14, <4>1
      <4>3. objects[l].objs[1] = order[l]
        BY <4>2 DEF IsItemOf
      <4> QED BY <1>4, <2>3, <4>1, <4>2, <4>3
    <3> QED BY <2>3, <3>1, <3>2
  <2>5. WaitsForOwn(v, i)
    BY <2>1, <2>2, <2>3, <2>4, InferredOwn
  <2>6. v.sent = {} /\ x.sent = {}
    BY <1>19, <1>22, <1>28
  <2>7. \A j \in Pending(v) : \E l \in Pending(x) : Same(l, j)
    BY <1>29, <2>6 DEF Pending
  <2>8. \A j, l : (Same(l, j) /\ IsContent(j)) => l.n = j.n /\ IsContent(l) /\ l.objs = j.objs
    BY DEF Same, IsContent
  <2> QED BY <2>5, <2>7, <2>8 DEF WaitsForOwn
<1>33. ASSUME NEW i \in Elems(x.queue) PROVE NamesLoaded(x, i)
  <2>1. PICK k \in DOMAIN v.queue : i = Inferred(v, v.queue[k]).item
    BY <1>19, <1>22 DEF Elems
  <2>2. PICK item : item = v.queue[k]
    OBVIOUS
  <2>3. item \in Elems(v.queue) /\ i = Inferred(v, item).item /\ v \in SyncQueues
    BY <1>18, <2>1, <2>2 DEF Elems, QueueOK
  <2>4. item \in Items /\ i.refs \subseteq item.refs
    <3>1. item \in Items
      BY <2>3, ElemsType DEF SyncQueues
    <3>2. /\ i \in Items /\ Same(i, item) /\ i.refs \subseteq item.refs
          /\ (item.op # "Update" /\ item.refs = {}) => i.deps = {}
          /\ \A d \in i.deps : \E j \in Pending(v) : Settles(j, d)
          /\ Inferred(v, item).events \in Seq(Events)
      BY <2>3, <3>1, InferredProperties
    <3> QED BY <3>1, <3>2
  <2>5. CASE item \in Elems(acts)
    <3>1. item.refs = {}
      BY <1>15, <2>5 DEF Elems
    <3> QED BY <2>4, <3>1 DEF NamesLoaded
  <2>6. CASE item \in Elems(objects)
    <3>1. PICK l \in DOMAIN objects : item = objects[l]
      BY <2>6 DEF Elems
    <3>2. PICK o : o = order[l]
      OBVIOUS
    <3>3. o \in Objects /\ item.refs = enums(o) /\ item.objs = <<o>>
      BY <1>5, <1>10, <1>14, <3>1, <3>2 DEF IsItemOf
    <3>4. \A e \in i.refs : e \in Enums /\ loaded[e].id = "Client" /\ o \in Workflows
      BY <1>4, <2>4, <3>3
    <3>5. ASSUME i.refs \subseteq pending, NEW e \in i.refs PROVE AwaitsCreations(x, i, e)
      <4>1. \A f \in item.refs : f \in pending
        <5>1. v.mapped = {}
          BY <1>19, <1>22, <1>28
        <5>2. i = [item EXCEPT !.refs = @ \ v.mapped, !.deps = i.deps]
          BY <2>3, <2>4 DEF Inferred, Items
        <5>3. i.refs = item.refs \ v.mapped
          BY <2>4, <5>2 DEF Items
        <5> QED BY <3>5, <5>1, <5>3
      <4>2. ASSUME NEW f \in item.refs
            PROVE  \E c \in Pending(v) : Creates(c, f)
        <5>1. f \in pending /\ loaded[f].id = "Client"
          BY <1>4, <3>3, <4>1
        <5>2. PICK m \in DOMAIN order : order[m] = f
          BY <1>5, <5>1, OrderingIsOnto
        <5>3. IsItemOf(objects[m], f, loaded[f]) /\ objects[m] \in Elems(v.queue)
          BY <1>14, <1>18, <5>2 DEF Elems
        <5>4. Creates(objects[m], f)
          BY <5>1, <5>3 DEF IsItemOf, Creates, Creations, Elems
        <5> QED BY <5>3, <5>4 DEF Pending
      <4>3. \A f \in item.refs \ v.mapped : ItemsWithId(v, f, {TRUE}) # {}
        BY <4>2, CreationsFound
      <4>4. /\ i.refs = item.refs \ v.mapped
            /\ \A f \in i.refs : ItemsWithId(v, f, {TRUE}) \ {<<item.n, NoObject>>} \subseteq i.deps
        BY <2>3, <2>4, <4>3, InferredAwaits
      <4>5. ASSUME NEW c \in Pending(v), Creates(c, e) PROVE DependencyOn(c, e) \in i.deps
        <5>1. DependencyOn(c, e) \in ItemsWithId(v, e, {TRUE})
          BY <4>5, CreationsFound
        <5>2. c.n # item.n
          <6>1. SUFFICES ASSUME c.n = item.n PROVE FALSE
            OBVIOUS
          <6>2. PICK L \in Nat : QueueOK(v, L)
            BY <1>18
          <6>3. c = item
            BY <2>3, <4>5, <6>1, <6>2 DEF QueueOK, NumbersDiffer, Pending, Elems
          <6>4. e = o
            BY <3>3, <4>5, <6>3 DEF Creates, Elems
          <6> QED BY <3>4, <3>5, <6>4, KindsAssumption
        <5>3. DependencyOn(c, e) # <<item.n, NoObject>>
          BY <5>2 DEF DependencyOn
        <5> QED BY <3>5, <4>4, <5>1, <5>3
      <4>6. PICK c \in Pending(v) : Creates(c, e)
        BY <2>4, <3>5, <4>2
      <4>7. v.sent = {} /\ x.sent = {}
        BY <1>19, <1>22, <1>28
      <4>8. /\ \A j \in Pending(v) : \E p \in Pending(x) : Same(p, j)
            /\ \A p \in Pending(x) : \E j \in Pending(v) : Same(p, j)
        BY <1>29, <4>7 DEF Pending
      <4>9. \A p, j : Same(p, j) => /\ Creates(p, e) <=> Creates(j, e)
                                    /\ DependencyOn(p, e) = DependencyOn(j, e)
        BY DEF Same, Creates, DependencyOn
      <4> QED BY <4>5, <4>6, <4>8, <4>9 DEF AwaitsCreations
    <3> QED BY <1>27, <3>4, <3>5 DEF NamesLoaded
  <2> QED BY <1>18, <2>3, <2>5, <2>6
<1>34. RestartedFrom(x, order)
  BY <1>28, <1>30, <1>31, <1>32, <1>33 DEF RestartedFrom
<1> QED
  BY <1>7, <1>20, <1>22, <1>26, <1>27, <1>34

LEMMA RestartStep ==
    ASSUME TypeInv, Restart PROVE TypeInv'
BY RestartSteps

LEMMA TypeInvInit ==
    ASSUME Init PROVE TypeInv
<1>1. /\ next = 1 /\ edits = 0 /\ actions = {} /\ sync = StartQueue(<<>>)
      /\ model = [o \in Objects |-> Unborn] /\ saved = [o \in Objects |-> Upsert(Unborn)]
      /\ server = [o \in Objects |-> NoConflict]
  BY DEF Init, StartQueue
<1>2. <<>> \in Seq(Items) /\ DOMAIN <<>> = {}
  OBVIOUS
<1>3. PICK q : q = <<>>
  OBVIOUS
<1>4. /\ q \in Seq(Items) /\ Elems(q) = {} /\ DOMAIN q = {}
  BY <1>2, <1>3 DEF Elems
<1>5. /\ sync \in SyncQueues /\ sync.queue = q /\ sync.sent = {}
  BY <1>1, <1>3, <1>4, StartQueueType
<1>6. QueueOK(sync, next) /\ DependenciesOK(sync, {})
  BY <1>4, <1>5 DEF QueueOK, DependenciesOK, NumbersDiffer, Pending
<1>7. Upsert(Unborn) \in Rows /\ Unborn \in ModelObjects /\ NoConflict \in Versions
  BY UnbornType, UpsertType
<1>8. ObjectsOK
  BY <1>1, <1>7 DEF ObjectsOK
<1>9. ActionsOK
  BY <1>1, FS_EmptySet DEF ActionsOK
<1>10. next \in Nat /\ edits \in Nat
  BY <1>1
<1> QED
  BY <1>6, <1>8, <1>9, <1>10 DEF TypeInv

LEMMA TypeInvStep ==
    ASSUME TypeInv, [Next]_vars PROVE TypeInv'
<1>1. CASE UNCHANGED vars
  BY <1>1 DEF TypeInv, ObjectsOK, ActionsOK, vars, bounds
<1>2. CASE Next
  <2>1. CASE Deliver
    BY <2>1, DeliverStep
  <2>2. CASE \E r \in sync.sent : Serve(r) \/ LoseAnswer(r) \/ Receive(r) \/ RequestFailed(r)
    BY <2>2, ServeStep, LoseAnswerStep, AnswerTakenStep
  <2>3. CASE \E o \in Objects : Create(o) \/ Update(o) \/ Record(o) \/ Resync(o)
                                 \/ ReplaceWithConflict(o) \/ Refresh(o) \/ OthersEdit(o)
    BY <2>3, CreateStep, UpdateStep, RecordStep, ResyncStep, ObjectSteps
  <2>4. CASE \E p, q \in Preferences : p # q /\ BulkCreate(<<p, q>>)
    BY <2>4, BulkCreateStep
  <2>5. CASE Poll \/ GoOffline
    BY <2>5, PollStep
  <2>6. CASE Restart
    BY <2>6, RestartStep
  <2> QED BY <1>2, <2>1, <2>2, <2>3, <2>4, <2>5, <2>6 DEF Next
<1> QED
  BY <1>1, <1>2

LEMMA TypeInvariant ==
    Spec => []TypeInv
<1>1. Init => TypeInv
  BY TypeInvInit
<1>2. TypeInv /\ [Next]_vars => TypeInv'
  BY TypeInvStep
<1> QED
  BY <1>1, <1>2, PTL DEF Spec

(***************************************************************************)
(* The variables of the sync queue have their types, for any objects,      *)
(* references and bounds (SyncQueue, CloudModel, ObjectActions).           *)
(***************************************************************************)
THEOREM SyncTypeCorrect ==
    Spec => []TypeOK
<1>1. TypeInv => TypeOK
  BY TypeInvImplies
<1> QED
  BY <1>1, TypeInvariant, PTL

(***************************************************************************)
(* What an item waits for is in the queue or in flight, whatever fails, is *)
(* denied or is restarted: handle_dependency_failure takes all dependents  *)
(* of what it fails, and handle_dependency_success releases each.          *)
(***************************************************************************)
THEOREM DependenciesPending ==
    Spec => []DependenciesArePending
<1>1. TypeInv => DependenciesArePending
  BY TypeInvImplies
<1> QED
  BY <1>1, TypeInvariant, PTL
=============================================================================
