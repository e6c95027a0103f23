-------------------------- MODULE ActionModelProofs --------------------------
(***************************************************************************)
(* Proofs about ActionModel, for every value of the constants: its type    *)
(* invariant and the exactness of its phases; then what follows each       *)
(* action from its arrival to its result: each is in one place, results    *)
(* are in the order of the tool calls, queues are served, and nothing runs *)
(* without consent.  A handler computes a view of one conversation and     *)
(* commits it, so that each invariant is proved of the views the handlers  *)
(* compute (one lemma per operator, in the order of the definitions) and   *)
(* then of the commit.                                                     *)
(***************************************************************************)
EXTENDS ActionModel, OrderedSeqsProofs

\* The views of one conversation that handlers work on.
View ==
    [pending : Seq(ActionIds), running : Running, finished : Seq(Result),
     status : Statuses, started : SUBSET ActionIds, events : Seq(Event)]

\* The executor's event is an event.
LEMMA ExecutorFinishedType ==
    ASSUME NEW c \in Conversations, NEW a \in ActionIds, NEW res \in Results,
           NEW reason \in Reasons \cup {NoReason}
    PROVE  ExecutorFinished(c, a, res, reason) \in Event
BY DEF ExecutorFinished, Event

\* The action model's event is an event.
LEMMA FinishedType ==
    ASSUME NEW c \in Conversations, NEW a \in ActionIds,
           NEW reason \in Reasons \cup {NoReason}
    PROVE  Finished(c, a, reason) \in Event
BY DEF Finished, Event

\* A handler starts from a view (the state it reads of one conversation).
LEMMA ViewOfType ==
    ASSUME ModelTypeOK, NEW c \in Conversations
    PROVE  ViewOf(c) \in View
BY DEF ModelTypeOK, ViewOf, View

\* Actions that start together form a serial or a parallel phase.
LEMMA PhaseOfType ==
    ASSUME NEW group PROVE PhaseOf(group) \in {"Serial", "Parallel"}
BY DEF PhaseOf

\* try_to_execute_available_actions keeps the types of what it changes.
LEMMA TryExecuteAvailableType ==
    ASSUME NEW c \in Conversations, NEW v \in View
    PROVE  TryExecuteAvailable(c, v) \in View
<1> DEFINE q == v.pending
           T == {i \in DOMAIN q : Startable(q, v.running.phase, i)}
           n == PrefixLen(T, Len(q))
           taken == SubSeq(q, 1, n)
           sync == Filter(taken, SyncActions(FALSE))
           async == Elems(taken) \ SyncActions(FALSE)
           evs == [i \in DOMAIN sync |->
                      ExecutorFinished(c, sync[i], "Completed", NoReason)]
           w == TryExecuteAvailable(c, v)
<1>1. /\ q \in Seq(ActionIds) /\ v.running \in Running /\ v.finished \in Seq(Result)
      /\ v.status \in Statuses /\ v.started \in SUBSET ActionIds /\ v.events \in Seq(Event)
  BY DEF View
<1>2. n \in 0..Len(q)
  <2> HIDE DEF q, T
  <2> QED BY <1>1, PrefixLenProperties
<1>3. taken \in Seq(ActionIds) /\ DropFirst(q, n) \in Seq(ActionIds)
  <2> HIDE DEF q, n
  <2> QED BY <1>1, <1>2, DropFirstType
<1>4. sync \in Seq(ActionIds) /\ async \in SUBSET ActionIds
  <2> HIDE DEF taken
  <2> QED BY <1>3, FilterProperties, ElemsType
<1>5. evs \in Seq(Event)
  <2> HIDE DEF sync
  <2>1. \A i \in DOMAIN sync : ExecutorFinished(c, sync[i], "Completed", NoReason) \in Event
    BY <1>4, ExecutorFinishedType DEF Results
  <2> QED BY <1>4, <2>1
<1>6. PICK run \in Running, st \in Statuses :
          w = [v EXCEPT !.pending = DropFirst(q, n), !.running = run,
                        !.started = @ \cup async, !.events = @ \o evs, !.status = st]
  <2> DEFINE run == IF async = {} THEN v.running
                    ELSE [phase |-> IF v.running.phase = "None" THEN PhaseOf(async)
                                    ELSE v.running.phase,
                          ids |-> v.running.ids \cup async]
             st == IF /\ n < Len(q)
                      /\ PhaseBefore(q, v.running.phase, n + 1) = "None"
                      /\ NeedsConfirmation(q[n + 1], FALSE)
                   THEN "Blocked" ELSE IF n > 0 THEN "InProgress" ELSE v.status
  <2>1. run \in Running
    <3> HIDE DEF async
    <3> QED BY <1>1, <1>4, PhaseOfType DEF Running, Phases
  <2>2. st \in Statuses
    <3> HIDE DEF n, q
    <3> QED BY <1>1 DEF Statuses
  <2>3. w = [v EXCEPT !.pending = DropFirst(q, n), !.running = run,
                      !.started = @ \cup async, !.events = @ \o evs, !.status = st]
    BY DEF TryExecuteAvailable, View
  <2> QED
    BY <2>1, <2>2, <2>3
<1> HIDE DEF q, n, async, evs, w
<1>7. v.events \o evs \in Seq(Event)
  BY <1>1, <1>5
<1> QED
  BY <1>1, <1>3, <1>4, <1>6, <1>7 DEF View, w

\* sort_finished_results keeps the type of the results.
LEMMA SortFinishedType ==
    ASSUME ModelTypeOK, NEW c \in Conversations, NEW results \in Seq(Result)
    PROVE  SortFinished(c, results) \in Seq(Result)
<1>1. order[c] \in Seq(ActionIds)
  BY DEF ModelTypeOK
<1>2. \A i \in DOMAIN results : results[i].id \in Elems(order[c]) =>
          PositionOf(results[i].id, order[c]) \in Int
  BY <1>1, PositionOfProperties
<1>3. OrderKey(c, results) \in [DOMAIN results -> Int]
  BY <1>1, <1>2 DEF OrderKey
<1> QED
  BY <1>3, StableSortType DEF SortFinished

\* Recording a result keeps the types of what it changes.
LEMMA RecordResultType ==
    ASSUME ModelTypeOK, NEW c \in Conversations, NEW v \in View, NEW a \in ActionIds,
           NEW res \in Results, NEW reason \in Reasons \cup {NoReason}
    PROVE  RecordResult(c, v, a, res, reason) \in View
<1> DEFINE pushed == Append(v.finished, [id |-> a, res |-> res])
           w == [v EXCEPT !.finished = pushed,
                          !.events = Append(@, Finished(c, a, reason))]
           sorted == [w EXCEPT !.finished = SortFinished(c, pushed)]
           st == IF AllCancelled(pushed) THEN "Cancelled" ELSE "InProgress"
<1>1. pushed \in Seq(Result)
  BY DEF View, Result
<1>2. w \in View
  <2> HIDE DEF pushed
  <2>1. Append(v.events, Finished(c, a, reason)) \in Seq(Event)
    BY FinishedType DEF View
  <2> QED BY <1>1, <2>1 DEF View
<1>3. sorted \in View
  <2> HIDE DEF pushed
  <2>1. SortFinished(c, pushed) \in Seq(Result)
    BY <1>1, SortFinishedType
  <2> HIDE DEF w
  <2> QED BY <1>2, <2>1 DEF View
<1>4. TryExecuteAvailable(c, sorted) \in View
  <2> HIDE DEF sorted
  <2> QED BY <1>3, TryExecuteAvailableType
<1>5. [sorted EXCEPT !.status = st] \in View
  <2>1. st \in Statuses
    BY DEF Statuses
  <2> HIDE DEF sorted, st
  <2> QED BY <1>3, <2>1 DEF View
<1>6. RecordResult(c, v, a, res, reason)
        \in {w, sorted, TryExecuteAvailable(c, sorted), [sorted EXCEPT !.status = st]}
  <2> HIDE DEF sorted, w, st
  <2> QED BY DEF RecordResult, sorted, w, st, pushed
<1> QED
  BY <1>2, <1>3, <1>4, <1>5, <1>6

\* Cancelling a list of actions passes through sets of views P[0], P[1], ..., if
\* the record of the i-th cancelled result leads from P[i - 1] to P[i].
LEMMA CancelEachPasses ==
    ASSUME NEW c, NEW reason, NEW ids \in Seq(ActionIds), NEW P, NEW v \in P[0],
           \A i \in 1..Len(ids) : \A w \in P[i - 1] :
               RecordResult(c, w, ids[i], "Cancelled", reason) \in P[i]
    PROVE  CancelEach(c, v, ids, reason) \in P[Len(ids)]
<1> DEFINE n == Len(ids)
           Record(w, i) == RecordResult(c, w, ids[i], "Cancelled", reason)
           V == UNION {P[i] : i \in 0..n}
           Body(f, i) == IF i = 0 THEN v ELSE Record(f[i - 1], i)
<1>1. n \in Nat /\ \A i \in 1..n : \A w \in P[i - 1] : Record(w, i) \in P[i]
  OBVIOUS
<1>2. \E g : g = [i \in 0..n |-> Body(g, i)]
  <2> DEFINE step == [p \in V \X (1..n) |->
                         IF p[1] \in P[p[2] - 1] THEN Record(p[1], p[2]) ELSE v]
             init == v
  <2> HIDE DEF n, Record
  <2>1. v \in V /\ \A i \in 0..n : P[i] \subseteq V
    BY <1>1
  <2>2. \A w \in V, i \in 1..n : w \in P[i - 1] => Record(w, i) \in V
    BY <1>1, <2>1
  <2> HIDE DEF V
  <2>3. step \in [V \X (1..n) -> V]
    BY <2>1, <2>2
  <2>4. \A w \in V, i \in 1..n : w \in P[i - 1] => step[<<w, i>>] = Record(w, i)
    OBVIOUS
  <2> HIDE DEF step
  <2>5. PICK g : Iterates(V, n, v, step, g)
    BY <1>1, <2>1, <2>3, IterationExists
  <2> DEFINE S == {m \in Nat : m <= n => g[m] \in P[m]}
  <2>6. 0 \in S
    BY <2>5 DEF Iterates
  <2>7. ASSUME NEW m \in Nat, m \in S PROVE m + 1 \in S
    <3>1. SUFFICES ASSUME m + 1 <= n PROVE g[m + 1] \in P[m + 1]
      OBVIOUS
    <3>2. m + 1 \in 1..n /\ (m + 1) - 1 = m /\ g[m] \in P[m] /\ g[m] \in V
      BY <1>1, <2>5, <2>7, <3>1 DEF Iterates
    <3>3. g[m + 1] = step[<<g[m], m + 1>>]
      BY <2>5, <3>2 DEF Iterates
    <3> QED BY <1>1, <2>4, <3>2, <3>3
  <2>8. \A i \in 0..n : g[i] \in P[i]
    <3> HIDE DEF S
    <3>1. Nat \subseteq S
      BY <2>6, <2>7, SetInduction
    <3> QED BY <1>1, <3>1 DEF S
  <2>9. \A i \in 0..n : i # 0 => i \in 1..n /\ g[i - 1] \in V /\ g[i - 1] \in P[i - 1]
    BY <1>1, <2>5, <2>8 DEF Iterates
  <2>10. g = [i \in 0..n |-> Body(g, i)]
    BY <2>4, <2>5, <2>9 DEF Iterates
  <2> QED BY <2>10
<1> DEFINE steps == CHOOSE f : f = [i \in 0..n |-> Body(f, i)]
<1>3. CancelEach(c, v, ids, reason) = steps[n]
  BY DEF CancelEach, steps, Record, n
<1> HIDE DEF n, Record
<1>4. steps = [i \in 0..n |-> Body(steps, i)]
  <2> HIDE DEF Body
  <2> QED BY <1>2
<1> HIDE DEF steps
<1> DEFINE S == {m \in Nat : m <= n => steps[m] \in P[m]}
<1>5. 0 \in S
  BY <1>1, <1>4
<1>6. ASSUME NEW m \in Nat, m \in S PROVE m + 1 \in S
  <2>1. SUFFICES ASSUME m + 1 <= n PROVE steps[m + 1] \in P[m + 1]
    OBVIOUS
  <2>2. steps[m] \in P[m] /\ m + 1 \in 1..n
    BY <1>1, <1>6, <2>1
  <2>3. m + 1 \in 0..n /\ m + 1 # 0 /\ (m + 1) - 1 = m
    BY <1>1, <2>2
  <2>4. steps[m + 1] = Record(steps[m], m + 1)
    BY <1>4, <2>3
  <2> QED BY <1>1, <2>2, <2>3, <2>4
<1>7. n \in S
  <2> HIDE DEF S
  <2> QED BY <1>1, <1>5, <1>6, SetInduction
<1> QED
  BY <1>1, <1>3, <1>7 DEF n

\* A set of views that recording a cancelled result does not leave is not left
\* by cancelling a whole list of actions.
LEMMA CancelEachStaysIn ==
    ASSUME NEW V, NEW c, NEW reason, NEW ids \in Seq(ActionIds), NEW v \in V,
           \A w \in V, a \in ActionIds : RecordResult(c, w, a, "Cancelled", reason) \in V
    PROVE  CancelEach(c, v, ids, reason) \in V
<1> DEFINE P == [i \in 0..Len(ids) |-> V]
<1>1. Len(ids) \in Nat /\ \A i \in 1..Len(ids) : ids[i] \in ActionIds
  OBVIOUS
<1>2. v \in P[0] /\ P[Len(ids)] = V
  BY <1>1
<1>3. \A i \in 1..Len(ids) : \A w \in P[i - 1] :
          RecordResult(c, w, ids[i], "Cancelled", reason) \in P[i]
  BY <1>1
<1> HIDE DEF P
<1> QED
  BY <1>2, <1>3, CancelEachPasses

\* Cancelling a list of queued actions keeps the types of what it changes.
LEMMA CancelEachType ==
    ASSUME ModelTypeOK, NEW c \in Conversations, NEW v \in View, NEW ids \in Seq(ActionIds),
           NEW reason \in Reasons \cup {NoReason}
    PROVE  CancelEach(c, v, ids, reason) \in View
<1>1. \A w \in View, a \in ActionIds : RecordResult(c, w, a, "Cancelled", reason) \in View
  BY RecordResultType DEF Results
<1> QED
  BY <1>1, CancelEachStaysIn

\* Finished actions are actions.
LEMMA FinishedIdsType ==
    ASSUME ModelTypeOK, NEW c \in Conversations
    PROVE  FinishedIds(c) \subseteq ActionIds
<1>1. finished[c] \in Seq(Result)
  BY DEF ModelTypeOK
<1>2. \A i \in DOMAIN finished[c] : finished[c][i] \in Result
  BY <1>1
<1> QED
  BY <1>2 DEF FinishedIds, Result

\* Taking an action out of the phase keeps the types.
LEMMA WithoutRunningType ==
    ASSUME NEW v \in View, NEW a
    PROVE  WithoutRunning(v, a) \in View
BY DEF WithoutRunning, View, Running, Phases, NotRunning

\* Draining the queued commands keeps the types of what it changes.
LEMMA CancelOtherCommandsType ==
    ASSUME ModelTypeOK, NEW c \in Conversations, NEW v \in View,
           NEW reason \in Reasons \cup {NoReason}
    PROVE  CancelOtherCommands(c, v, reason) \in View
<1>1. v.pending \in Seq(ActionIds)
  BY DEF View
<1>2. /\ Filter(v.pending, ActionIds \ Commands) \in Seq(ActionIds)
      /\ Filter(v.pending, Commands) \in Seq(ActionIds)
  BY <1>1, FilterProperties
<1>3. [v EXCEPT !.pending = Filter(@, ActionIds \ Commands)] \in View
  BY <1>2 DEF View
<1> QED
  BY <1>2, <1>3, CancelEachType DEF CancelOtherCommands

\* handle_action_result keeps the types of what it changes.
LEMMA HandleResultType ==
    ASSUME ModelTypeOK, NEW c \in Conversations, NEW v \in View, NEW a \in ActionIds,
           NEW res \in Results, NEW reason \in Reasons \cup {NoReason}
    PROVE  HandleResult(c, v, a, res, reason) \in View
<1> DEFINE w == WithoutRunning(v, a)
           u == IF res = "Snapshot" THEN CancelOtherCommands(c, w, reason) ELSE w
<1>1. w \in View
  BY WithoutRunningType
<1>2. u \in View
  <2> HIDE DEF w
  <2> QED BY <1>1, CancelOtherCommandsType
<1> HIDE DEF u
<1>3. RecordResult(c, u, a, res, reason) \in View
  BY <1>2, RecordResultType
<1> QED
  BY <1>3 DEF HandleResult, u

\* Queueing preprocessed actions and serving the queue keeps the types.
LEMMA EnqueueType ==
    ASSUME ModelTypeOK, NEW c \in Conversations, NEW released \in Seq(ActionIds)
    PROVE  Enqueue(c, released) \in View
<1> DEFINE v == ViewOf(c)
           more == Filter(released, ActionIds \ FinishedIds(c))
           w == [v EXCEPT !.pending = @ \o more]
<1>1. v \in View /\ more \in Seq(ActionIds)
  BY ViewOfType, FilterProperties
<1>2. w \in View
  <2> HIDE DEF v, more
  <2>1. v.pending \o more \in Seq(ActionIds)
    BY <1>1 DEF View
  <2> QED BY <1>1, <2>1 DEF View
<1>3. TryExecuteAvailable(c, w) \in View
  <2> HIDE DEF w
  <2> QED BY <1>2, TryExecuteAvailableType
<1> QED
  BY <1>3 DEF Enqueue

\* Taking a queued action out of the queue keeps the types.
LEMMA WithoutPendingType ==
    ASSUME ModelTypeOK, NEW c \in Conversations, NEW a \in Elems(pending[c])
    PROVE  WithoutPending(c, a) \in View /\ a \in ActionIds
<1>1. pending[c] \in Seq(ActionIds)
  BY DEF ModelTypeOK
<1>2. RemoveIndex(pending[c], PositionOf(a, pending[c])) \in Seq(ActionIds)
  BY <1>1, PositionOfProperties, RemoveIndexType
<1>3. WithoutPending(c, a) =
        [ViewOf(c) EXCEPT !.pending = RemoveIndex(pending[c], PositionOf(a, pending[c]))]
  BY DEF WithoutPending, ViewOf
<1>4. ViewOf(c) \in View
  BY ViewOfType
<1>5. [ViewOf(c) EXCEPT !.pending = RemoveIndex(pending[c], PositionOf(a, pending[c]))] \in View
  BY <1>2, <1>4 DEF View
<1> QED
  BY <1>1, <1>3, <1>5, ElemsType

\* start_pending_action_by_id keeps the types of what it changes.
LEMMA StartForUserType ==
    ASSUME ModelTypeOK, NEW c \in Conversations, NEW a \in Elems(pending[c])
    PROVE  StartForUser(c, ViewOf(c), a) \in View
<1> DEFINE v == WithoutPending(c, a)
           w == [v EXCEPT !.status = "InProgress"]
           now == [w EXCEPT !.events =
                      Append(@, ExecutorFinished(c, a, "Completed", NoReason))]
           later == [w EXCEPT !.running = [phase |-> PhaseOf({a}), ids |-> @.ids \cup {a}],
                              !.started = {a}]
<1>1. v \in View /\ a \in ActionIds
  BY WithoutPendingType
<1>2. w \in View
  <2> HIDE DEF v
  <2> QED BY <1>1 DEF View, Statuses
<1>3. now \in View
  <2>1. ExecutorFinished(c, a, "Completed", NoReason) \in Event
    BY <1>1, ExecutorFinishedType DEF Results
  <2> HIDE DEF w
  <2>2. Append(w.events, ExecutorFinished(c, a, "Completed", NoReason)) \in Seq(Event)
    BY <1>2, <2>1 DEF View
  <2> QED BY <1>2, <2>2 DEF View
<1>4. later \in View
  <2> HIDE DEF w
  <2> QED BY <1>1, <1>2, PhaseOfType DEF View, Running, Phases
<1>5. TryExecuteAvailable(c, now) \in View
  <2> HIDE DEF now
  <2> QED BY <1>3, TryExecuteAvailableType
<1>6. w = [ViewOf(c) EXCEPT !.pending = RemoveIndex(@, PositionOf(a, @)),
                            !.status = "InProgress"]
  BY DEF WithoutPending, ViewOf
<1>7. StartForUser(c, ViewOf(c), a) \in {TryExecuteAvailable(c, now), later}
  <2> HIDE DEF w
  <2> QED BY <1>6 DEF StartForUser
<1> QED
  BY <1>4, <1>5, <1>7

\* Cancelling the whole queue keeps the types of what it changes.
LEMMA CancelPendingType ==
    ASSUME ModelTypeOK, NEW c \in Conversations, NEW v \in View,
           NEW reason \in Reasons \cup {NoReason}
    PROVE  CancelPending(c, v, reason) \in View
<1>1. v.pending \in Seq(ActionIds) /\ <<>> \in Seq(ActionIds)
  BY DEF View
<1>2. [v EXCEPT !.pending = <<>>] \in View
  BY <1>1 DEF View
<1> QED
  BY <1>1, <1>2, CancelEachType DEF CancelPending

\* A listing of actions is a sequence of actions.
LEMMA OrderingsType ==
    ASSUME NEW S \in SUBSET ActionIds, NEW listed \in Orderings(S)
    PROVE  listed \in Seq(ActionIds)
<1>1. IsFiniteSet(S) /\ Cardinality(S) \in Nat
  BY ActionIdsAssumption, FS_Subset, FS_CardinalityType
<1>2. listed \in [1..Cardinality(S) -> S]
  BY DEF Orderings
<1> HIDE DEF Orderings
<1> DEFINE n == Cardinality(S)
<1>3. n \in Nat /\ listed \in [1..n -> S]
  BY <1>1, <1>2
<1> HIDE DEF n
<1> QED
  BY <1>3

\* The cancelled results of a list of running actions are events.
LEMMA CancelledEventsType ==
    ASSUME NEW c \in Conversations, NEW listed \in Seq(ActionIds), NEW reason \in Reasons
    PROVE  CancelledEvents(c, listed, reason) \in Seq(Event)
<1>1. \A i \in DOMAIN listed :
          ExecutorFinished(c, listed[i], "Cancelled", reason) \in Event
  BY ExecutorFinishedType DEF Results
<1> QED
  BY <1>1 DEF CancelledEvents

\* The effects of a module that extends this one: its own events are of other types.
Extends(E) ==
    /\ Event \subseteq E
    /\ \A e \in E : e.type \in {"ExecutorFinished", "Finished"} => e \in Event

\* A sequence of events is a sequence of effects.
LEMMA EventsAreEffects ==
    ASSUME NEW E, Extends(E), NEW s \in Seq(Event) PROVE s \in Seq(E)
BY DEF Extends

\* Committing a well-typed view gives a well-typed state.
LEMMA CommitType ==
    ASSUME NEW E, Extends(E), ModelTypeOK, effects \in Seq(E),
           NEW c \in Conversations, NEW v \in View, NEW queue \in Seq(E),
           NEW execs \in [ActionIds -> Conversations \cup {NoConv}],
           Commit(c, v, queue, execs),
           UNCHANGED <<settings, order, past>>,
           preprocessing' \in [Conversations -> Seq(Entry)],
           received' \in [Conversations -> SUBSET ActionIds],
           approved' \subseteq ActionIds
    PROVE  ModelTypeOK' /\ effects' \in Seq(E)
<1>1. v.events \in Seq(E) /\ v.started \subseteq ActionIds
  BY EventsAreEffects DEF View
<1>2. queue \o v.events \in Seq(E)
  BY <1>1
<1>3. /\ pending' \in [Conversations -> Seq(ActionIds)]
      /\ running' \in [Conversations -> Running]
      /\ finished' \in [Conversations -> Seq(Result)]
      /\ status' \in [Conversations -> Statuses]
  BY DEF ModelTypeOK, Commit, View
<1>4. executing' \in [ActionIds -> Conversations \cup {NoConv}]
  BY DEF Commit
<1>5. futures' \subseteq Conversations \X ActionIds
  BY <1>1 DEF ModelTypeOK, Commit
<1>6. effects' \in Seq(E)
  BY <1>2 DEF Commit
<1> QED
  BY <1>3, <1>4, <1>5, <1>6 DEF ModelTypeOK

\* queue_actions preserves the types.
LEMMA QueueActionsType ==
    ASSUME NEW E, Extends(E), ModelTypeOK, effects \in Seq(E),
           NEW c \in Conversations, NEW output \in Outputs[c],
           QueueActions(c, output)
    PROVE  ModelTypeOK' /\ effects' \in Seq(E)
<1>1. output \in Seq(ActionIds) /\ output # <<>>
  BY OutputsAssumption
<1>2. Tagged(output) \in Seq(Entry)
  <2>1. \A i \in 1..Len(output) :
            [id |-> output[i], batch |-> output[1], done |-> FALSE] \in Entry
    BY <1>1 DEF Entry
  <2>2. DOMAIN output = 1..Len(output) /\ Len(output) \in Nat
    BY <1>1
  <2> QED BY <2>1, <2>2 DEF Tagged
<1>3. preprocessing[c] \o Tagged(output) \in Seq(Entry)
  BY <1>2 DEF ModelTypeOK
<1>4. preprocessing' \in [Conversations -> Seq(Entry)]
  BY <1>3 DEF ModelTypeOK, QueueActions
<1>5. order' \in [Conversations -> Seq(ActionIds)]
  BY <1>1 DEF ModelTypeOK, QueueActions
<1>6. received' \in [Conversations -> SUBSET ActionIds]
  BY <1>1, ElemsType DEF ModelTypeOK, QueueActions
<1> QED
  BY <1>4, <1>5, <1>6 DEF ModelTypeOK, QueueActions

\* What leaves the preprocessing queue is a sequence of actions, what stays a
\* sequence of entries.
LEMMA ReleasedType ==
    ASSUME ModelTypeOK, NEW c \in Conversations, NEW b \in ActionIds
    PROVE  LET es == Completed(c, b)
               n  == Releasable(es)
           IN  /\ [i \in 1..n |-> es[i].id] \in Seq(ActionIds)
               /\ DropFirst(es, n) \in Seq(Entry)
<1> DEFINE es == Completed(c, b)
           n == Releasable(es)
<1>1. preprocessing[c] \in Seq(Entry)
  BY DEF ModelTypeOK
<1>2. es \in Seq(Entry)
  <2> DEFINE f(e) == [e EXCEPT !.done = @ \/ e.batch = b]
  <2>1. \A e \in Entry : f(e) \in Entry
    <3>1. TAKE e \in Entry
    <3> DEFINE d == e.done \/ e.batch = b
    <3>2. d \in BOOLEAN
      OBVIOUS
    <3>3. f(e) = [e EXCEPT !.done = d]
      OBVIOUS
    <3> HIDE DEF d, f
    <3> QED BY <3>2, <3>3 DEF Entry
  <2>2. es = [i \in DOMAIN preprocessing[c] |-> f(preprocessing[c][i])]
    BY DEF Completed
  <2> HIDE DEF f, es
  <2> QED BY <1>1, <2>1, <2>2
<1> HIDE DEF es
<1>3. n \in 0..Len(es)
  <2>1. Len(es) \in Nat
    BY <1>2
  <2> QED BY <2>1, PrefixLenProperties DEF Releasable
<1> HIDE DEF n
<1>4. \A i \in 1..n : es[i].id \in ActionIds
  <2>1. \A i \in 1..n : es[i] \in Entry
    BY <1>2, <1>3
  <2> QED BY <2>1 DEF Entry
<1>5. [i \in 1..n |-> es[i].id] \in Seq(ActionIds) /\ DropFirst(es, n) \in Seq(Entry)
  BY <1>2, <1>3, <1>4, DropFirstType
<1> QED
  BY <1>5 DEF es, n

\* handle_preprocess_actions_results preserves the types.
LEMMA PreprocessActionsResultsType ==
    ASSUME NEW E, Extends(E), ModelTypeOK, effects \in Seq(E),
           NEW c \in Conversations, NEW b \in ActionIds,
           PreprocessActionsResults(c, b)
    PROVE  ModelTypeOK' /\ effects' \in Seq(E)
<1> DEFINE es == Completed(c, b)
           n == Releasable(es)
           released == [i \in 1..n |-> es[i].id]
<1>1. released \in Seq(ActionIds) /\ DropFirst(es, n) \in Seq(Entry)
  BY ReleasedType
<1>2. Enqueue(c, released) \in View
  <2> HIDE DEF released
  <2> QED BY <1>1, EnqueueType
<1>3. preprocessing' \in [Conversations -> Seq(Entry)]
  <2>1. preprocessing' = [preprocessing EXCEPT ![c] = DropFirst(es, n)]
    BY DEF PreprocessActionsResults, BatchResolves
  <2> HIDE DEF es, n
  <2> QED BY <1>1, <2>1 DEF ModelTypeOK
<1>4. /\ Commit(c, Enqueue(c, released), effects, executing)
      /\ UNCHANGED <<settings, order, past, received, approved>>
  BY DEF PreprocessActionsResults
<1>5. /\ effects \in Seq(E) /\ executing \in [ActionIds -> Conversations \cup {NoConv}]
      /\ received' \in [Conversations -> SUBSET ActionIds] /\ approved' \subseteq ActionIds
  BY <1>4 DEF ModelTypeOK
<1> HIDE DEF released
<1> QED
  BY <1>2, <1>3, <1>4, <1>5, CommitType

\* execute_action preserves the types.
LEMMA ExecuteActionType ==
    ASSUME NEW E, Extends(E), ModelTypeOK, effects \in Seq(E),
           NEW c \in Conversations, NEW a, ExecuteAction(c, a)
    PROVE  ModelTypeOK' /\ effects' \in Seq(E)
<1>1. a \in Elems(pending[c]) /\ a \in ActionIds
  BY WithoutPendingType DEF ExecuteAction, MayStartForUser
<1>2. StartForUser(c, ViewOf(c), a) \in View
  BY <1>1, StartForUserType
<1>3. /\ Commit(c, StartForUser(c, ViewOf(c), a), effects, executing)
      /\ UNCHANGED <<settings, preprocessing, order, past, received>>
      /\ approved' = approved \cup {a}
  BY DEF ExecuteAction
<1>4. /\ effects \in Seq(E) /\ executing \in [ActionIds -> Conversations \cup {NoConv}]
      /\ preprocessing' \in [Conversations -> Seq(Entry)]
      /\ received' \in [Conversations -> SUBSET ActionIds] /\ approved' \subseteq ActionIds
  BY <1>1, <1>3 DEF ModelTypeOK
<1> QED
  BY <1>2, <1>3, <1>4, CommitType

\* deny_run_agents preserves the types.
LEMMA DenyRunAgentsType ==
    ASSUME NEW E, Extends(E), ModelTypeOK, effects \in Seq(E),
           NEW c \in Conversations, NEW a, DenyRunAgents(c, a)
    PROVE  ModelTypeOK' /\ effects' \in Seq(E)
<1>1. WithoutPending(c, a) \in View /\ a \in ActionIds
  BY WithoutPendingType DEF DenyRunAgents
<1>2. HandleResult(c, WithoutPending(c, a), a, "Completed", NoReason) \in View
  BY <1>1, HandleResultType DEF Results
<1>3. /\ Commit(c, HandleResult(c, WithoutPending(c, a), a, "Completed", NoReason),
                effects, executing)
      /\ UNCHANGED <<settings, preprocessing, order, past, received, approved>>
  BY DEF DenyRunAgents
<1>4. /\ effects \in Seq(E) /\ executing \in [ActionIds -> Conversations \cup {NoConv}]
      /\ preprocessing' \in [Conversations -> Seq(Entry)]
      /\ received' \in [Conversations -> SUBSET ActionIds] /\ approved' \subseteq ActionIds
  BY <1>3 DEF ModelTypeOK
<1> QED
  BY <1>2, <1>3, <1>4, CommitType

\* cancel_action_with_id preserves the types.
LEMMA CancelActionWithIdType ==
    ASSUME NEW E, Extends(E), ModelTypeOK, effects \in Seq(E),
           NEW c \in Conversations, NEW a, NEW reason \in Reasons,
           CancelActionWithId(c, a, reason)
    PROVE  ModelTypeOK' /\ effects' \in Seq(E)
<1>1. UNCHANGED <<settings, preprocessing, order, past, received, approved>>
  BY DEF CancelActionWithId
<1>2. CASE /\ a \in running[c].ids
           /\ CancelRunning(c, a, reason)
           /\ UNCHANGED <<pending, running, finished, status, futures>>
  <2>1. a \in ActionIds
    BY <1>2 DEF ModelTypeOK, Running
  <2>2. executing[a] \in Conversations
    BY <1>2, <2>1 DEF ModelTypeOK, CancelRunning
  <2>3. ExecutorFinished(executing[a], a, "Cancelled", reason) \in Event
    BY <2>1, <2>2, ExecutorFinishedType DEF Results
  <2>4. effects' \in Seq(E)
    BY <1>2, <2>3 DEF Extends, CancelRunning
  <2>5. executing' \in [ActionIds -> Conversations \cup {NoConv}]
    BY <1>2 DEF ModelTypeOK, CancelRunning
  <2> QED BY <1>1, <1>2, <2>4, <2>5 DEF ModelTypeOK
<1>3. CASE /\ a \in Elems(pending[c])
           /\ Commit(c, HandleResult(c, WithoutPending(c, a), a, "Cancelled", reason),
                     effects, executing)
  <2>1. WithoutPending(c, a) \in View /\ a \in ActionIds
    BY <1>3, WithoutPendingType
  <2>2. HandleResult(c, WithoutPending(c, a), a, "Cancelled", reason) \in View
    BY <2>1, HandleResultType DEF Results
  <2>3. /\ effects \in Seq(E)
        /\ executing \in [ActionIds -> Conversations \cup {NoConv}]
        /\ preprocessing' \in [Conversations -> Seq(Entry)]
        /\ received' \in [Conversations -> SUBSET ActionIds]
        /\ approved' \subseteq ActionIds
    BY <1>1 DEF ModelTypeOK
  <2> QED BY <1>1, <1>3, <2>2, <2>3, CommitType
<1> QED
  BY <1>2, <1>3 DEF CancelActionWithId

\* cancel_all_pending_actions preserves the types.
LEMMA CancelAllPendingActionsType ==
    ASSUME NEW E, Extends(E), ModelTypeOK, effects \in Seq(E),
           NEW c \in Conversations, NEW reason \in Reasons,
           CancelAllPendingActions(c, reason)
    PROVE  ModelTypeOK' /\ effects' \in Seq(E)
<1>1. CancelPending(c, ViewOf(c), reason) \in View
  BY ViewOfType, CancelPendingType
<1>2. PICK listed \in Orderings(ExecutingIn(c)) :
          Commit(c, CancelPending(c, ViewOf(c), reason),
                 effects \o CancelledEvents(c, listed, reason), ExecutingOutside({c}))
  BY DEF CancelAllPendingActions, CancelAll
<1>3. listed \in Seq(ActionIds)
  BY <1>2, OrderingsType DEF ExecutingIn
<1>4. CancelledEvents(c, listed, reason) \in Seq(Event)
  BY <1>3, CancelledEventsType
<1>5. effects \o CancelledEvents(c, listed, reason) \in Seq(E)
  BY <1>4, EventsAreEffects
<1>6. ExecutingOutside({c}) \in [ActionIds -> Conversations \cup {NoConv}]
  BY DEF ModelTypeOK, ExecutingOutside
<1>7. UNCHANGED <<settings, preprocessing, order, past, received, approved>>
  BY DEF CancelAllPendingActions
<1>8. /\ preprocessing' \in [Conversations -> Seq(Entry)]
      /\ received' \in [Conversations -> SUBSET ActionIds] /\ approved' \subseteq ActionIds
  BY <1>7 DEF ModelTypeOK
<1> QED
  BY <1>1, <1>2, <1>5, <1>6, <1>7, <1>8, CommitType

\* The callback of an execution future preserves the types.
LEMMA CompleteAsyncType ==
    ASSUME NEW E, Extends(E), ModelTypeOK, effects \in Seq(E),
           NEW c \in Conversations, NEW a \in ActionIds, CompleteAsync(c, a)
    PROVE  ModelTypeOK' /\ effects' \in Seq(E)
<1>1. PICK res \in Results : FutureResolves(c, a, res)
  BY DEF CompleteAsync, Results
<1>2. /\ executing' \in [ActionIds -> Conversations \cup {NoConv}]
      /\ effects' \in Seq(E)
  <2>1. CASE executing[a] = NoConv
    BY <1>1, <2>1 DEF FutureResolves, ModelTypeOK
  <2>2. CASE executing[a] # NoConv
    <3>1. executing[a] \in Conversations
      BY <2>2 DEF ModelTypeOK
    <3>2. ExecutorFinished(executing[a], a, res, NoReason) \in Event
      BY <3>1, ExecutorFinishedType
    <3>3. /\ executing' = [executing EXCEPT ![a] = NoConv]
          /\ effects' = Append(effects, ExecutorFinished(executing[a], a, res, NoReason))
      BY <1>1, <2>2 DEF FutureResolves
    <3>4. effects' \in Seq(E)
      BY <3>2, <3>3 DEF Extends
    <3> QED BY <3>3, <3>4 DEF ModelTypeOK
  <2> QED BY <2>1, <2>2
<1>3. /\ futures' \subseteq futures
      /\ UNCHANGED <<settings, preprocessing, pending, running, finished, order, past,
                     status, received, approved>>
  BY DEF CompleteAsync
<1> QED
  BY <1>2, <1>3 DEF ModelTypeOK

\* Delivering a result to the action model preserves the types.
LEMMA DeliverExecutorFinishedType ==
    ASSUME NEW E, Extends(E), ModelTypeOK, effects \in Seq(E),
           DeliverExecutorFinished
    PROVE  ModelTypeOK' /\ effects' \in Seq(E)
<1> DEFINE e == Head(effects)
<1>1. e \in Event /\ Tail(effects) \in Seq(E) /\ e.type = "ExecutorFinished"
  BY DEF DeliverExecutorFinished, Idle, Extends
<1> DEFINE v == HandleResult(e.conv, ViewOf(e.conv), e.id, e.res, e.reason)
<1>2. /\ Commit(e.conv, v, Tail(effects), executing)
      /\ UNCHANGED <<settings, preprocessing, order, past, received, approved>>
  BY DEF DeliverExecutorFinished
<1> HIDE DEF e
<1>3. /\ e.conv \in Conversations /\ e.id \in ActionIds /\ e.res \in Results
      /\ e.reason \in Reasons \cup {NoReason}
  BY <1>1 DEF Event
<1>4. v \in View
  BY <1>3, ViewOfType, HandleResultType
<1>5. /\ executing \in [ActionIds -> Conversations \cup {NoConv}]
      /\ preprocessing' \in [Conversations -> Seq(Entry)]
      /\ received' \in [Conversations -> SUBSET ActionIds] /\ approved' \subseteq ActionIds
  BY <1>2 DEF ModelTypeOK
<1> HIDE DEF v
<1> QED
  BY <1>1, <1>2, <1>3, <1>4, <1>5, CommitType

\* The controller's reaction to a finished action preserves the types.
LEMMA DeliverFinishedType ==
    ASSUME NEW E, Extends(E), ModelTypeOK, effects \in Seq(E),
           DeliverFinished
    PROVE  ModelTypeOK' /\ effects' \in Seq(E)
<1>1. Head(effects).conv \in Conversations /\ effects' \in Seq(E)
  <2>1. Head(effects) \in Event /\ Tail(effects) \in Seq(E)
    BY DEF DeliverFinished, Idle, Extends
  <2>2. effects' = Tail(effects)
    BY DEF DeliverFinished
  <2> QED BY <2>1, <2>2 DEF Event
<1> DEFINE c == Head(effects).conv
<1>2. FinishedIds(c) \subseteq ActionIds
  BY <1>1, FinishedIdsType
<1>3. /\ \/ DrainFinished(c) \/ UNCHANGED <<order, finished, past>>
      /\ \E s \in Statuses : status' = [status EXCEPT ![c] = s]
      /\ UNCHANGED <<settings, preprocessing, pending, running, executing, futures,
                     received, approved>>
  BY <1>1 DEF DeliverFinished, ModelTypeOK, Statuses
<1> HIDE DEF c
<1>4. /\ order' \in [Conversations -> Seq(ActionIds)]
      /\ finished' \in [Conversations -> Seq(Result)]
      /\ past' \subseteq ActionIds
  <2>1. CASE DrainFinished(c)
    <3>1. <<>> \in Seq(ActionIds) /\ <<>> \in Seq(Result)
      OBVIOUS
    <3> QED BY <1>2, <2>1, <3>1 DEF DrainFinished, ModelTypeOK
  <2>2. CASE UNCHANGED <<order, finished, past>>
    BY <2>2 DEF ModelTypeOK
  <2> QED BY <1>3, <2>1, <2>2
<1>5. status' \in [Conversations -> Statuses]
  BY <1>3 DEF ModelTypeOK
<1> QED
  BY <1>1, <1>3, <1>4, <1>5 DEF ModelTypeOK

\* Cancelling and draining for a new query preserves the types.
LEMMA CancelAndDrainType ==
    ASSUME NEW E, Extends(E), ModelTypeOK, effects \in Seq(E),
           NEW c \in Conversations, NEW reason \in Reasons,
           CancelAndDrain(c, reason)
    PROVE  ModelTypeOK' /\ effects' \in Seq(E)
<1> DEFINE v == CancelPending(c, ViewOf(c), reason)
<1>1. v \in View
  BY ViewOfType, CancelPendingType
<1>2. PICK listed \in Orderings(ExecutingIn(c)) :
          /\ pending' = [pending EXCEPT ![c] = v.pending]
          /\ executing' = ExecutingOutside({c})
          /\ effects' = effects \o CancelledEvents(c, listed, reason) \o v.events
          /\ past' = past \cup {v.finished[i].id : i \in DOMAIN v.finished}
  BY DEF CancelAndDrain
<1>3. listed \in Seq(ActionIds)
  BY <1>2, OrderingsType DEF ExecutingIn
<1>4. CancelledEvents(c, listed, reason) \in Seq(Event)
  BY <1>3, CancelledEventsType
<1>5. /\ finished' = [finished EXCEPT ![c] = <<>>]
      /\ order' = [order EXCEPT ![c] = <<>>]
      /\ status' = [status EXCEPT ![c] = "InProgress"]
      /\ UNCHANGED <<settings, preprocessing, running, futures, received, approved>>
  BY DEF CancelAndDrain
<1> HIDE DEF v
<1>6. effects' \in Seq(E)
  <2>1. v.events \in Seq(E) /\ CancelledEvents(c, listed, reason) \in Seq(E)
    BY <1>1, <1>4, EventsAreEffects DEF View
  <2> QED BY <1>2, <2>1
<1>7. past' \subseteq ActionIds
  <2>1. v.finished \in Seq(Result)
    BY <1>1 DEF View
  <2>2. \A i \in DOMAIN v.finished : v.finished[i] \in Result
    BY <2>1
  <2>3. \A i \in DOMAIN v.finished : v.finished[i].id \in ActionIds
    BY <2>2 DEF Result
  <2> QED BY <1>2, <2>3 DEF ModelTypeOK
<1>8. pending' \in [Conversations -> Seq(ActionIds)]
  BY <1>1, <1>2 DEF ModelTypeOK, View
<1>9. executing' \in [ActionIds -> Conversations \cup {NoConv}]
  BY <1>2 DEF ModelTypeOK, ExecutingOutside
<1>10. /\ order' \in [Conversations -> Seq(ActionIds)]
       /\ finished' \in [Conversations -> Seq(Result)]
       /\ status' \in [Conversations -> Statuses]
  <2>1. <<>> \in Seq(ActionIds) /\ <<>> \in Seq(Result) /\ "InProgress" \in Statuses
    BY DEF Statuses
  <2> QED BY <1>5, <2>1 DEF ModelTypeOK
<1> QED
  BY <1>5, <1>6, <1>7, <1>8, <1>9, <1>10 DEF ModelTypeOK

\* clear_finished_action_results preserves the types.
LEMMA ClearFinishedType ==
    ASSUME NEW E, Extends(E), ModelTypeOK, effects \in Seq(E),
           NEW c \in Conversations, ClearFinished(c)
    PROVE  ModelTypeOK' /\ effects' \in Seq(E)
BY DEF ModelTypeOK, ClearFinished

\* The initial states are well-typed.
LEMMA TypeInit == Init => TypeOK
BY SettingsAssumption DEF Init, TypeOK, ModelTypeOK, Running, Phases, NotRunning, Statuses

\* The steps of a conversation preserve the types: one case per action.
LEMMA ConversationType ==
    ASSUME NEW E, Extends(E), ModelTypeOK, effects \in Seq(E),
           NEW c \in Conversations, ConversationNext(c)
    PROVE  ModelTypeOK' /\ effects' \in Seq(E)
<1> DEFINE Goal == ModelTypeOK' /\ effects' \in Seq(E)
<1>1. ASSUME NEW output \in Outputs[c], QueueActions(c, output) PROVE Goal
  BY <1>1, QueueActionsType
<1>2. CASE ExecuteNextActionForUser(c)
  BY <1>2, ExecuteActionType DEF ExecuteNextActionForUser
<1>3. ASSUME NEW reason \in Reasons,
             CancelAllPendingActions(c, reason) \/ CancelAndDrain(c, reason)
      PROVE  Goal
  BY <1>3, CancelAllPendingActionsType, CancelAndDrainType
<1>4. CASE ClearFinished(c)
  BY <1>4, ClearFinishedType
<1>5. ASSUME NEW a \in ActionIds,
             \/ PreprocessActionsResults(c, a)
             \/ ExecuteAction(c, a)
             \/ DenyRunAgents(c, a)
             \/ \E reason \in Reasons : CancelActionWithId(c, a, reason)
             \/ CompleteAsync(c, a)
      PROVE  Goal
  BY <1>5, PreprocessActionsResultsType, ExecuteActionType, DenyRunAgentsType,
     CancelActionWithIdType, CompleteAsyncType
<1> HIDE DEF Goal
<1> QED
  BY <1>1, <1>2, <1>3, <1>4, <1>5 DEF ConversationNext, Goal

\* New settings are of the same type.
LEMMA ChangeSettingsType ==
    ASSUME NEW E, ModelTypeOK, effects \in Seq(E), ChangeSettings
    PROVE  ModelTypeOK' /\ effects' \in Seq(E)
BY SettingsAssumption DEF ChangeSettings, ModelTypeOK

\* Every step preserves the types.
LEMMA TypeStep == TypeOK /\ [Next]_vars => TypeOK'
<1>1. SUFFICES ASSUME TypeOK, [Next]_vars PROVE TypeOK'
  OBVIOUS
<1>2. Extends(Event) /\ ModelTypeOK /\ effects \in Seq(Event)
  BY <1>1 DEF TypeOK, Extends
<1>3. ASSUME NEW c \in Conversations, ConversationNext(c) PROVE TypeOK'
  BY <1>2, <1>3, ConversationType DEF TypeOK
<1>4. CASE ChangeSettings
  BY <1>2, <1>4, ChangeSettingsType DEF TypeOK
<1>5. CASE DeliverExecutorFinished
  BY <1>2, <1>5, DeliverExecutorFinishedType DEF TypeOK
<1>6. CASE DeliverFinished
  BY <1>2, <1>6, DeliverFinishedType DEF TypeOK
<1>7. CASE UNCHANGED vars
  BY <1>1, <1>7 DEF TypeOK, ModelTypeOK, vars
<1> QED
  BY <1>1, <1>3, <1>4, <1>5, <1>6, <1>7 DEF Next

\* The variables of the action model always hold what their Rust types allow,
\* for any conversations, actions, outputs and settings.
THEOREM TypeCorrect == Spec => []TypeOK
BY TypeInit, TypeStep, PTL DEF Spec

-----------------------------------------------------------------------------
(* The phases of running actions.                                          *)

\* A phase r is exact: it is "None" only when empty, serial only for one action.
Exact(r) == /\ (r.phase = "None") = (r.ids = {})
            /\ r.phase = "Serial" => \E x : r.ids = {x}

\* The views whose phase is exact.
ExactView == {v \in View : Exact(v.running)}

\* An action that is not parallel is the only one its pass over the queue starts
\* asynchronously: it stops the loop, and it could not have joined the others.
LEMMA StartedSerialIsAlone ==
    ASSUME NEW q \in Seq(ActionIds), NEW n \in 0..Len(q),
           \A i \in 1..n : Startable(q, "None", i),
           NEW i \in 1..n, q[i] \notin SyncActions(FALSE), q[i] \notin settings.parallel,
           NEW j \in 1..n, q[j] \notin SyncActions(FALSE)
    PROVE  q[i] = q[j]
<1>1. CASE j < i
  <2>1. j \in 1..(i - 1)
    BY <1>1
  <2>2. PhaseBefore(q, "None", i) \in {"Serial", "Parallel"}
    BY <2>1, PhaseOfType DEF PhaseBefore
  <2>3. PhaseAdmits(PhaseBefore(q, "None", i), q[i])
    BY DEF Startable
  <2> QED BY <2>2, <2>3 DEF PhaseAdmits
<1>2. CASE i < j
  <2>1. i \in 1..(j - 1)
    BY <1>2
  <2>2. PhaseBefore(q, "None", j) = "Serial"
    BY <2>1 DEF PhaseBefore, PhaseOf
  <2>3. PhaseAdmits(PhaseBefore(q, "None", j), q[j])
    BY DEF Startable
  <2> QED BY <2>2, <2>3 DEF PhaseAdmits
<1> QED
  BY <1>1, <1>2

\* try_to_execute_available_actions leaves an exact phase.
LEMMA TryExecuteAvailableExact ==
    ASSUME NEW c \in Conversations, NEW v \in ExactView
    PROVE  TryExecuteAvailable(c, v) \in ExactView
<1> DEFINE q == v.pending
           T == {i \in DOMAIN q : Startable(q, v.running.phase, i)}
           n == PrefixLen(T, Len(q))
           taken == SubSeq(q, 1, n)
           async == Elems(taken) \ SyncActions(FALSE)
           w == TryExecuteAvailable(c, v)
<1>1. q \in Seq(ActionIds) /\ v \in View /\ v.running \in Running /\ Exact(v.running)
  BY DEF ExactView, View
<1>2. n \in 0..Len(q) /\ 1..n \subseteq T
  <2> HIDE DEF q, T
  <2> QED BY <1>1, PrefixLenProperties
<1>3. \A i \in 1..n : Startable(q, v.running.phase, i)
  BY <1>2
<1>4. \A x \in async : \E i \in 1..n : x = q[i] /\ q[i] \notin SyncActions(FALSE)
  <2> HIDE DEF q, n
  <2>1. DOMAIN taken = 1..n /\ \A i \in 1..n : taken[i] = q[i]
    BY <1>1, <1>2
  <2> QED BY <2>1 DEF Elems
<1>5. w \in View
  BY <1>1, TryExecuteAvailableType
<1>6. w.running = IF async = {} THEN v.running
                  ELSE [phase |-> IF v.running.phase = "None" THEN PhaseOf(async)
                                  ELSE v.running.phase,
                        ids |-> v.running.ids \cup async]
  BY <1>1 DEF TryExecuteAvailable, View
<1> HIDE DEF q, T, n, taken, async, w
<1>7. ASSUME async # {}, v.running.phase = "Serial" PROVE FALSE
  <2>1. 1 \in 1..n
    <3>1. PICK i : i \in 1..n
      BY <1>4, <1>7
    <3>2. n \in Nat
      BY <1>1, <1>2
    <3> QED BY <3>1, <3>2
  <2>2. PhaseBefore(q, v.running.phase, 1) = v.running.phase
    BY DEF PhaseBefore
  <2> QED BY <1>3, <1>7, <2>1, <2>2 DEF Startable, PhaseAdmits
<1>8. ASSUME v.running.phase = "None", NEW x \in async, x \notin settings.parallel
      PROVE  async = {x}
  <2>1. \A i \in 1..n : Startable(q, "None", i)
    BY <1>3, <1>8
  <2>2. PICK i \in 1..n : x = q[i] /\ q[i] \notin SyncActions(FALSE)
    BY <1>4, <1>8
  <2>3. \A y \in async : y = x
    <3>1. TAKE y \in async
    <3>2. PICK j \in 1..n : y = q[j] /\ q[j] \notin SyncActions(FALSE)
      BY <1>4
    <3> QED BY <1>1, <1>2, <1>8, <2>1, <2>2, <3>2, StartedSerialIsAlone
  <2> QED BY <1>8, <2>3
<1>9. Exact(w.running)
  <2>1. CASE async = {}
    BY <1>1, <1>6, <2>1
  <2>2. CASE async # {} /\ v.running.phase = "None"
    <3>1. w.running.phase = PhaseOf(async) /\ w.running.ids = async
      BY <1>1, <1>6, <2>2 DEF Exact
    <3>2. PhaseOf(async) = "Serial" => \E x : async = {x}
      BY <1>8, <2>2 DEF PhaseOf
    <3> QED BY <2>2, <3>1, <3>2, PhaseOfType DEF Exact
  <2>3. CASE async # {} /\ v.running.phase # "None"
    BY <1>1, <1>6, <1>7, <2>3 DEF Exact, Running
  <2> QED BY <2>1, <2>2, <2>3
<1> QED
  BY <1>5, <1>9 DEF ExactView, w

\* Recording a result leaves an exact phase.
LEMMA RecordResultExact ==
    ASSUME ModelTypeOK, NEW c \in Conversations, NEW v \in ExactView, NEW a \in ActionIds,
           NEW res \in Results, NEW reason \in Reasons \cup {NoReason}
    PROVE  RecordResult(c, v, a, res, reason) \in ExactView
<1> DEFINE pushed == Append(v.finished, [id |-> a, res |-> res])
           w == [v EXCEPT !.finished = pushed,
                          !.events = Append(@, Finished(c, a, reason))]
           sorted == [w EXCEPT !.finished = SortFinished(c, pushed)]
           st == IF AllCancelled(pushed) THEN "Cancelled" ELSE "InProgress"
           r == RecordResult(c, v, a, res, reason)
<1>1. v \in View /\ Exact(v.running)
  BY DEF ExactView
<1>2. r \in View
  BY <1>1, RecordResultType
<1>3. CASE r \in {w, sorted, [sorted EXCEPT !.status = st]}
  <2>1. w.running = v.running /\ sorted.running = v.running
        /\ [sorted EXCEPT !.status = st].running = v.running
    <3> HIDE DEF pushed, st
    <3> QED BY <1>1 DEF View
  <2> HIDE DEF w, sorted, r
  <2>2. r.running = v.running
    BY <1>3, <2>1
  <2> QED BY <1>1, <1>2, <2>2 DEF ExactView, r
<1>4. CASE r = TryExecuteAvailable(c, sorted)
  <2>1. pushed \in Seq(Result)
    BY <1>1 DEF View, Result
  <2>2. SortFinished(c, pushed) \in Seq(Result)
    <3> HIDE DEF pushed
    <3> QED BY <2>1, SortFinishedType
  <2>3. Append(v.events, Finished(c, a, reason)) \in Seq(Event)
    BY <1>1, FinishedType DEF View
  <2>4. sorted \in View /\ sorted.running = v.running
    <3> HIDE DEF pushed
    <3> QED BY <1>1, <2>1, <2>2, <2>3 DEF View
  <2> HIDE DEF sorted, r
  <2>5. sorted \in ExactView
    BY <1>1, <2>4 DEF ExactView
  <2> QED BY <1>4, <2>5, TryExecuteAvailableExact DEF r
<1>5. r \in {w, sorted, TryExecuteAvailable(c, sorted), [sorted EXCEPT !.status = st]}
  <2> HIDE DEF sorted, w, st
  <2> QED BY DEF RecordResult, sorted, w, st, pushed
<1> QED
  BY <1>3, <1>4, <1>5

\* Cancelling a list of queued actions leaves an exact phase.
LEMMA CancelEachExact ==
    ASSUME ModelTypeOK, NEW c \in Conversations, NEW v \in ExactView, NEW ids \in Seq(ActionIds),
           NEW reason \in Reasons \cup {NoReason}
    PROVE  CancelEach(c, v, ids, reason) \in ExactView
<1>1. \A w \in ExactView, a \in ActionIds :
          RecordResult(c, w, a, "Cancelled", reason) \in ExactView
  BY RecordResultExact DEF Results
<1> QED
  BY <1>1, CancelEachStaysIn

\* handle_action_result records the result in a view with an exact phase: the last
\* action takes the phase with it.
LEMMA HandleResultRecords ==
    ASSUME ModelTypeOK, NEW c \in Conversations, NEW v \in ExactView, NEW a \in ActionIds,
           NEW res \in Results, NEW reason \in Reasons \cup {NoReason}
    PROVE  \E u \in ExactView :
               HandleResult(c, v, a, res, reason) = RecordResult(c, u, a, res, reason)
<1> DEFINE w == WithoutRunning(v, a)
           u == IF res = "Snapshot" THEN CancelOtherCommands(c, w, reason) ELSE w
<1>1. w \in ExactView
  <2>1. v \in View /\ Exact(v.running) /\ v.running \in Running
    BY DEF ExactView, View
  <2>2. w \in View
    BY <2>1, WithoutRunningType
  <2>3. w.running = IF v.running.ids \subseteq {a} THEN NotRunning
                    ELSE [phase |-> v.running.phase, ids |-> v.running.ids \ {a}]
    BY <2>1 DEF WithoutRunning, View
  <2> HIDE DEF w
  <2>4. Exact(w.running)
    <3>1. CASE v.running.ids \subseteq {a}
      BY <2>3, <3>1 DEF Exact, NotRunning
    <3>2. CASE ~(v.running.ids \subseteq {a})
      <4>1. w.running.phase = v.running.phase /\ w.running.ids = v.running.ids \ {a}
        BY <2>3, <3>2
      <4>2. w.running.ids # {} /\ v.running.phase # "None"
        BY <2>1, <3>2, <4>1 DEF Exact
      <4>3. ASSUME NEW x, v.running.ids = {x} PROVE w.running.ids = {x}
        BY <3>2, <4>1, <4>3
      <4> QED BY <2>1, <4>1, <4>2, <4>3 DEF Exact
    <3> QED BY <3>1, <3>2
  <2> QED BY <2>2, <2>4 DEF ExactView
<1> HIDE DEF w
<1>2. CancelOtherCommands(c, w, reason) \in ExactView
  <2>1. w \in View /\ w.pending \in Seq(ActionIds) /\ Exact(w.running)
    BY <1>1 DEF ExactView, View
  <2>2. /\ Filter(w.pending, ActionIds \ Commands) \in Seq(ActionIds)
        /\ Filter(w.pending, Commands) \in Seq(ActionIds)
    BY <2>1, FilterProperties
  <2>3. [w EXCEPT !.pending = Filter(@, ActionIds \ Commands)] \in ExactView
    BY <2>1, <2>2 DEF ExactView, View
  <2> QED BY <2>2, <2>3, CancelEachExact DEF CancelOtherCommands
<1>3. u \in ExactView
  BY <1>1, <1>2
<1> HIDE DEF u
<1> QED
  BY <1>3 DEF HandleResult, u, w

\* So it leaves an exact phase.
LEMMA HandleResultExact ==
    ASSUME ModelTypeOK, NEW c \in Conversations, NEW v \in ExactView, NEW a \in ActionIds,
           NEW res \in Results, NEW reason \in Reasons \cup {NoReason}
    PROVE  HandleResult(c, v, a, res, reason) \in ExactView
BY HandleResultRecords, RecordResultExact

\* Every conversation's phase is exact.
PhasesExact == \A c \in Conversations : Exact(running[c])

\* The inductive invariant: exactness needs the types, and nothing else.
ExactState == ModelTypeOK /\ PhasesExact

\* A handler starts from a view whose phase is exact.
LEMMA ViewOfExact ==
    ASSUME ExactState, NEW c \in Conversations PROVE ViewOf(c) \in ExactView
BY ViewOfType DEF ExactState, PhasesExact, ExactView, ViewOf

\* Committing a view with an exact phase leaves all phases exact.
LEMMA CommitExact ==
    ASSUME ExactState, NEW c \in Conversations, NEW v \in ExactView, NEW queue, NEW execs,
           Commit(c, v, queue, execs)
    PROVE  PhasesExact'
BY DEF ExactState, ModelTypeOK, PhasesExact, ExactView, Commit

\* Taking an action out of the queue leaves the phase exact.
LEMMA PendingRemovedExact ==
    ASSUME ExactState, NEW c \in Conversations, NEW a \in Elems(pending[c])
    PROVE  WithoutPending(c, a) \in ExactView /\ a \in ActionIds
<1>1. WithoutPending(c, a) \in View /\ a \in ActionIds
  BY WithoutPendingType DEF ExactState
<1>2. WithoutPending(c, a).running = running[c]
  BY DEF WithoutPending, ViewOf
<1> QED
  BY <1>1, <1>2 DEF ExactState, PhasesExact, ExactView

\* Queueing preprocessed actions and serving the queue leaves the phase exact.
LEMMA EnqueueExact ==
    ASSUME ExactState, NEW c \in Conversations, NEW released \in Seq(ActionIds)
    PROVE  Enqueue(c, released) \in ExactView
<1> DEFINE v == ViewOf(c)
           more == Filter(released, ActionIds \ FinishedIds(c))
           w == [v EXCEPT !.pending = @ \o more]
<1>1. v \in View /\ Exact(v.running) /\ more \in Seq(ActionIds)
  BY ViewOfExact, FilterProperties DEF ExactView
<1>2. w \in ExactView
  <2> HIDE DEF v, more
  <2>1. v.pending \o more \in Seq(ActionIds)
    BY <1>1 DEF View
  <2> QED BY <1>1, <2>1 DEF ExactView, View
<1> HIDE DEF w
<1> QED
  BY <1>2, TryExecuteAvailableExact DEF Enqueue, w

\* Starting one action for the user, when nothing runs, leaves an exact phase.
LEMMA StartForUserExact ==
    ASSUME ExactState, NEW c \in Conversations, NEW a \in Elems(pending[c]),
           running[c].phase = "None"
    PROVE  StartForUser(c, ViewOf(c), a) \in ExactView
<1> DEFINE v == WithoutPending(c, a)
           w == [v EXCEPT !.status = "InProgress"]
           now == [w EXCEPT !.events =
                      Append(@, ExecutorFinished(c, a, "Completed", NoReason))]
           later == [w EXCEPT !.running = [phase |-> PhaseOf({a}), ids |-> @.ids \cup {a}],
                              !.started = {a}]
<1>1. v \in ExactView /\ a \in ActionIds /\ v.running.ids = {}
  BY PendingRemovedExact DEF ExactState, PhasesExact, Exact, WithoutPending, ViewOf
<1>2. w \in ExactView /\ w.running.ids = {}
  <2> HIDE DEF v
  <2> QED BY <1>1 DEF ExactView, View, Statuses
<1>3. now \in ExactView
  <2>1. ExecutorFinished(c, a, "Completed", NoReason) \in Event
    BY <1>1, ExecutorFinishedType DEF Results
  <2> HIDE DEF w
  <2>2. Append(w.events, ExecutorFinished(c, a, "Completed", NoReason)) \in Seq(Event)
    BY <1>2, <2>1 DEF ExactView, View
  <2> QED BY <1>2, <2>2 DEF ExactView, View
<1>4. later \in ExactView
  <2> HIDE DEF w
  <2>1. later \in View
    BY <1>1, <1>2, PhaseOfType DEF ExactView, View, Running, Phases
  <2>2. later.running.phase = PhaseOf({a}) /\ later.running.ids = {a}
    BY <1>2 DEF ExactView, View
  <2> HIDE DEF later
  <2> QED BY <2>1, <2>2, PhaseOfType DEF ExactView, Exact
<1>5. TryExecuteAvailable(c, now) \in ExactView
  <2> HIDE DEF now
  <2> QED BY <1>3, TryExecuteAvailableExact
<1>6. w = [ViewOf(c) EXCEPT !.pending = RemoveIndex(@, PositionOf(a, @)),
                            !.status = "InProgress"]
  BY DEF WithoutPending, ViewOf
<1>7. StartForUser(c, ViewOf(c), a) \in {TryExecuteAvailable(c, now), later}
  <2> HIDE DEF w
  <2> QED BY <1>6 DEF StartForUser
<1> QED
  BY <1>4, <1>5, <1>7

\* Cancelling the whole queue leaves the phase exact.
LEMMA CancelPendingExact ==
    ASSUME ModelTypeOK, NEW c \in Conversations, NEW v \in ExactView,
           NEW reason \in Reasons \cup {NoReason}
    PROVE  CancelPending(c, v, reason) \in ExactView
<1>1. v.pending \in Seq(ActionIds) /\ <<>> \in Seq(ActionIds)
  BY DEF ExactView, View
<1>2. [v EXCEPT !.pending = <<>>] \in ExactView
  BY <1>1 DEF ExactView, View
<1> QED
  BY <1>1, <1>2, CancelEachExact DEF CancelPending

\* A result of c that is handled leaves all phases exact.
LEMMA HandlePendingExact ==
    ASSUME ExactState, NEW c \in Conversations, NEW a \in Elems(pending[c]),
           NEW res \in Results, NEW reason \in Reasons \cup {NoReason},
           Commit(c, HandleResult(c, WithoutPending(c, a), a, res, reason),
                  effects, executing)
    PROVE  PhasesExact'
<1>1. WithoutPending(c, a) \in ExactView /\ a \in ActionIds
  BY PendingRemovedExact
<1>2. HandleResult(c, WithoutPending(c, a), a, res, reason) \in ExactView
  BY <1>1, HandleResultExact DEF ExactState
<1> QED
  BY <1>2, CommitExact

\* execute_action leaves all phases exact.
LEMMA ExecuteActionExact ==
    ASSUME ExactState, NEW c \in Conversations, NEW a, ExecuteAction(c, a)
    PROVE  PhasesExact'
<1>1. a \in Elems(pending[c]) /\ running[c].phase = "None"
  BY DEF ExecuteAction, MayStartForUser
<1>2. StartForUser(c, ViewOf(c), a) \in ExactView
  BY <1>1, StartForUserExact
<1>3. Commit(c, StartForUser(c, ViewOf(c), a), effects, executing)
  BY DEF ExecuteAction
<1> QED
  BY <1>2, <1>3, CommitExact

\* handle_preprocess_actions_results leaves all phases exact.
LEMMA PreprocessActionsResultsExact ==
    ASSUME ExactState, NEW c \in Conversations, NEW b \in ActionIds,
           PreprocessActionsResults(c, b)
    PROVE  PhasesExact'
<1> DEFINE es == Completed(c, b)
           released == [i \in 1..Releasable(es) |-> es[i].id]
<1>1. released \in Seq(ActionIds)
  BY ReleasedType DEF ExactState
<1>2. Commit(c, Enqueue(c, released), effects, executing)
  BY DEF PreprocessActionsResults
<1> HIDE DEF released
<1>3. Enqueue(c, released) \in ExactView
  BY <1>1, EnqueueExact
<1> QED
  BY <1>2, <1>3, CommitExact

\* Steps that leave the phases alone.
LEMMA UnchangedExact ==
    ASSUME ExactState, UNCHANGED running PROVE PhasesExact'
BY DEF ExactState, PhasesExact

\* The steps of a conversation leave all phases exact: one case per action.
LEMMA ConversationExact ==
    ASSUME ExactState, NEW c \in Conversations, ConversationNext(c)
    PROVE  PhasesExact'
<1>1. ASSUME NEW output \in Outputs[c], QueueActions(c, output) PROVE PhasesExact'
  BY <1>1, UnchangedExact DEF QueueActions
<1>2. CASE ExecuteNextActionForUser(c)
  BY <1>2, ExecuteActionExact DEF ExecuteNextActionForUser
<1>3. ASSUME NEW reason \in Reasons, CancelAndDrain(c, reason) PROVE PhasesExact'
  BY <1>3, UnchangedExact DEF CancelAndDrain
<1>4. ASSUME NEW reason \in Reasons, CancelAllPendingActions(c, reason) PROVE PhasesExact'
  <2>1. \E queue, execs : Commit(c, CancelPending(c, ViewOf(c), reason), queue, execs)
    BY <1>4 DEF CancelAllPendingActions, CancelAll
  <2>2. CancelPending(c, ViewOf(c), reason) \in ExactView
    BY ViewOfExact, CancelPendingExact DEF ExactState
  <2> QED BY <2>1, <2>2, CommitExact
<1>5. CASE ClearFinished(c)
  BY <1>5, UnchangedExact DEF ClearFinished
<1>6. ASSUME NEW a \in ActionIds, DenyRunAgents(c, a) PROVE PhasesExact'
  BY <1>6, HandlePendingExact DEF DenyRunAgents, Results
<1>7. ASSUME NEW a \in ActionIds, NEW reason \in Reasons, CancelActionWithId(c, a, reason)
      PROVE  PhasesExact'
  <2>1. CASE UNCHANGED running
    BY <2>1, UnchangedExact
  <2>2. CASE /\ a \in Elems(pending[c])
             /\ Commit(c, HandleResult(c, WithoutPending(c, a), a, "Cancelled", reason),
                       effects, executing)
    BY <2>2, HandlePendingExact DEF Results
  <2> QED BY <1>7, <2>1, <2>2 DEF CancelActionWithId
<1>8. ASSUME NEW a \in ActionIds, CompleteAsync(c, a) PROVE PhasesExact'
  BY <1>8, UnchangedExact DEF CompleteAsync
<1>9. ASSUME NEW a \in ActionIds, PreprocessActionsResults(c, a) \/ ExecuteAction(c, a)
      PROVE  PhasesExact'
  BY <1>9, PreprocessActionsResultsExact, ExecuteActionExact
<1> QED
  BY <1>1, <1>2, <1>3, <1>4, <1>5, <1>6, <1>7, <1>8, <1>9 DEF ConversationNext

\* The head of the effects, when it is a result of the executor.
LEMMA HeadIsResult ==
    ASSUME NEW E, Extends(E), effects \in Seq(E), effects # <<>>,
           Head(effects).type = "ExecutorFinished"
    PROVE  LET e == Head(effects)
           IN  /\ e.conv \in Conversations /\ e.id \in ActionIds /\ e.res \in Results
               /\ e.reason \in Reasons \cup {NoReason}
<1> DEFINE e == Head(effects)
<1>1. e \in Event /\ e.type = "ExecutorFinished"
  BY DEF Extends
<1> HIDE DEF e
<1> QED
  BY <1>1 DEF Event, e

\* Delivering a result to the action model leaves all phases exact.
LEMMA DeliverExecutorFinishedExact ==
    ASSUME NEW E, Extends(E), ExactState, effects \in Seq(E), DeliverExecutorFinished
    PROVE  PhasesExact'
<1> DEFINE e == Head(effects)
           v == HandleResult(e.conv, ViewOf(e.conv), e.id, e.res, e.reason)
<1>1. effects # <<>> /\ e.type = "ExecutorFinished"
      /\ Commit(e.conv, v, Tail(effects), executing)
  BY DEF DeliverExecutorFinished, Idle
<1>2. /\ e.conv \in Conversations /\ e.id \in ActionIds /\ e.res \in Results
      /\ e.reason \in Reasons \cup {NoReason}
  BY <1>1, HeadIsResult
<1> HIDE DEF e
<1>3. v \in ExactView
  BY <1>2, ViewOfExact, HandleResultExact DEF ExactState
<1> HIDE DEF v
<1> QED
  BY <1>1, <1>2, <1>3, CommitExact

\* Every step preserves the exactness of all phases.
LEMMA PhaseStep == TypeOK /\ PhasesExact /\ [Next]_vars => PhasesExact'
<1>1. SUFFICES ASSUME TypeOK, PhasesExact, [Next]_vars PROVE PhasesExact'
  OBVIOUS
<1>2. ExactState /\ effects \in Seq(Event) /\ Extends(Event)
  BY <1>1 DEF ExactState, TypeOK, Extends
<1>3. ASSUME NEW c \in Conversations, ConversationNext(c) PROVE PhasesExact'
  BY <1>2, <1>3, ConversationExact
<1>4. CASE DeliverExecutorFinished
  BY <1>2, <1>4, DeliverExecutorFinishedExact
<1>5. CASE ChangeSettings \/ DeliverFinished \/ UNCHANGED vars
  BY <1>2, <1>5, UnchangedExact DEF ChangeSettings, DeliverFinished, vars
<1> QED
  BY <1>1, <1>3, <1>4, <1>5 DEF Next

\* Initially nothing runs.
LEMMA PhaseInit == Init => PhasesExact
BY DEF Init, PhasesExact, Exact, NotRunning

\* Exactness, with a cardinality in place of a witness.
LEMMA ExactPhases == PhasesExact => PhaseIsExact
<1>1. SUFFICES ASSUME PhasesExact, NEW c \in Conversations
               PROVE  /\ (running[c].phase = "None") = (running[c].ids = {})
                      /\ running[c].phase = "Serial" => Cardinality(running[c].ids) = 1
  BY DEF PhaseIsExact
<1>2. Exact(running[c])
  BY <1>1 DEF PhasesExact
<1> QED
  BY <1>2, FS_Singleton DEF Exact

\* A conversation has a phase exactly while something runs in it, and a serial
\* phase holds one action (PhaseIsExact), for any conversations, actions, outputs
\* and settings.  So no stale phase ever refuses an approval, and no serial action
\* runs beside another.
THEOREM PhaseCorrect == Spec => []PhaseIsExact
BY PhaseInit, PhaseStep, ExactPhases, TypeCorrect, PTL DEF Spec

-----------------------------------------------------------------------------
(* What the loop over the queue and the record of a result do to a view.   *)

\* The actions of the first n of q that are started asynchronously, and the events
\* of those that are answered at once.
StartedOf(q, n) == Elems(SubSeq(q, 1, n)) \ SyncActions(FALSE)

AnsweredOf(q, n) == Filter(SubSeq(q, 1, n), SyncActions(FALSE))

AnswersOf(c, q, n) ==
    [i \in DOMAIN AnsweredOf(q, n) |->
        ExecutorFinished(c, AnsweredOf(q, n)[i], "Completed", NoReason)]

(***************************************************************************)
(* The view w is the view v after the first n actions of its queue have    *)
(* been executed.                                                          *)
(***************************************************************************)
Executed(c, v, w, n) ==
    /\ n \in 0..Len(v.pending)
    /\ \A i \in 1..n : Startable(v.pending, v.running.phase, i)
    /\ n < Len(v.pending) => ~Startable(v.pending, v.running.phase, n + 1)
    /\ w.pending = DropFirst(v.pending, n)
    /\ w.started = v.started \cup StartedOf(v.pending, n)
    /\ w.running.ids = v.running.ids \cup StartedOf(v.pending, n)
    /\ w.finished = v.finished
    /\ w.events = v.events \o AnswersOf(c, v.pending, n)

\* try_to_execute_available_actions executes the longest prefix that it may.
LEMMA TryExecuteAvailableExecutes ==
    ASSUME NEW c \in Conversations, NEW v \in View
    PROVE  \E n \in 0..Len(v.pending) : Executed(c, v, TryExecuteAvailable(c, v), n)
<1> DEFINE q == v.pending
           T == {i \in DOMAIN q : Startable(q, v.running.phase, i)}
           n == PrefixLen(T, Len(q))
           async == StartedOf(q, n)
           w == TryExecuteAvailable(c, v)
<1>1. q \in Seq(ActionIds) /\ Len(q) \in Nat /\ DOMAIN q = 1..Len(q)
  BY DEF View
<1>2. n \in 0..Len(q) /\ 1..n \subseteq T /\ (n < Len(q) => (n + 1) \notin T)
  <2> HIDE DEF q, T
  <2> QED BY <1>1, PrefixLenProperties
<1>3. /\ \A i \in 1..n : Startable(q, v.running.phase, i)
      /\ n < Len(q) => ~Startable(q, v.running.phase, n + 1)
  <2> HIDE DEF n
  <2> QED BY <1>1, <1>2
<1>4. /\ w.pending = DropFirst(q, n)
      /\ w.started = v.started \cup async
      /\ w.finished = v.finished
      /\ w.events = v.events \o AnswersOf(c, q, n)
  BY DEF TryExecuteAvailable, View, StartedOf, AnswersOf, AnsweredOf
<1>5. w.running = IF async = {} THEN v.running
                  ELSE [phase |-> IF v.running.phase = "None" THEN PhaseOf(async)
                                  ELSE v.running.phase,
                        ids |-> v.running.ids \cup async]
  BY DEF TryExecuteAvailable, View, StartedOf
<1>6. w.running.ids = v.running.ids \cup async
  <2> HIDE DEF async, w
  <2> QED BY <1>5
<1> HIDE DEF n, w
<1> QED
  BY <1>2, <1>3, <1>4, <1>6 DEF Executed, w

(***************************************************************************)
(* The view v with the result of a pushed; it is then sorted if nothing    *)
(* runs.                                                                   *)
(***************************************************************************)
Pushed(c, v, a, res, reason) ==
    [v EXCEPT !.finished = Append(@, [id |-> a, res |-> res]),
              !.events = Append(@, Finished(c, a, reason))]

Sorted(c, v) == [v EXCEPT !.finished = SortFinished(c, @)]

\* Recording a result pushes it; once nothing runs the results are sorted and the
\* queue is served, or the status is set if the queue is empty.
LEMMA RecordResultForms ==
    ASSUME ModelTypeOK, NEW c \in Conversations, NEW v \in View, NEW a \in ActionIds,
           NEW res \in Results, NEW reason \in Reasons \cup {NoReason}
    PROVE  LET w == Pushed(c, v, a, res, reason)
               r == RecordResult(c, v, a, res, reason)
           IN  /\ w \in View /\ Sorted(c, w) \in View
               /\ \/ v.running.ids # {} /\ r = w
                  \/ /\ v.running.ids = {} /\ v.pending # <<>>
                     /\ r = TryExecuteAvailable(c, Sorted(c, w))
                  \/ /\ v.running.ids = {} /\ v.pending = <<>>
                     /\ \E st \in Statuses : r = [Sorted(c, w) EXCEPT !.status = st]
<1> DEFINE w == Pushed(c, v, a, res, reason)
           r == RecordResult(c, v, a, res, reason)
           pushed == Append(v.finished, [id |-> a, res |-> res])
<1>1. pushed \in Seq(Result) /\ Append(v.events, Finished(c, a, reason)) \in Seq(Event)
  BY FinishedType DEF View, Result
<1>2. w = [v EXCEPT !.finished = pushed, !.events = Append(@, Finished(c, a, reason))]
  BY DEF Pushed
<1>3. w \in View /\ w.finished = pushed
  <2> HIDE DEF pushed, w
  <2> QED BY <1>1, <1>2 DEF View
<1>4. SortFinished(c, pushed) \in Seq(Result)
  <2> HIDE DEF pushed
  <2> QED BY <1>1, SortFinishedType
<1>5. Sorted(c, w) = [w EXCEPT !.finished = SortFinished(c, pushed)]
  <2> HIDE DEF pushed, w
  <2> QED BY <1>3 DEF Sorted
<1>6. Sorted(c, w) \in View
  <2> HIDE DEF pushed, w
  <2> QED BY <1>3, <1>4, <1>5 DEF View
<1>7. r = IF v.running.ids # {} THEN w
          ELSE IF v.pending # <<>> THEN TryExecuteAvailable(c, Sorted(c, w))
          ELSE IF reason # "Cancelled" THEN Sorted(c, w)
          ELSE [Sorted(c, w) EXCEPT !.status =
                   IF AllCancelled(pushed) THEN "Cancelled" ELSE "InProgress"]
  <2>1. r = LET x == [w EXCEPT !.finished = SortFinished(c, pushed)]
            IN  IF v.running.ids # {} THEN w
                ELSE IF v.pending # <<>> THEN TryExecuteAvailable(c, x)
                ELSE IF reason # "Cancelled" THEN x
                ELSE [x EXCEPT !.status =
                         IF AllCancelled(pushed) THEN "Cancelled" ELSE "InProgress"]
    BY DEF RecordResult, Pushed
  <2> HIDE DEF r, w, pushed
  <2> QED BY <1>5, <2>1
<1> HIDE DEF w, r, pushed
<1>8. [Sorted(c, w) EXCEPT !.status = Sorted(c, w).status] = Sorted(c, w)
      /\ Sorted(c, w).status \in Statuses
  BY <1>6 DEF View
<1> QED
  BY <1>3, <1>6, <1>7, <1>8 DEF w, r, Statuses

-----------------------------------------------------------------------------
(* The order of the results and the service of the queue.                  *)

\* The results are in the order of the tool calls of the latest output.
InOrder(c, results) ==
    \A i, j \in DOMAIN results :
        i < j => OrderKey(c, results)[i] <= OrderKey(c, results)[j]

\* The results of a view are in order once nothing runs.
OrderedView(c, v) == v.running.ids = {} => InOrder(c, v.finished)

\* The front action of an idle view may not be executed.
ServedView(v) ==
    (v.running.ids = {} /\ v.pending # <<>>) => ~Executes(Head(v.pending), FALSE)

\* The key of a result depends on its action alone.
LEMMA OrderKeyType ==
    ASSUME ModelTypeOK, NEW c \in Conversations, NEW results \in Seq(Result)
    PROVE  OrderKey(c, results) \in [DOMAIN results -> Int]
<1>1. order[c] \in Seq(ActionIds)
  BY DEF ModelTypeOK
<1>2. \A i \in DOMAIN results : results[i].id \in Elems(order[c]) =>
          PositionOf(results[i].id, order[c]) \in Int
  BY <1>1, PositionOfProperties
<1> QED
  BY <1>1, <1>2 DEF OrderKey

\* sort_finished_results puts the results in order.
LEMMA SortFinishedInOrder ==
    ASSUME ModelTypeOK, NEW c \in Conversations, NEW results \in Seq(Result)
    PROVE  InOrder(c, SortFinished(c, results))
<1> DEFINE key == OrderKey(c, results)
           sorted == SortFinished(c, results)
           K == DOMAIN results
<1>1. key \in [K -> Int]
  BY OrderKeyType
<1>2. sorted = StableSort(results, key)
  BY DEF SortFinished
<1> HIDE DEF key, sorted
<1>3. sorted \in Seq(Result) /\ Len(sorted) = Len(results)
  BY <1>1, <1>2, StableSortType
<1>4. DOMAIN sorted = K /\ K \subseteq Int
  BY <1>3
<1>5. PICK pos : SortsBy(results, key, pos)
  BY <1>1, StableSortPositions
<1>6. /\ pos \in [K -> K]
      /\ \A k \in K : sorted[k] = results[pos[k]]
      /\ \A j, k \in K :
             j < k => \/ key[pos[j]] < key[pos[k]]
                      \/ key[pos[j]] = key[pos[k]] /\ pos[j] < pos[k]
  BY <1>2, <1>5 DEF SortsBy
<1>7. \A k \in K : OrderKey(c, sorted)[k] = key[pos[k]]
  BY <1>4, <1>6 DEF OrderKey, key
<1>8. \A j, k \in K : j < k => key[pos[j]] <= key[pos[k]]
  <2> HIDE DEF K
  <2> QED BY <1>1, <1>6
<1> QED
  BY <1>4, <1>7, <1>8 DEF InOrder, sorted

\* The loop over the queue stops only where it has to: if nothing runs then, the
\* front action may not be executed.
LEMMA TryExecuteAvailableServes ==
    ASSUME NEW c \in Conversations, NEW v \in ExactView
    PROVE  LET w == TryExecuteAvailable(c, v)
           IN  /\ ServedView(w)
               /\ OrderedView(c, v) => OrderedView(c, w)
<1> DEFINE w == TryExecuteAvailable(c, v)
           q == v.pending
<1>1. v \in View /\ q \in Seq(ActionIds) /\ Exact(v.running)
  BY DEF ExactView, View
<1>2. PICK n \in 0..Len(q) : Executed(c, v, w, n)
  BY <1>1, TryExecuteAvailableExecutes
<1> HIDE DEF w
<1>3. OrderedView(c, v) => OrderedView(c, w)
  BY <1>2 DEF OrderedView, Executed
<1>4. ASSUME w.running.ids = {}, w.pending # <<>>
      PROVE  ~Executes(Head(w.pending), FALSE)
  <2>1. v.running.phase = "None" /\ StartedOf(q, n) = {}
    BY <1>1, <1>2, <1>4 DEF Executed, Exact
  <2>2. n + 1 \in 1..Len(q) /\ Head(w.pending) = q[n + 1]
    <3>1. w.pending = SubSeq(q, n + 1, Len(q))
      BY <1>2 DEF Executed, DropFirst
    <3> QED BY <1>1, <1>4, <3>1
  <2>3. {q[j] : j \in 1..((n + 1) - 1)} \ SyncActions(FALSE) = {}
    <3>1. DOMAIN SubSeq(q, 1, n) = 1..n /\ \A j \in 1..n : SubSeq(q, 1, n)[j] = q[j]
      BY <1>1
    <3>2. (n + 1) - 1 = n
      OBVIOUS
    <3> QED BY <2>1, <3>1, <3>2 DEF StartedOf, Elems
  <2>4. PhaseAdmits(PhaseBefore(q, "None", n + 1), q[n + 1])
    BY <2>3 DEF PhaseBefore, PhaseAdmits
  <2>5. ~Startable(q, "None", n + 1)
    BY <1>2, <2>1, <2>2 DEF Executed
  <2> QED BY <2>2, <2>4, <2>5 DEF Startable
<1> QED
  BY <1>3, <1>4 DEF ServedView, w

\* After the record of a result, the results are in order and the queue is served.
LEMMA RecordResultServes ==
    ASSUME ModelTypeOK, NEW c \in Conversations, NEW v \in ExactView, NEW a \in ActionIds,
           NEW res \in Results, NEW reason \in Reasons \cup {NoReason}
    PROVE  /\ ServedView(RecordResult(c, v, a, res, reason))
           /\ OrderedView(c, RecordResult(c, v, a, res, reason))
<1> DEFINE w == Pushed(c, v, a, res, reason)
           r == RecordResult(c, v, a, res, reason)
           x == Sorted(c, w)
<1>1. v \in View /\ Exact(v.running)
  BY DEF ExactView
<1>2. /\ w \in View /\ x \in View
      /\ \/ v.running.ids # {} /\ r = w
         \/ v.running.ids = {} /\ v.pending # <<>> /\ r = TryExecuteAvailable(c, x)
         \/ /\ v.running.ids = {} /\ v.pending = <<>>
            /\ \E st \in Statuses : r = [x EXCEPT !.status = st]
  BY <1>1, RecordResultForms
<1>3. w.running = v.running /\ w.pending = v.pending
  BY <1>1 DEF Pushed, View
<1> HIDE DEF w
<1>4. /\ x.running = v.running /\ x.pending = v.pending
      /\ x.finished = SortFinished(c, w.finished) /\ w.finished \in Seq(Result)
  BY <1>2, <1>3 DEF Sorted, View
<1> HIDE DEF x, r
<1>5. InOrder(c, x.finished)
  BY <1>4, SortFinishedInOrder
<1>6. CASE v.running.ids # {} /\ r = w
  BY <1>3, <1>6 DEF ServedView, OrderedView, r
<1>7. CASE v.running.ids = {} /\ v.pending # <<>> /\ r = TryExecuteAvailable(c, x)
  <2>1. x \in ExactView /\ OrderedView(c, x)
    BY <1>1, <1>2, <1>4, <1>5 DEF ExactView, OrderedView
  <2> QED BY <1>7, <2>1, TryExecuteAvailableServes DEF r
<1>8. ASSUME v.running.ids = {}, v.pending = <<>>,
             NEW st \in Statuses, r = [x EXCEPT !.status = st]
      PROVE  ServedView(r) /\ OrderedView(c, r)
  <2>1. r.running = x.running /\ r.pending = x.pending /\ r.finished = x.finished
    BY <1>2, <1>8 DEF View
  <2> QED BY <1>4, <1>5, <1>8, <2>1 DEF ServedView, OrderedView
<1> QED
  BY <1>2, <1>6, <1>7, <1>8 DEF r

-----------------------------------------------------------------------------
(* Where the actions of a view come from.                                  *)

\* The actions of a sequence of results, and of the executor's results among events.
IdsOf(results) == {results[i].id : i \in DOMAIN results}

AnswersIn(events) == {i \in DOMAIN events : events[i].type = "ExecutorFinished"}

AnsweredIds(events) == {events[i].id : i \in AnswersIn(events)}

(***************************************************************************)
(* A handler that began with the actions Q in the queue of c, R in its     *)
(* phase and F finished (or about to be) takes actions from Q only: what   *)
(* it starts or answers was queued, what it has finished was queued or is  *)
(* in F.                                                                   *)
(***************************************************************************)
Framed(c, Q, R, F, w) ==
    /\ Elems(w.pending) \subseteq Q
    /\ w.started \subseteq Q
    /\ w.running.ids = R \cup w.started
    /\ IdsOf(w.finished) \subseteq F \cup Q
    /\ AnsweredIds(w.events) \subseteq Q
    /\ \A i \in AnswersIn(w.events) : w.events[i].conv = c

FramedView(c, Q, R, F) == {w \in View : Framed(c, Q, R, F, w)}

\* The actions of a result list with one more result.
LEMMA IdsOfAppend ==
    ASSUME NEW results \in Seq(Result), NEW r \in Result
    PROVE  IdsOf(Append(results, r)) = IdsOf(results) \cup {r.id}
<1>1. /\ DOMAIN Append(results, r) = 1..(Len(results) + 1)
      /\ DOMAIN results = 1..Len(results) /\ Len(results) \in Nat
      /\ \A k \in DOMAIN results : Append(results, r)[k] = results[k]
      /\ Append(results, r)[Len(results) + 1] = r
  OBVIOUS
<1>2. \A k \in DOMAIN Append(results, r) : k \in DOMAIN results \/ k = Len(results) + 1
  BY <1>1
<1>3. Len(results) + 1 \in DOMAIN Append(results, r)
      /\ DOMAIN results \subseteq DOMAIN Append(results, r)
  BY <1>1
<1> QED
  BY <1>1, <1>2, <1>3 DEF IdsOf

\* Sorting does not change which actions have finished.
LEMMA SortFinishedIds ==
    ASSUME ModelTypeOK, NEW c \in Conversations, NEW results \in Seq(Result)
    PROVE  IdsOf(SortFinished(c, results)) = IdsOf(results)
<1> DEFINE key == OrderKey(c, results)
           sorted == SortFinished(c, results)
<1>1. key \in [DOMAIN results -> Int]
  BY OrderKeyType
<1>2. sorted = StableSort(results, key)
  BY DEF SortFinished
<1> HIDE DEF key, sorted
<1>3. DOMAIN sorted = DOMAIN results
  BY <1>1, <1>2, StableSortType
<1>4. PICK pos : SortsBy(results, key, pos)
  BY <1>1, StableSortPositions
<1>5. /\ pos \in [DOMAIN results -> DOMAIN results]
      /\ \A k \in DOMAIN results : sorted[k] = results[pos[k]]
      /\ \A i \in DOMAIN results : \E k \in DOMAIN results : pos[k] = i
  BY <1>2, <1>4 DEF SortsBy
<1>6. \A i \in DOMAIN results : \E k \in DOMAIN results : sorted[k] = results[i]
  <2>1. ASSUME NEW i \in DOMAIN results PROVE \E k \in DOMAIN results : sorted[k] = results[i]
    <3>1. PICK k \in DOMAIN results : pos[k] = i
      BY <1>5
    <3> QED BY <1>5, <3>1
  <2> QED BY <2>1
<1>7. \A k \in DOMAIN results : \E i \in DOMAIN results : sorted[k] = results[i]
  BY <1>5
<1>8. ASSUME NEW x \in IdsOf(sorted) PROVE x \in IdsOf(results)
  <2>1. PICK k \in DOMAIN results : x = sorted[k].id
    BY <1>3, <1>8 DEF IdsOf
  <2>2. PICK i \in DOMAIN results : sorted[k] = results[i]
    BY <1>7
  <2> QED BY <2>1, <2>2 DEF IdsOf
<1>9. ASSUME NEW x \in IdsOf(results) PROVE x \in IdsOf(sorted)
  <2>1. PICK i \in DOMAIN results : x = results[i].id
    BY <1>9 DEF IdsOf
  <2>2. PICK k \in DOMAIN results : sorted[k] = results[i]
    BY <1>6
  <2> QED BY <1>3, <2>1, <2>2 DEF IdsOf
<1> QED
  BY <1>8, <1>9 DEF sorted

\* The executor's results among events that are appended to others.
LEMMA AnswersInConcat ==
    ASSUME NEW E, NEW s \in Seq(E), NEW t \in Seq(E)
    PROVE  /\ AnswersIn(s \o t) = AnswersIn(s) \cup {Len(s) + k : k \in AnswersIn(t)}
           /\ \A i \in AnswersIn(s) : i \in 1..Len(s) /\ (s \o t)[i] = s[i]
           /\ \A k \in AnswersIn(t) : k \in 1..Len(t) /\ (s \o t)[Len(s) + k] = t[k]
           /\ AnsweredIds(s \o t) = AnsweredIds(s) \cup AnsweredIds(t)
<1>1. /\ Len(s) \in Nat /\ Len(t) \in Nat
      /\ DOMAIN (s \o t) = 1..(Len(s) + Len(t))
      /\ DOMAIN s = 1..Len(s) /\ DOMAIN t = 1..Len(t)
      /\ \A k \in 1..Len(s) : (s \o t)[k] = s[k]
      /\ \A k \in 1..Len(t) : (s \o t)[Len(s) + k] = t[k]
  OBVIOUS
<1>2. ASSUME NEW i \in AnswersIn(s \o t)
      PROVE  i \in AnswersIn(s) \/ \E k \in AnswersIn(t) : i = Len(s) + k
  <2>1. CASE i \in 1..Len(s)
    BY <1>1, <1>2, <2>1 DEF AnswersIn
  <2>2. CASE i > Len(s)
    <3>1. i - Len(s) \in 1..Len(t) /\ Len(s) + (i - Len(s)) = i
      BY <1>1, <1>2, <2>2 DEF AnswersIn
    <3>2. i - Len(s) \in AnswersIn(t)
      BY <1>1, <1>2, <3>1 DEF AnswersIn
    <3> QED BY <3>1, <3>2
  <2> QED BY <1>1, <1>2, <2>1, <2>2 DEF AnswersIn
<1>3. \A i \in AnswersIn(s) : i \in 1..Len(s) /\ (s \o t)[i] = s[i] /\ i \in AnswersIn(s \o t)
  BY <1>1 DEF AnswersIn
<1>4. \A k \in AnswersIn(t) : /\ k \in 1..Len(t) /\ (s \o t)[Len(s) + k] = t[k]
                              /\ Len(s) + k \in AnswersIn(s \o t)
  BY <1>1 DEF AnswersIn
<1>5. AnsweredIds(s \o t) = AnsweredIds(s) \cup AnsweredIds(t)
  <2>1. \A i \in AnswersIn(s \o t) : (s \o t)[i].id \in AnsweredIds(s) \cup AnsweredIds(t)
    BY <1>2, <1>3, <1>4 DEF AnsweredIds
  <2>2. AnsweredIds(s \o t) \subseteq AnsweredIds(s) \cup AnsweredIds(t)
    BY <2>1 DEF AnsweredIds
  <2>3. AnsweredIds(s) \subseteq AnsweredIds(s \o t)
    <3>1. \A i \in AnswersIn(s) : s[i].id = (s \o t)[i].id /\ i \in AnswersIn(s \o t)
      BY <1>3
    <3> QED BY <3>1 DEF AnsweredIds
  <2>4. AnsweredIds(t) \subseteq AnsweredIds(s \o t)
    <3>1. \A k \in AnswersIn(t) : /\ t[k].id = (s \o t)[Len(s) + k].id
                                  /\ Len(s) + k \in AnswersIn(s \o t)
      BY <1>4
    <3> QED BY <3>1 DEF AnsweredIds
  <2> QED BY <2>2, <2>3, <2>4
<1> QED
  BY <1>2, <1>3, <1>4, <1>5

\* The action model's own event is not an executor's result.
LEMMA AnswersInAppendFinished ==
    ASSUME NEW events \in Seq(Event), NEW c \in Conversations, NEW a \in ActionIds,
           NEW reason \in Reasons \cup {NoReason}
    PROVE  /\ AnswersIn(Append(events, Finished(c, a, reason))) = AnswersIn(events)
           /\ \A i \in AnswersIn(events) :
                  Append(events, Finished(c, a, reason))[i] = events[i]
           /\ AnsweredIds(Append(events, Finished(c, a, reason))) = AnsweredIds(events)
<1> DEFINE e == Finished(c, a, reason)
<1>1. e.type # "ExecutorFinished" /\ e \in Event
  BY FinishedType DEF Finished
<1> HIDE DEF e
<1>2. /\ DOMAIN Append(events, e) = 1..(Len(events) + 1)
      /\ DOMAIN events = 1..Len(events) /\ Len(events) \in Nat
      /\ \A k \in DOMAIN events : Append(events, e)[k] = events[k]
      /\ Append(events, e)[Len(events) + 1] = e
  BY <1>1
<1>3. AnswersIn(Append(events, e)) = AnswersIn(events)
  <2>1. \A i \in AnswersIn(Append(events, e)) : i \in DOMAIN events
    BY <1>1, <1>2 DEF AnswersIn
  <2> QED BY <1>2, <2>1 DEF AnswersIn
<1>4. \A i \in AnswersIn(events) : Append(events, e)[i] = events[i]
  BY <1>2 DEF AnswersIn
<1> QED
  BY <1>3, <1>4 DEF AnsweredIds, e

\* The results that the loop emits at once are those of the actions it answers.
LEMMA AnswersOfProperties ==
    ASSUME NEW c \in Conversations, NEW q \in Seq(ActionIds), NEW n \in 0..Len(q)
    PROVE  /\ AnswersOf(c, q, n) \in Seq(Event)
           /\ AnsweredOf(q, n) \in Seq(ActionIds)
           /\ AnswersIn(AnswersOf(c, q, n)) = DOMAIN AnsweredOf(q, n)
           /\ \A i \in DOMAIN AnsweredOf(q, n) :
                  /\ AnswersOf(c, q, n)[i].conv = c
                  /\ AnswersOf(c, q, n)[i].id = AnsweredOf(q, n)[i]
           /\ AnsweredIds(AnswersOf(c, q, n)) = {q[i] : i \in 1..n} \cap SyncActions(FALSE)
<1> DEFINE s == AnsweredOf(q, n)
           evs == AnswersOf(c, q, n)
<1>1. s \in Seq(ActionIds) /\ Elems(s) = {q[i] : i \in 1..n} \cap SyncActions(FALSE)
  <2> DEFINE t == SubSeq(q, 1, n)
  <2>1. t \in Seq(ActionIds) /\ Elems(t) = {q[i] : i \in 1..n}
    BY PrefixElems
  <2>2. s = Filter(t, SyncActions(FALSE))
    BY DEF AnsweredOf
  <2> HIDE DEF t, s
  <2> QED BY <2>1, <2>2, FilterProperties, FilterElems
<1>2. evs = [i \in DOMAIN s |-> ExecutorFinished(c, s[i], "Completed", NoReason)]
  BY DEF AnswersOf
<1> HIDE DEF s, evs
<1>3. \A i \in DOMAIN s : ExecutorFinished(c, s[i], "Completed", NoReason) \in Event
  BY <1>1, ExecutorFinishedType DEF Results
<1>4. evs \in Seq(Event) /\ DOMAIN evs = DOMAIN s
  BY <1>1, <1>2, <1>3
<1>5. \A i \in DOMAIN s : /\ evs[i].type = "ExecutorFinished"
                          /\ evs[i].conv = c /\ evs[i].id = s[i]
  BY <1>2 DEF ExecutorFinished
<1>6. AnswersIn(evs) = DOMAIN s
  BY <1>4, <1>5 DEF AnswersIn
<1>7. AnsweredIds(evs) = Elems(s)
  BY <1>5, <1>6 DEF AnsweredIds, Elems
<1> QED
  BY <1>1, <1>4, <1>5, <1>6, <1>7 DEF s, evs

\* The loop over the queue takes actions from the queue only.
LEMMA TryExecuteAvailableFramed ==
    ASSUME NEW c \in Conversations, NEW Q, NEW R, NEW F, NEW v \in FramedView(c, Q, R, F)
    PROVE  TryExecuteAvailable(c, v) \in FramedView(c, Q, R, F)
<1> DEFINE w == TryExecuteAvailable(c, v)
           q == v.pending
<1>1. v \in View /\ q \in Seq(ActionIds) /\ v.events \in Seq(Event) /\ Framed(c, Q, R, F, v)
  BY DEF FramedView, View
<1>2. w \in View
  BY <1>1, TryExecuteAvailableType
<1>3. PICK n \in 0..Len(q) : Executed(c, v, w, n)
  BY <1>1, TryExecuteAvailableExecutes
<1> HIDE DEF w
<1>4. /\ Elems(q) = {q[i] : i \in 1..Len(q)}
      /\ Elems(DropFirst(q, n)) \subseteq Elems(q)
      /\ StartedOf(q, n) \subseteq Elems(q)
      /\ {q[i] : i \in 1..n} \subseteq Elems(q)
  <2> HIDE DEF q
  <2>1. DOMAIN q = 1..Len(q) /\ Len(q) \in Nat
    BY <1>1
  <2>2. Elems(q) = {q[i] : i \in 1..Len(q)}
    BY <2>1 DEF Elems
  <2>3. /\ Elems(SubSeq(q, 1, n)) = {q[i] : i \in 1..n}
        /\ Elems(DropFirst(q, n)) = {q[i] : i \in (n + 1)..Len(q)}
    BY <1>1, PrefixElems
  <2>4. {q[i] : i \in 1..n} \subseteq Elems(q)
    BY <2>1, <2>2
  <2>5. {q[i] : i \in (n + 1)..Len(q)} \subseteq Elems(q)
    BY <2>1, <2>2
  <2> QED BY <2>2, <2>3, <2>4, <2>5 DEF StartedOf
<1>5. Elems(w.pending) \subseteq Q /\ w.started \subseteq Q
      /\ w.running.ids = R \cup w.started /\ IdsOf(w.finished) \subseteq F \cup Q
  BY <1>1, <1>3, <1>4 DEF Executed, Framed
<1> DEFINE evs == AnswersOf(c, q, n)
<1>6. /\ evs \in Seq(Event) /\ AnsweredIds(evs) \subseteq Elems(q)
      /\ \A i \in AnswersIn(evs) : evs[i].conv = c
  <2> HIDE DEF q
  <2>1. /\ evs \in Seq(Event)
        /\ AnswersIn(evs) = DOMAIN AnsweredOf(q, n)
        /\ \A i \in DOMAIN AnsweredOf(q, n) : evs[i].conv = c
        /\ AnsweredIds(evs) = {q[i] : i \in 1..n} \cap SyncActions(FALSE)
    BY <1>1, AnswersOfProperties
  <2> HIDE DEF evs
  <2> QED BY <1>4, <2>1
<1>7. w.events = v.events \o evs
  BY <1>3 DEF Executed
<1> HIDE DEF evs, q
<1>8. AnsweredIds(w.events) \subseteq Q /\ \A i \in AnswersIn(w.events) : w.events[i].conv = c
  <2>1. Elems(q) \subseteq Q
    BY <1>1 DEF Framed, q
  <2>2. /\ AnswersIn(v.events \o evs)
             = AnswersIn(v.events) \cup {Len(v.events) + k : k \in AnswersIn(evs)}
        /\ \A i \in AnswersIn(v.events) : (v.events \o evs)[i] = v.events[i]
        /\ \A k \in AnswersIn(evs) : (v.events \o evs)[Len(v.events) + k] = evs[k]
        /\ AnsweredIds(v.events \o evs) = AnsweredIds(v.events) \cup AnsweredIds(evs)
    BY <1>1, <1>6, AnswersInConcat
  <2>3. AnsweredIds(w.events) \subseteq Q
    BY <1>1, <1>6, <1>7, <2>1, <2>2 DEF Framed
  <2>4. \A i \in AnswersIn(v.events) : v.events[i].conv = c
    BY <1>1 DEF Framed
  <2>5. ASSUME NEW i \in AnswersIn(w.events) PROVE w.events[i].conv = c
    <3>1. CASE i \in AnswersIn(v.events)
      BY <1>7, <2>2, <2>4, <3>1
    <3>2. ASSUME NEW k \in AnswersIn(evs), i = Len(v.events) + k
          PROVE  w.events[i].conv = c
      BY <1>6, <1>7, <2>2, <3>2
    <3> QED BY <1>7, <2>2, <2>5, <3>1, <3>2
  <2> QED BY <2>3, <2>5
<1> QED
  BY <1>2, <1>5, <1>8 DEF FramedView, Framed, w

\* Recording the result of an action of Q or F keeps to the frame.
LEMMA RecordResultFramed ==
    ASSUME ModelTypeOK, NEW c \in Conversations, NEW Q, NEW R, NEW F,
           NEW v \in FramedView(c, Q, R, F), NEW a \in ActionIds, a \in F \cup Q,
           NEW res \in Results, NEW reason \in Reasons \cup {NoReason}
    PROVE  RecordResult(c, v, a, res, reason) \in FramedView(c, Q, R, F)
<1> DEFINE w == Pushed(c, v, a, res, reason)
           r == RecordResult(c, v, a, res, reason)
           x == Sorted(c, w)
<1>1. v \in View /\ Framed(c, Q, R, F, v)
  BY DEF FramedView
<1>2. /\ w \in View /\ x \in View
      /\ \/ v.running.ids # {} /\ r = w
         \/ v.running.ids = {} /\ v.pending # <<>> /\ r = TryExecuteAvailable(c, x)
         \/ /\ v.running.ids = {} /\ v.pending = <<>>
            /\ \E st \in Statuses : r = [x EXCEPT !.status = st]
  BY <1>1, RecordResultForms
<1>3. /\ w.running = v.running /\ w.pending = v.pending /\ w.started = v.started
      /\ w.finished = Append(v.finished, [id |-> a, res |-> res])
      /\ w.events = Append(v.events, Finished(c, a, reason))
  BY <1>1 DEF Pushed, View
<1> HIDE DEF w
<1>4. /\ x.running = v.running /\ x.pending = v.pending /\ x.started = v.started
      /\ x.finished = SortFinished(c, w.finished) /\ x.events = w.events
      /\ w.finished \in Seq(Result)
  BY <1>2, <1>3 DEF Sorted, View
<1> HIDE DEF x, r
<1>5. IdsOf(w.finished) = IdsOf(v.finished) \cup {a} /\ IdsOf(x.finished) = IdsOf(w.finished)
  <2>1. v.finished \in Seq(Result) /\ [id |-> a, res |-> res] \in Result
    BY <1>1 DEF View, Result
  <2>2. IdsOf(w.finished) = IdsOf(v.finished) \cup {a}
    BY <1>3, <2>1, IdsOfAppend
  <2> QED BY <1>4, <2>2, SortFinishedIds
<1>6. /\ AnsweredIds(w.events) = AnsweredIds(v.events)
      /\ \A i \in AnswersIn(w.events) : w.events[i].conv = c
  <2>1. v.events \in Seq(Event)
    BY <1>1 DEF View
  <2> DEFINE evs == Append(v.events, Finished(c, a, reason))
  <2>2. /\ AnswersIn(evs) = AnswersIn(v.events)
        /\ \A i \in AnswersIn(v.events) : evs[i] = v.events[i]
        /\ AnsweredIds(evs) = AnsweredIds(v.events)
    BY <2>1, AnswersInAppendFinished
  <2>3. w.events = evs
    BY <1>3
  <2> HIDE DEF evs
  <2> QED BY <1>1, <2>2, <2>3 DEF Framed
<1>7. w \in FramedView(c, Q, R, F) /\ x \in FramedView(c, Q, R, F)
  BY <1>1, <1>2, <1>3, <1>4, <1>5, <1>6 DEF FramedView, Framed
<1>8. ASSUME NEW st \in Statuses, r = [x EXCEPT !.status = st]
      PROVE  r \in FramedView(c, Q, R, F)
  <2>1. /\ r.running = x.running /\ r.pending = x.pending /\ r.finished = x.finished
        /\ r.started = x.started /\ r.events = x.events /\ r \in View
    BY <1>2, <1>8 DEF View
  <2> QED BY <1>7, <2>1 DEF FramedView, Framed
<1> QED
  BY <1>2, <1>7, <1>8, TryExecuteAvailableFramed DEF r

\* Cancelling actions of Q or F keeps to the frame.
LEMMA CancelEachFramed ==
    ASSUME ModelTypeOK, NEW c \in Conversations, NEW Q, NEW R, NEW F,
           NEW v \in FramedView(c, Q, R, F), NEW ids \in Seq(ActionIds),
           Elems(ids) \subseteq F \cup Q, NEW reason \in Reasons \cup {NoReason}
    PROVE  CancelEach(c, v, ids, reason) \in FramedView(c, Q, R, F)
<1> DEFINE V == FramedView(c, Q, R, F)
           P == [i \in 0..Len(ids) |-> V]
<1>1. /\ Len(ids) \in Nat
      /\ \A i \in 1..Len(ids) : ids[i] \in ActionIds /\ ids[i] \in F \cup Q
  BY DEF Elems
<1>2. \A i \in 1..Len(ids) : \A w \in V :
          RecordResult(c, w, ids[i], "Cancelled", reason) \in V
  BY <1>1, RecordResultFramed DEF Results
<1> HIDE DEF V
<1>3. P[0] = V /\ P[Len(ids)] = V /\ \A i \in 1..Len(ids) : P[i] = V /\ P[i - 1] = V
  BY <1>1
<1>4. v \in P[0]
  BY <1>3 DEF V
<1>5. \A i \in 1..Len(ids) : \A w \in P[i - 1] :
          RecordResult(c, w, ids[i], "Cancelled", reason) \in P[i]
  BY <1>2, <1>3
<1> HIDE DEF P
<1>6. CancelEach(c, v, ids, reason) \in P[Len(ids)]
  BY <1>4, <1>5, CancelEachPasses
<1> QED
  BY <1>3, <1>6 DEF V

\* Cancelling the other commands keeps to the frame.
LEMMA CancelOtherCommandsFramed ==
    ASSUME ModelTypeOK, NEW c \in Conversations, NEW Q, NEW R, NEW F,
           NEW v \in FramedView(c, Q, R, F), NEW reason \in Reasons \cup {NoReason}
    PROVE  CancelOtherCommands(c, v, reason) \in FramedView(c, Q, R, F)
<1> DEFINE rest == Filter(v.pending, ActionIds \ Commands)
           ids == Filter(v.pending, Commands)
           w == [v EXCEPT !.pending = rest]
<1>1. v \in View /\ v.pending \in Seq(ActionIds) /\ Framed(c, Q, R, F, v)
  BY DEF FramedView, View
<1>2. /\ rest \in Seq(ActionIds) /\ Elems(rest) \subseteq Elems(v.pending)
      /\ ids \in Seq(ActionIds) /\ Elems(ids) \subseteq Elems(v.pending)
  BY <1>1, FilterProperties, FilterElems
<1> HIDE DEF rest, ids
<1>3. w \in FramedView(c, Q, R, F)
  BY <1>1, <1>2 DEF FramedView, View, Framed
<1>4. Elems(ids) \subseteq F \cup Q
  BY <1>1, <1>2 DEF Framed
<1> HIDE DEF w
<1> QED
  BY <1>2, <1>3, <1>4, CancelEachFramed DEF CancelOtherCommands, w, rest, ids

\* handle_action_result of an action of Q or F, which leaves the phase.
LEMMA HandleResultFramed ==
    ASSUME ModelTypeOK, NEW c \in Conversations, NEW Q, NEW R, NEW F,
           NEW v \in FramedView(c, Q, R, F), v.started = {},
           NEW a \in ActionIds, a \in F \cup Q,
           NEW res \in Results, NEW reason \in Reasons \cup {NoReason}
    PROVE  HandleResult(c, v, a, res, reason) \in FramedView(c, Q, R \ {a}, F)
<1> DEFINE w == WithoutRunning(v, a)
           u == IF res = "Snapshot" THEN CancelOtherCommands(c, w, reason) ELSE w
<1>1. v \in View /\ v.running \in Running /\ Framed(c, Q, R, F, v)
  BY DEF FramedView, View
<1>2. w \in View
  BY <1>1, WithoutRunningType
<1>3. /\ w.running = IF v.running.ids \subseteq {a} THEN NotRunning
                     ELSE [phase |-> v.running.phase, ids |-> v.running.ids \ {a}]
      /\ w.pending = v.pending /\ w.finished = v.finished /\ w.started = v.started
      /\ w.events = v.events
  BY <1>1 DEF WithoutRunning, View
<1> HIDE DEF w
<1>4. w.running.ids = v.running.ids \ {a}
  BY <1>3 DEF NotRunning
<1>5. w \in FramedView(c, Q, R \ {a}, F)
  BY <1>1, <1>2, <1>3, <1>4 DEF FramedView, Framed
<1>6. u \in FramedView(c, Q, R \ {a}, F)
  BY <1>5, CancelOtherCommandsFramed
<1> HIDE DEF u
<1> QED
  BY <1>6, RecordResultFramed DEF HandleResult, u, w

\* The view a handler starts from, with the actions Q that it may yet take.
LEMMA ViewOfFramed ==
    ASSUME ModelTypeOK, NEW c \in Conversations, NEW Q, Elems(pending[c]) \subseteq Q
    PROVE  /\ ViewOf(c) \in FramedView(c, Q, running[c].ids, FinishedIds(c))
           /\ ViewOf(c).started = {}
<1>1. /\ ViewOf(c) \in View /\ ViewOf(c).started = {} /\ ViewOf(c).events = <<>>
      /\ ViewOf(c).pending = pending[c] /\ ViewOf(c).finished = finished[c]
      /\ ViewOf(c).running = running[c]
  BY ViewOfType DEF ViewOf
<1>2. AnswersIn(<<>>) = {}
  BY DEF AnswersIn
<1> QED
  BY <1>1, <1>2 DEF FramedView, Framed, IdsOf, FinishedIds, AnsweredIds

\* The same without one pending action.
LEMMA WithoutPendingFramed ==
    ASSUME ModelTypeOK, NEW c \in Conversations, NEW a \in Elems(pending[c])
    PROVE  /\ WithoutPending(c, a)
                \in FramedView(c, Elems(pending[c]), running[c].ids, FinishedIds(c))
           /\ WithoutPending(c, a).started = {}
           /\ a \in ActionIds
<1> DEFINE v == ViewOf(c)
           w == WithoutPending(c, a)
           Q == Elems(pending[c])
           rest == RemoveIndex(pending[c], PositionOf(a, pending[c]))
<1>1. /\ v \in FramedView(c, Q, running[c].ids, FinishedIds(c)) /\ v.started = {}
      /\ v.pending = pending[c]
  BY ViewOfFramed DEF ViewOf
<1>2. w \in View /\ a \in ActionIds
  BY WithoutPendingType
<1>3. w = [v EXCEPT !.pending = rest]
  BY DEF WithoutPending, ViewOf
<1>4. Elems(rest) \subseteq Q
  BY PositionOfProperties, RemoveIndexElems DEF ModelTypeOK
<1> HIDE DEF v, w, Q, rest
<1>5. v \in View /\ Framed(c, Q, running[c].ids, FinishedIds(c), v)
  BY <1>1 DEF FramedView
<1>6. /\ w.pending = rest /\ w.running = v.running /\ w.finished = v.finished
      /\ w.started = v.started /\ w.events = v.events
  BY <1>3, <1>5 DEF View
<1>7. Framed(c, Q, running[c].ids, FinishedIds(c), w)
  BY <1>4, <1>5, <1>6 DEF Framed
<1> QED
  BY <1>1, <1>2, <1>6, <1>7 DEF FramedView, Q, w

\* Starting a pending action takes actions from the queue.
LEMMA StartForUserFramed ==
    ASSUME ModelTypeOK, NEW c \in Conversations, NEW a \in Elems(pending[c])
    PROVE  StartForUser(c, ViewOf(c), a)
             \in FramedView(c, Elems(pending[c]), running[c].ids, FinishedIds(c))
<1> DEFINE V == FramedView(c, Elems(pending[c]), running[c].ids, FinishedIds(c))
           v == WithoutPending(c, a)
           w == [v EXCEPT !.status = "InProgress"]
           now == [w EXCEPT !.events =
                      Append(@, ExecutorFinished(c, a, "Completed", NoReason))]
           later == [w EXCEPT !.running = [phase |-> PhaseOf({a}), ids |-> @.ids \cup {a}],
                              !.started = {a}]
<1>1. v \in V /\ v.started = {} /\ a \in ActionIds /\ v.events = <<>>
  BY WithoutPendingFramed DEF WithoutPending, ViewOf
<1>2. w \in V /\ w.started = {} /\ w \in View /\ w.events = <<>>
  <2> HIDE DEF v
  <2> QED BY <1>1 DEF FramedView, View, Framed, Statuses
<1>3. now \in V
  <2> DEFINE e == ExecutorFinished(c, a, "Completed", NoReason)
  <2>1. e \in Event /\ e.conv = c /\ e.id = a
    BY <1>1, ExecutorFinishedType DEF Results, ExecutorFinished
  <2> HIDE DEF w, e
  <2>2. Append(w.events, e) = <<e>> /\ <<e>> \in Seq(Event)
    BY <1>2, <2>1
  <2>3. AnswersIn(<<e>>) \subseteq {1} /\ <<e>>[1] = e
    BY DEF AnswersIn
  <2>4. now \in View /\ now.events = <<e>> /\ now.pending = w.pending
        /\ now.running = w.running /\ now.finished = w.finished /\ now.started = w.started
    BY <1>2, <2>2 DEF View, e
  <2> HIDE DEF now
  <2>5. \A i \in AnswersIn(now.events) : now.events[i].conv = c /\ now.events[i].id = a
    BY <2>1, <2>3, <2>4
  <2>6. AnsweredIds(now.events) \subseteq Elems(pending[c])
    BY <2>5 DEF AnsweredIds
  <2> QED BY <1>2, <2>4, <2>5, <2>6 DEF FramedView, Framed
<1>4. later \in V
  <2> HIDE DEF w
  <2>1. later \in View
    BY <1>1, <1>2, PhaseOfType DEF View, Running, Phases
  <2>2. later.running.ids = w.running.ids \cup {a} /\ later.started = {a}
        /\ later.pending = w.pending /\ later.finished = w.finished /\ later.events = w.events
    BY <1>2 DEF View
  <2> HIDE DEF later
  <2> QED BY <1>2, <2>1, <2>2 DEF FramedView, Framed
<1>5. TryExecuteAvailable(c, now) \in V
  <2> HIDE DEF now
  <2> QED BY <1>3, TryExecuteAvailableFramed
<1>6. w = [ViewOf(c) EXCEPT !.pending = RemoveIndex(@, PositionOf(a, @)),
                            !.status = "InProgress"]
  BY DEF WithoutPending, ViewOf
<1>7. StartForUser(c, ViewOf(c), a) \in {TryExecuteAvailable(c, now), later}
  <2> HIDE DEF w
  <2> QED BY <1>6 DEF StartForUser
<1> QED
  BY <1>4, <1>5, <1>7

\* Serving a queue that released actions have joined takes actions from both.
LEMMA EnqueueFramed ==
    ASSUME ModelTypeOK, NEW c \in Conversations, NEW released \in Seq(ActionIds)
    PROVE  Enqueue(c, released)
             \in FramedView(c, Elems(pending[c]) \cup Elems(released), running[c].ids,
                            FinishedIds(c))
<1> DEFINE Q == Elems(pending[c]) \cup Elems(released)
           V == FramedView(c, Q, running[c].ids, FinishedIds(c))
           v == ViewOf(c)
           more == Filter(released, ActionIds \ FinishedIds(c))
           w == [v EXCEPT !.pending = @ \o more]
<1>1. v \in V /\ v.pending = pending[c] /\ pending[c] \in Seq(ActionIds)
  BY ViewOfFramed DEF ViewOf, ModelTypeOK
<1>2. more \in Seq(ActionIds) /\ Elems(more) \subseteq Elems(released)
  BY FilterProperties, FilterElems
<1> HIDE DEF v, more
<1>3. v.pending \o more \in Seq(ActionIds) /\ Elems(v.pending \o more) \subseteq Q
  BY <1>1, <1>2, ConcatElems
<1> HIDE DEF Q
<1>4. w \in V
  BY <1>1, <1>3 DEF FramedView, View, Framed
<1> HIDE DEF w
<1> QED
  BY <1>4, TryExecuteAvailableFramed DEF Enqueue, w, v, more, Q

\* Cancelling the whole queue leaves nothing queued, started or answered.
LEMMA CancelPendingFramed ==
    ASSUME ModelTypeOK, NEW c \in Conversations, NEW reason \in Reasons \cup {NoReason}
    PROVE  CancelPending(c, ViewOf(c), reason)
             \in FramedView(c, {}, running[c].ids, FinishedIds(c) \cup Elems(pending[c]))
<1> DEFINE v == ViewOf(c)
           w == [v EXCEPT !.pending = <<>>]
           F == FinishedIds(c) \cup Elems(pending[c])
<1>1. /\ v \in View /\ v.pending = pending[c] /\ v.running = running[c]
      /\ v.finished = finished[c] /\ v.started = {} /\ v.events = <<>>
  BY ViewOfType DEF ViewOf
<1>2. v.pending \in Seq(ActionIds) /\ Elems(v.pending) \subseteq F
  BY <1>1 DEF View
<1> HIDE DEF v
<1>3. /\ w \in View /\ w.pending = <<>> /\ w.running = v.running
      /\ w.finished = v.finished /\ w.started = v.started /\ w.events = v.events
  BY <1>1 DEF View
<1> HIDE DEF w
<1>4. Elems(<<>>) = {} /\ AnswersIn(<<>>) = {}
  BY DEF Elems, AnswersIn
<1>5. IdsOf(w.finished) \subseteq F
  BY <1>1, <1>3 DEF IdsOf, FinishedIds
<1>6. w \in FramedView(c, {}, running[c].ids, F)
  BY <1>1, <1>3, <1>4, <1>5 DEF FramedView, Framed, AnsweredIds
<1> HIDE DEF F
<1> QED
  BY <1>2, <1>6, CancelEachFramed DEF CancelPending, v, w, F

-----------------------------------------------------------------------------
(* The undelivered results of a conversation.                              *)

\* Those among events, and their actions.
AnswersFor(c, events) ==
    {i \in DOMAIN events : events[i].type = "ExecutorFinished" /\ events[i].conv = c}

AnsweredFor(c, events) == {events[i].id : i \in AnswersFor(c, events)}

\* A result is announced once.
AnsweredOnce(c, events) ==
    \A i, j \in AnswersFor(c, events) : events[i].id = events[j].id => i = j

\* The results of two sequences of events, one after the other.
LEMMA AnswersForConcat ==
    ASSUME NEW E, NEW s \in Seq(E), NEW t \in Seq(E), NEW c
    PROVE  /\ AnsweredFor(c, s \o t) = AnsweredFor(c, s) \cup AnsweredFor(c, t)
           /\ (/\ AnsweredOnce(c, s) /\ AnsweredOnce(c, t)
               /\ AnsweredFor(c, s) \cap AnsweredFor(c, t) = {}) => AnsweredOnce(c, s \o t)
<1> DEFINE st == s \o t
<1>1. /\ AnswersIn(st) = AnswersIn(s) \cup {Len(s) + k : k \in AnswersIn(t)}
      /\ \A i \in AnswersIn(s) : i \in 1..Len(s) /\ st[i] = s[i]
      /\ \A k \in AnswersIn(t) : k \in 1..Len(t) /\ st[Len(s) + k] = t[k]
  BY AnswersInConcat
<1> HIDE DEF st
<1>2. \A u \in {s, t, st} : AnswersFor(c, u) = {i \in AnswersIn(u) : u[i].conv = c}
  BY DEF AnswersFor, AnswersIn
<1>3. \A i \in AnswersFor(c, s) : i \in AnswersFor(c, st) /\ st[i] = s[i]
  BY <1>1, <1>2
<1>4. \A k \in AnswersFor(c, t) :
          Len(s) + k \in AnswersFor(c, st) /\ st[Len(s) + k] = t[k]
  BY <1>1, <1>2
<1>5. \A i \in AnswersFor(c, st) :
          i \in AnswersFor(c, s) \/ \E k \in AnswersFor(c, t) : i = Len(s) + k
  BY <1>1, <1>2
<1>6. ASSUME NEW x \in AnsweredFor(c, st) PROVE x \in AnsweredFor(c, s) \cup AnsweredFor(c, t)
  <2>1. PICK i \in AnswersFor(c, st) : x = st[i].id
    BY <1>6 DEF AnsweredFor
  <2> QED BY <1>3, <1>4, <1>5, <2>1 DEF AnsweredFor
<1>7. ASSUME NEW x \in AnsweredFor(c, s) PROVE x \in AnsweredFor(c, st)
  <2>1. PICK i \in AnswersFor(c, s) : x = s[i].id
    BY <1>7 DEF AnsweredFor
  <2> QED BY <1>3, <2>1 DEF AnsweredFor
<1>8. ASSUME NEW x \in AnsweredFor(c, t) PROVE x \in AnsweredFor(c, st)
  <2>1. PICK k \in AnswersFor(c, t) : x = t[k].id
    BY <1>8 DEF AnsweredFor
  <2> QED BY <1>4, <2>1 DEF AnsweredFor
<1>9. ASSUME AnsweredOnce(c, s), AnsweredOnce(c, t),
             AnsweredFor(c, s) \cap AnsweredFor(c, t) = {},
             NEW i \in AnswersFor(c, st), NEW j \in AnswersFor(c, st), st[i].id = st[j].id
      PROVE  i = j
  <2>1. ASSUME NEW m \in AnswersFor(c, s), NEW k \in AnswersFor(c, t)
        PROVE  st[m].id # st[Len(s) + k].id
    BY <1>3, <1>4, <1>9, <2>1 DEF AnsweredFor
  <2>2. CASE i \in AnswersFor(c, s) /\ j \in AnswersFor(c, s)
    BY <1>3, <1>9, <2>2 DEF AnsweredOnce
  <2>3. ASSUME NEW m \in AnswersFor(c, t), NEW k \in AnswersFor(c, t),
               i = Len(s) + m, j = Len(s) + k
        PROVE  i = j
    BY <1>4, <1>9, <2>3 DEF AnsweredOnce
  <2> QED BY <1>5, <1>9, <2>1, <2>2, <2>3
<1> QED
  BY <1>6, <1>7, <1>8, <1>9 DEF AnsweredOnce, st

\* No events, no results.
LEMMA AnswersForNone ==
    ASSUME NEW c PROVE AnsweredFor(c, <<>>) = {} /\ AnsweredOnce(c, <<>>)
BY DEF AnsweredFor, AnsweredOnce, AnswersFor

\* The events of a framed view announce results of its conversation only.
LEMMA AnswersForView ==
    ASSUME NEW c, NEW Q, NEW R, NEW F, NEW v \in FramedView(c, Q, R, F), NEW d
    PROVE  /\ AnswersFor(c, v.events) = AnswersIn(v.events)
           /\ AnsweredFor(c, v.events) = AnsweredIds(v.events)
           /\ AnsweredFor(c, v.events) \subseteq Q
           /\ d # c => AnsweredFor(d, v.events) = {} /\ AnsweredOnce(d, v.events)
<1>1. Framed(c, Q, R, F, v)
  BY DEF FramedView
<1>2. \A i \in AnswersIn(v.events) : v.events[i].conv = c
  BY <1>1 DEF Framed
<1>3. \A e : AnswersFor(e, v.events) = {i \in AnswersIn(v.events) : v.events[i].conv = e}
  BY DEF AnswersFor, AnswersIn
<1>4. AnswersFor(c, v.events) = AnswersIn(v.events)
  BY <1>2, <1>3
<1>5. AnsweredFor(c, v.events) = AnsweredIds(v.events)
  BY <1>4 DEF AnsweredFor, AnsweredIds
<1>6. d # c => AnswersFor(d, v.events) = {}
  BY <1>2, <1>3
<1> QED
  BY <1>1, <1>4, <1>5, <1>6 DEF Framed, AnsweredFor, AnsweredOnce

\* One result that is announced.
LEMMA AnswersForOne ==
    ASSUME NEW c, NEW a, NEW res, NEW reason, NEW d
    PROVE  LET s == <<ExecutorFinished(c, a, res, reason)>>
           IN  /\ AnsweredFor(d, s) = IF d = c THEN {a} ELSE {}
               /\ AnsweredOnce(d, s)
<1> DEFINE e == ExecutorFinished(c, a, res, reason)
<1>1. e.type = "ExecutorFinished" /\ e.conv = c /\ e.id = a
  BY DEF ExecutorFinished
<1> HIDE DEF e
<1>2. DOMAIN <<e>> = {1} /\ <<e>>[1] = e
  OBVIOUS
<1>3. AnswersFor(d, <<e>>) = IF d = c THEN {1} ELSE {}
  BY <1>1, <1>2 DEF AnswersFor
<1> QED
  BY <1>1, <1>2, <1>3 DEF AnsweredFor, AnsweredOnce, e

\* The cancelled results of a list of running actions.
LEMMA AnswersForCancelled ==
    ASSUME NEW c, NEW listed, NEW reason, NEW d
    PROVE  LET s == CancelledEvents(c, listed, reason)
           IN  /\ AnsweredFor(d, s) = IF d = c THEN Elems(listed) ELSE {}
               /\ Injective(listed) => AnsweredOnce(d, s)
<1> DEFINE s == CancelledEvents(c, listed, reason)
<1>1. /\ DOMAIN s = DOMAIN listed
      /\ \A i \in DOMAIN listed : /\ s[i].type = "ExecutorFinished"
                                  /\ s[i].conv = c /\ s[i].id = listed[i]
  BY DEF CancelledEvents, ExecutorFinished
<1> HIDE DEF s
<1>2. AnswersFor(d, s) = IF d = c THEN DOMAIN listed ELSE {}
  BY <1>1 DEF AnswersFor
<1>3. AnsweredFor(d, s) = IF d = c THEN Elems(listed) ELSE {}
  BY <1>1, <1>2 DEF AnsweredFor, Elems
<1>4. Injective(listed) => AnsweredOnce(d, s)
  BY <1>1, <1>2 DEF AnsweredOnce, Injective
<1> QED
  BY <1>3, <1>4 DEF s

\* What is left when the first event is delivered.
LEMMA AnswersForTail ==
    ASSUME NEW E, NEW s \in Seq(E), s # <<>>, NEW c
    PROVE  /\ AnsweredFor(c, Tail(s)) \subseteq AnsweredFor(c, s)
           /\ AnsweredOnce(c, s) => AnsweredOnce(c, Tail(s))
           /\ (AnsweredOnce(c, s) /\ 1 \in AnswersFor(c, s))
                  => AnsweredFor(c, Tail(s)) = AnsweredFor(c, s) \ {Head(s).id}
           /\ 1 \notin AnswersFor(c, s) => AnsweredFor(c, Tail(s)) = AnsweredFor(c, s)
           /\ 1 \in AnswersFor(c, s) => Head(s).id \in AnsweredFor(c, s)
<1> DEFINE t == Tail(s)
<1>1. /\ DOMAIN s = 1..Len(s) /\ Len(s) \in Nat /\ Len(s) >= 1 /\ DOMAIN t = 1..(Len(s) - 1)
      /\ \A i \in 1..(Len(s) - 1) : t[i] = s[i + 1]
      /\ Head(s) = s[1]
  OBVIOUS
<1> HIDE DEF t
<1>2. \A i \in AnswersFor(c, t) : i + 1 \in AnswersFor(c, s) /\ t[i] = s[i + 1]
                                  /\ i \in Nat /\ i + 1 # 1
  BY <1>1 DEF AnswersFor
<1>3. \A i \in AnswersFor(c, s) : i # 1 => i - 1 \in AnswersFor(c, t) /\ t[i - 1] = s[i]
  BY <1>1 DEF AnswersFor
<1>4. ASSUME NEW x \in AnsweredFor(c, t)
      PROVE  \E i \in AnswersFor(c, s) : i # 1 /\ x = s[i].id
  <2>1. PICK i \in AnswersFor(c, t) : x = t[i].id
    BY <1>4 DEF AnsweredFor
  <2> QED BY <1>2, <2>1
<1>5. ASSUME NEW i \in AnswersFor(c, s), i # 1 PROVE s[i].id \in AnsweredFor(c, t)
  BY <1>3, <1>5 DEF AnsweredFor
<1>6. AnsweredFor(c, t) \subseteq AnsweredFor(c, s)
  BY <1>4 DEF AnsweredFor
<1>7. AnsweredOnce(c, s) => AnsweredOnce(c, t)
  <2>1. SUFFICES ASSUME AnsweredOnce(c, s), NEW i \in AnswersFor(c, t),
                        NEW j \in AnswersFor(c, t), t[i].id = t[j].id
                 PROVE  i = j
    BY DEF AnsweredOnce
  <2>2. i + 1 = j + 1
    BY <1>2, <2>1 DEF AnsweredOnce
  <2> QED BY <1>2, <2>2
<1>8. ASSUME AnsweredOnce(c, s), 1 \in AnswersFor(c, s)
      PROVE  AnsweredFor(c, t) = AnsweredFor(c, s) \ {s[1].id}
  <2>1. ASSUME NEW x \in AnsweredFor(c, t) PROVE x # s[1].id
    <3>1. PICK i \in AnswersFor(c, s) : i # 1 /\ x = s[i].id
      BY <1>4
    <3> QED BY <1>8, <3>1 DEF AnsweredOnce
  <2>2. ASSUME NEW x \in AnsweredFor(c, s), x # s[1].id PROVE x \in AnsweredFor(c, t)
    <3>1. PICK i \in AnswersFor(c, s) : x = s[i].id
      BY DEF AnsweredFor
    <3>2. i # 1
      BY <2>2, <3>1
    <3> QED BY <1>5, <3>1, <3>2
  <2> QED BY <1>6, <2>1, <2>2
<1>9. ASSUME 1 \notin AnswersFor(c, s) PROVE AnsweredFor(c, t) = AnsweredFor(c, s)
  <2>1. ASSUME NEW x \in AnsweredFor(c, s) PROVE x \in AnsweredFor(c, t)
    <3>1. PICK i \in AnswersFor(c, s) : x = s[i].id
      BY DEF AnsweredFor
    <3> QED BY <1>5, <1>9, <3>1
  <2> QED BY <1>6, <2>1
<1> QED
  BY <1>1, <1>6, <1>7, <1>8, <1>9 DEF t, AnsweredFor

-----------------------------------------------------------------------------
(* Every action that is somewhere has been received in its conversation.   *)

PlacesKnown ==
    \A c \in Conversations :
        PreprocessingIds(c) \cup Elems(pending[c]) \cup running[c].ids \cup FinishedIds(c)
            \subseteq received[c]

EventsKnown(queue) == \A d \in Conversations : AnsweredFor(d, queue) \subseteq received[d]

ExecsKnown(execs) ==
    \A a \in ActionIds : execs[a] \in Conversations => a \in received[execs[a]]

\* The inductive invariant; it needs the types.
KnownInv == PlacesKnown /\ EventsKnown(effects) /\ ExecsKnown(executing)

\* Committing a view keeps all actions known if the handler took known ones.
LEMMA CommitKnown ==
    ASSUME NEW E, Extends(E), ModelTypeOK, KnownInv, NEW c \in Conversations,
           NEW Q, NEW R, NEW F, Q \cup R \cup F \subseteq received[c],
           NEW v \in FramedView(c, Q, R, F),
           NEW queue \in Seq(E), EventsKnown(queue), NEW execs, ExecsKnown(execs),
           Commit(c, v, queue, execs), UNCHANGED received,
           \A d \in Conversations : PreprocessingIds(d)' \subseteq PreprocessingIds(d)
    PROVE  KnownInv'
<1>1. v \in View /\ Framed(c, Q, R, F, v) /\ v.events \in Seq(E)
  BY EventsAreEffects DEF FramedView, View
<1>2. PlacesKnown'
  <2>1. ASSUME NEW d \in Conversations
        PROVE  Elems(pending[d])' \cup running[d].ids' \cup FinishedIds(d)' \subseteq received[d]
    <3>1. CASE d = c
      <4>1. /\ pending'[d] = v.pending /\ running'[d] = v.running
            /\ finished'[d] = v.finished
        BY <3>1 DEF Commit, ModelTypeOK
      <4>2. FinishedIds(d)' = IdsOf(v.finished) /\ Elems(pending[d])' = Elems(v.pending)
        BY <4>1 DEF FinishedIds, IdsOf
      <4> QED BY <1>1, <3>1, <4>1, <4>2 DEF Framed
    <3>2. CASE d # c
      <4>1. /\ pending'[d] = pending[d] /\ running'[d] = running[d]
            /\ finished'[d] = finished[d]
        BY <3>2 DEF Commit, ModelTypeOK
      <4>2. FinishedIds(d)' = FinishedIds(d) /\ Elems(pending[d])' = Elems(pending[d])
        BY <4>1 DEF FinishedIds
      <4> QED BY <4>1, <4>2 DEF KnownInv, PlacesKnown
    <3> QED BY <3>1, <3>2
  <2> QED BY <2>1 DEF KnownInv, PlacesKnown
<1>3. EventsKnown(effects)'
  <2>1. effects' = queue \o v.events
    BY DEF Commit
  <2>2. ASSUME NEW d \in Conversations PROVE AnsweredFor(d, queue \o v.events) \subseteq received[d]
    <3>1. AnsweredFor(d, queue \o v.events) = AnsweredFor(d, queue) \cup AnsweredFor(d, v.events)
      BY <1>1, AnswersForConcat
    <3>2. AnsweredFor(d, v.events) \subseteq received[d]
      <4>1. AnsweredFor(c, v.events) \subseteq Q
        BY AnswersForView
      <4>2. d # c => AnsweredFor(d, v.events) = {}
        BY AnswersForView
      <4> QED BY <4>1, <4>2
    <3> QED BY <3>1, <3>2 DEF EventsKnown
  <2> QED BY <2>1, <2>2 DEF EventsKnown
<1>4. ExecsKnown(executing)'
  BY <1>1 DEF Commit, Framed, ExecsKnown
<1> QED
  BY <1>2, <1>3, <1>4 DEF KnownInv

\* What preprocessing releases was in it, and what stays was too.
LEMMA ReleasedKnown ==
    ASSUME ModelTypeOK, NEW c \in Conversations, NEW b \in ActionIds, BatchResolves(c, b)
    PROVE  /\ Elems([i \in 1..Releasable(Completed(c, b)) |-> Completed(c, b)[i].id])
                \subseteq PreprocessingIds(c)
           /\ \A d \in Conversations : PreprocessingIds(d)' \subseteq PreprocessingIds(d)
<1> DEFINE es == Completed(c, b)
           n == Releasable(es)
           released == [i \in 1..n |-> es[i].id]
           rest == DropFirst(es, n)
<1>1. preprocessing[c] \in Seq(Entry) /\ preprocessing' = [preprocessing EXCEPT ![c] = rest]
  BY DEF ModelTypeOK, BatchResolves
<1>2. /\ es \in Seq(Entry) /\ DOMAIN es = DOMAIN preprocessing[c]
      /\ \A i \in DOMAIN es : es[i].id = preprocessing[c][i].id
  <2>1. DOMAIN es = DOMAIN preprocessing[c]
    BY DEF Completed
  <2>2. \A i \in DOMAIN preprocessing[c] :
            es[i] = [preprocessing[c][i] EXCEPT !.done = @ \/ preprocessing[c][i].batch = b]
    BY DEF Completed
  <2>3. ASSUME NEW i \in DOMAIN preprocessing[c]
        PROVE  es[i] \in Entry /\ es[i].id = preprocessing[c][i].id
    <3> DEFINE e == preprocessing[c][i]
               d == e.done \/ e.batch = b
    <3>1. e \in Entry /\ d \in BOOLEAN
      BY <1>1
    <3>2. es[i] = [e EXCEPT !.done = d]
      BY <2>2
    <3> HIDE DEF e, d, es
    <3>3. es[i] \in Entry /\ es[i].id = e.id
      BY <3>1, <3>2 DEF Entry
    <3> QED BY <3>3 DEF e
  <2>4. es = [i \in DOMAIN preprocessing[c] |-> es[i]]
    BY DEF Completed
  <2> HIDE DEF es
  <2>5. es \in [DOMAIN preprocessing[c] -> Entry]
    BY <2>3, <2>4
  <2>6. DOMAIN preprocessing[c] = 1..Len(preprocessing[c]) /\ Len(preprocessing[c]) \in Nat
    BY <1>1
  <2> HIDE DEF released, rest, n
  <2>7. es \in Seq(Entry)
    BY <2>5, <2>6
  <2> QED BY <2>1, <2>3, <2>7
<1> HIDE DEF es
<1>3. n \in 0..Len(es) /\ DOMAIN es = 1..Len(es) /\ Len(es) \in Nat
  <2>1. Len(es) \in Nat
    BY <1>2
  <2> QED BY <1>2, <2>1, PrefixLenProperties DEF Releasable
<1> HIDE DEF n
<1>4. Elems(released) \subseteq PreprocessingIds(c)
  <2>1. \A i \in 1..n : i \in DOMAIN preprocessing[c] /\ released[i] = preprocessing[c][i].id
    BY <1>2, <1>3
  <2>2. DOMAIN released = 1..n
    OBVIOUS
  <2> HIDE DEF released
  <2> QED BY <2>1, <2>2 DEF Elems, PreprocessingIds
<1>5. ASSUME NEW d \in Conversations PROVE PreprocessingIds(d)' \subseteq PreprocessingIds(d)
  <2>1. CASE d = c
    <3>1. preprocessing'[d] = rest
      BY <1>1, <2>1 DEF ModelTypeOK
    <3>2. /\ DOMAIN rest = 1..(Len(es) - n)
          /\ \A i \in 1..(Len(es) - n) : rest[i] = es[n + i]
      BY <1>2, <1>3, PrefixElems
    <3> HIDE DEF rest
    <3>3. \A i \in DOMAIN rest : /\ n + i \in DOMAIN preprocessing[c]
                                 /\ rest[i].id = preprocessing[c][n + i].id
      BY <1>2, <1>3, <3>2
    <3> QED BY <2>1, <3>1, <3>3 DEF PreprocessingIds
  <2>2. CASE d # c
    BY <1>1, <2>2 DEF ModelTypeOK, PreprocessingIds
  <2> QED BY <2>1, <2>2
<1> QED
  BY <1>4, <1>5 DEF es, n

\* What is executing is so in one conversation, and listed.
LEMMA ListedKnown ==
    ASSUME NEW c \in Conversations, NEW listed \in Orderings(ExecutingIn(c))
    PROVE  /\ listed \in Seq(ActionIds)
           /\ Elems(listed) \subseteq ExecutingIn(c)
           /\ Injective(listed)
<1>1. IsFiniteSet(ExecutingIn(c)) /\ ExecutingIn(c) \subseteq ActionIds
  BY ActionIdsAssumption, FS_Subset DEF ExecutingIn
<1>2. listed \in Seq(ActionIds)
  BY <1>1, OrderingsType
<1>3. listed \in [1..Cardinality(ExecutingIn(c)) -> ExecutingIn(c)] /\ Injective(listed)
  BY DEF Orderings
<1> QED
  BY <1>2, <1>3 DEF Elems

\* A state of this module, or of one that extends it, in which all actions are known.
KnownState(E) == Extends(E) /\ ModelTypeOK /\ effects \in Seq(E) /\ KnownInv

\* queue_actions: the actions of the output are now received.
LEMMA QueueActionsKnown ==
    ASSUME NEW E, KnownState(E), NEW c \in Conversations, NEW output \in Outputs[c],
           QueueActions(c, output)
    PROVE  KnownInv'
<1>1. output \in Seq(ActionIds) /\ output # <<>>
  BY OutputsAssumption
<1>2. /\ received' = [received EXCEPT ![c] = @ \cup Elems(output)]
      /\ preprocessing' = [preprocessing EXCEPT ![c] = @ \o Tagged(output)]
      /\ UNCHANGED <<pending, running, executing, finished, effects>>
  BY DEF QueueActions
<1>3. \A d \in Conversations : received[d] \subseteq received'[d]
  BY <1>2 DEF KnownState, ModelTypeOK
<1>4. ASSUME NEW d \in Conversations PROVE PreprocessingIds(d)' \subseteq received'[d]
  <2>1. CASE d = c
    <3> DEFINE s == preprocessing[c]
               t == Tagged(output)
    <3>1. /\ DOMAIN t = 1..Len(output) /\ Len(output) \in Nat /\ t \in Seq(Entry)
          /\ \A i \in 1..Len(output) : t[i].id = output[i]
      <4>1. \A i \in 1..Len(output) :
                [id |-> output[i], batch |-> output[1], done |-> FALSE] \in Entry
        BY <1>1 DEF Entry
      <4> QED BY <1>1, <4>1 DEF Tagged
    <3>2. s \in Seq(Entry)
      BY DEF KnownState, ModelTypeOK
    <3>3. preprocessing'[d] = s \o t /\ received'[d] = received[c] \cup Elems(output)
      BY <1>2, <2>1 DEF KnownState, ModelTypeOK
    <3> HIDE DEF s, t
    <3>4. /\ DOMAIN (s \o t) = 1..(Len(s) + Len(t)) /\ Len(s) \in Nat /\ Len(t) = Len(output)
          /\ DOMAIN s = 1..Len(s)
          /\ \A i \in 1..Len(s) : (s \o t)[i] = s[i]
          /\ \A i \in 1..Len(t) : (s \o t)[Len(s) + i] = t[i]
      BY <3>1, <3>2
    <3>5. \A i \in 1..Len(s) : s[i].id \in received[c]
      <4>1. \A i \in DOMAIN s : s[i].id \in PreprocessingIds(c)
        BY DEF PreprocessingIds, s
      <4> QED BY <3>4, <4>1 DEF KnownState, KnownInv, PlacesKnown
    <3>6. \A i \in 1..Len(output) : t[i].id \in Elems(output)
      BY <1>1, <3>1 DEF Elems
    <3>7. ASSUME NEW i \in DOMAIN (s \o t) PROVE (s \o t)[i].id \in received'[d]
      <4>1. CASE i <= Len(s)
        BY <3>3, <3>4, <3>5, <3>7, <4>1
      <4>2. CASE i > Len(s)
        <5>1. i - Len(s) \in 1..Len(t) /\ Len(s) + (i - Len(s)) = i
          BY <3>1, <3>4, <3>7, <4>2
        <5>2. (s \o t)[i] = t[i - Len(s)]
          BY <3>4, <5>1
        <5> QED BY <3>3, <3>4, <3>6, <5>1, <5>2
      <4> QED BY <3>1, <3>4, <3>7, <4>1, <4>2
    <3> QED BY <3>3, <3>7 DEF PreprocessingIds
  <2>2. CASE d # c
    <3>1. preprocessing'[d] = preprocessing[d]
      BY <1>2, <2>2 DEF KnownState, ModelTypeOK
    <3>2. PreprocessingIds(d)' = PreprocessingIds(d)
      BY <3>1 DEF PreprocessingIds
    <3> QED BY <1>3, <3>2 DEF KnownState, KnownInv, PlacesKnown
  <2> QED BY <2>1, <2>2
<1>5. PlacesKnown'
  <2>1. \A d \in Conversations : FinishedIds(d)' = FinishedIds(d)
    BY <1>2 DEF FinishedIds
  <2> QED BY <1>2, <1>3, <1>4, <2>1 DEF KnownState, KnownInv, PlacesKnown
<1>6. EventsKnown(effects)' /\ ExecsKnown(executing)'
  BY <1>2, <1>3 DEF KnownState, KnownInv, EventsKnown, ExecsKnown
<1> QED
  BY <1>5, <1>6 DEF KnownInv

\* handle_preprocess_actions_results takes actions from the preprocessing queue.
LEMMA PreprocessActionsResultsKnown ==
    ASSUME NEW E, KnownState(E), NEW c \in Conversations, NEW b \in ActionIds,
           PreprocessActionsResults(c, b)
    PROVE  KnownInv'
<1> DEFINE released == [i \in 1..Releasable(Completed(c, b)) |-> Completed(c, b)[i].id]
<1>1. released \in Seq(ActionIds)
  BY ReleasedType DEF KnownState
<1>2. /\ Elems(released) \subseteq PreprocessingIds(c)
      /\ \A d \in Conversations : PreprocessingIds(d)' \subseteq PreprocessingIds(d)
  BY ReleasedKnown DEF KnownState, PreprocessActionsResults
<1>3. Commit(c, Enqueue(c, released), effects, executing) /\ UNCHANGED received
  BY DEF PreprocessActionsResults
<1> HIDE DEF released
<1> DEFINE Q == Elems(pending[c]) \cup Elems(released)
<1>4. Enqueue(c, released) \in FramedView(c, Q, running[c].ids, FinishedIds(c))
  BY <1>1, EnqueueFramed DEF KnownState
<1>5. Q \cup running[c].ids \cup FinishedIds(c) \subseteq received[c]
  BY <1>2 DEF KnownState, KnownInv, PlacesKnown
<1> HIDE DEF Q
<1> QED
  BY <1>2, <1>3, <1>4, <1>5, CommitKnown DEF KnownState, KnownInv

\* The same for handlers that take from the queue of c or record an action of it.
LEMMA CommitOwnKnown ==
    ASSUME NEW E, KnownState(E), NEW c \in Conversations,
           NEW Q, NEW R, NEW F,
           Q \cup R \cup F
               \subseteq Elems(pending[c]) \cup running[c].ids \cup FinishedIds(c)
                             \cup AnsweredFor(c, effects),
           NEW v \in FramedView(c, Q, R, F),
           NEW queue \in Seq(E), EventsKnown(queue), NEW execs, ExecsKnown(execs),
           Commit(c, v, queue, execs), UNCHANGED <<preprocessing, received>>
    PROVE  KnownInv'
<1>1. Q \cup R \cup F \subseteq received[c]
  BY DEF KnownState, KnownInv, PlacesKnown, EventsKnown
<1>2. \A d \in Conversations : PreprocessingIds(d)' \subseteq PreprocessingIds(d)
  BY DEF PreprocessingIds
<1> QED
  BY <1>1, <1>2, CommitKnown DEF KnownState

\* execute_action takes a pending action.
LEMMA ExecuteActionKnown ==
    ASSUME NEW E, KnownState(E), NEW c \in Conversations, NEW a, ExecuteAction(c, a)
    PROVE  KnownInv'
<1> DEFINE v == StartForUser(c, ViewOf(c), a)
<1>1. a \in Elems(pending[c])
  BY DEF ExecuteAction, MayStartForUser
<1>2. Commit(c, v, effects, executing) /\ UNCHANGED <<preprocessing, received>>
  BY DEF ExecuteAction
<1>3. v \in FramedView(c, Elems(pending[c]), running[c].ids, FinishedIds(c))
  BY <1>1, StartForUserFramed DEF KnownState
<1> HIDE DEF v
<1> QED
  BY <1>2, <1>3, CommitOwnKnown DEF KnownState, KnownInv

\* The result of a pending action, which is denied or cancelled.
LEMMA HandlePendingKnown ==
    ASSUME NEW E, KnownState(E), NEW c \in Conversations, NEW a \in Elems(pending[c]),
           NEW res \in Results, NEW reason \in Reasons \cup {NoReason},
           Commit(c, HandleResult(c, WithoutPending(c, a), a, res, reason),
                  effects, executing),
           UNCHANGED <<preprocessing, received>>
    PROVE  KnownInv'
<1> DEFINE v == HandleResult(c, WithoutPending(c, a), a, res, reason)
           Q == Elems(pending[c])
<1>1. /\ WithoutPending(c, a) \in FramedView(c, Q, running[c].ids, FinishedIds(c))
      /\ WithoutPending(c, a).started = {} /\ a \in ActionIds
  BY WithoutPendingFramed DEF KnownState
<1>2. v \in FramedView(c, Q, running[c].ids \ {a}, FinishedIds(c))
  BY <1>1, HandleResultFramed DEF KnownState
<1> HIDE DEF v
<1> QED
  BY <1>2, CommitOwnKnown DEF KnownState, KnownInv, v

\* cancel_action_with_id cancels a running or a pending action.
LEMMA CancelActionWithIdKnown ==
    ASSUME NEW E, KnownState(E), NEW c \in Conversations, NEW a \in ActionIds,
           NEW reason \in Reasons, CancelActionWithId(c, a, reason)
    PROVE  KnownInv'
<1>1. UNCHANGED <<preprocessing, received>>
  BY DEF CancelActionWithId
<1>2. CASE CancelRunning(c, a, reason)
           /\ UNCHANGED <<pending, running, finished, status, futures>>
  <2> DEFINE d == executing[a]
             e == ExecutorFinished(d, a, "Cancelled", reason)
  <2>1. /\ d # NoConv /\ executing' = [executing EXCEPT ![a] = NoConv]
        /\ effects' = Append(effects, e)
    BY <1>2 DEF CancelRunning
  <2>2. d \in Conversations /\ a \in received[d]
    BY <2>1 DEF KnownState, KnownInv, ExecsKnown, ModelTypeOK
  <2>3. e \in Event
    BY <2>2, ExecutorFinishedType DEF Results
  <2>4. <<e>> \in Seq(E) /\ effects \in Seq(E) /\ Append(effects, e) = effects \o <<e>>
    BY <2>3 DEF KnownState, Extends
  <2>5. \A x : AnsweredFor(x, <<e>>) = IF x = d THEN {a} ELSE {}
    BY AnswersForOne
  <2> HIDE DEF e, d
  <2>6. \A x : AnsweredFor(x, effects \o <<e>>) = AnsweredFor(x, effects) \cup AnsweredFor(x, <<e>>)
    <3> DEFINE t == <<e>>
    <3>1. t \in Seq(E) /\ effects \in Seq(E)
      BY <2>4
    <3> HIDE DEF t
    <3>2. \A x : AnsweredFor(x, effects \o t) = AnsweredFor(x, effects) \cup AnsweredFor(x, t)
      BY <3>1, AnswersForConcat
    <3> QED BY <3>2 DEF t
  <2>7. EventsKnown(effects)'
    BY <1>1, <2>1, <2>2, <2>4, <2>5, <2>6 DEF KnownState, KnownInv, EventsKnown
  <2>8. ExecsKnown(executing)'
    BY <1>1, <2>1, NoConvAssumption DEF KnownState, KnownInv, ExecsKnown, ModelTypeOK
  <2>9. PlacesKnown'
    BY <1>1, <1>2 DEF KnownState, KnownInv, PlacesKnown, PreprocessingIds, FinishedIds
  <2> QED BY <2>7, <2>8, <2>9 DEF KnownInv
<1>3. CASE /\ a \in Elems(pending[c])
           /\ Commit(c, HandleResult(c, WithoutPending(c, a), a, "Cancelled", reason),
                     effects, executing)
  BY <1>1, <1>3, HandlePendingKnown DEF Results
<1> QED
  BY <1>2, <1>3 DEF CancelActionWithId

\* What is executing outside some conversations is known if all is.
LEMMA ExecutingOutsideKnown ==
    ASSUME ExecsKnown(executing), NEW D PROVE ExecsKnown(ExecutingOutside(D))
BY NoConvAssumption DEF ExecsKnown, ExecutingOutside

\* The cancelled results of the running actions of c are known.
LEMMA CancelledEventsKnown ==
    ASSUME NEW E, KnownState(E), NEW c \in Conversations, NEW queue \in Seq(E),
           EventsKnown(queue),
           NEW listed \in Orderings(ExecutingIn(c)), NEW reason \in Reasons
    PROVE  /\ queue \o CancelledEvents(c, listed, reason) \in Seq(E)
           /\ EventsKnown(queue \o CancelledEvents(c, listed, reason))
<1> DEFINE t == CancelledEvents(c, listed, reason)
<1>1. listed \in Seq(ActionIds) /\ Elems(listed) \subseteq ExecutingIn(c)
  BY ListedKnown
<1>2. t \in Seq(E)
  BY <1>1, CancelledEventsType, EventsAreEffects DEF KnownState
<1>3. \A d : AnsweredFor(d, t) = IF d = c THEN Elems(listed) ELSE {}
  BY AnswersForCancelled
<1>4. ExecutingIn(c) \subseteq received[c]
  BY DEF ExecutingIn, KnownState, KnownInv, ExecsKnown
<1> HIDE DEF t
<1>5. \A d : AnsweredFor(d, queue \o t) = AnsweredFor(d, queue) \cup AnsweredFor(d, t)
  BY <1>2, AnswersForConcat
<1>6. EventsKnown(queue \o t)
  BY <1>1, <1>3, <1>4, <1>5 DEF EventsKnown
<1> QED
  BY <1>2, <1>6 DEF t

\* cancel_all_pending_actions finishes what is queued or running.
LEMMA CancelAllPendingActionsKnown ==
    ASSUME NEW E, KnownState(E), NEW c \in Conversations, NEW reason \in Reasons,
           CancelAllPendingActions(c, reason)
    PROVE  KnownInv'
<1> DEFINE v == CancelPending(c, ViewOf(c), reason)
<1>1. UNCHANGED <<preprocessing, received>>
  BY DEF CancelAllPendingActions
<1>2. PICK listed \in Orderings(ExecutingIn(c)) :
          Commit(c, v, effects \o CancelledEvents(c, listed, reason), ExecutingOutside({c}))
  BY DEF CancelAllPendingActions, CancelAll
<1>3. v \in FramedView(c, {}, running[c].ids, FinishedIds(c) \cup Elems(pending[c]))
  BY CancelPendingFramed DEF KnownState
<1>4. /\ effects \o CancelledEvents(c, listed, reason) \in Seq(E)
      /\ EventsKnown(effects \o CancelledEvents(c, listed, reason))
  BY CancelledEventsKnown DEF KnownState, KnownInv
<1>5. ExecsKnown(ExecutingOutside({c}))
  BY ExecutingOutsideKnown DEF KnownState, KnownInv
<1> HIDE DEF v
<1> QED
  BY <1>1, <1>2, <1>3, <1>4, <1>5, CommitOwnKnown

\* The callback of an execution future announces a result.
LEMMA CompleteAsyncKnown ==
    ASSUME NEW E, KnownState(E), NEW c \in Conversations, NEW a \in ActionIds,
           CompleteAsync(c, a)
    PROVE  KnownInv'
<1>1. PICK res \in Results : FutureResolves(c, a, res)
  BY DEF CompleteAsync, Results
<1>2. UNCHANGED <<preprocessing, pending, running, finished, received>>
  BY DEF CompleteAsync
<1>3. PlacesKnown'
  BY <1>2 DEF KnownState, KnownInv, PlacesKnown, PreprocessingIds, FinishedIds
<1>4. CASE executing[a] = NoConv
  BY <1>1, <1>2, <1>3, <1>4 DEF FutureResolves, KnownState, KnownInv, EventsKnown, ExecsKnown
<1>5. CASE executing[a] # NoConv
  <2> DEFINE d == executing[a]
             t == <<ExecutorFinished(d, a, res, NoReason)>>
  <2>1. /\ executing' = [executing EXCEPT ![a] = NoConv]
        /\ effects' = Append(effects, ExecutorFinished(d, a, res, NoReason))
    BY <1>1, <1>5 DEF FutureResolves
  <2>2. d \in Conversations /\ a \in received[d]
    BY <1>5 DEF KnownState, KnownInv, ExecsKnown, ModelTypeOK
  <2>3. t \in Seq(E) /\ effects \in Seq(E) /\ effects' = effects \o t
    <3>1. ExecutorFinished(d, a, res, NoReason) \in E
      BY <2>2, ExecutorFinishedType DEF KnownState, Extends
    <3> QED BY <2>1, <3>1 DEF KnownState
  <2>4. \A x : AnsweredFor(x, t) = IF x = d THEN {a} ELSE {}
    BY AnswersForOne
  <2> HIDE DEF t, d
  <2>5. \A x : AnsweredFor(x, effects \o t) = AnsweredFor(x, effects) \cup AnsweredFor(x, t)
    BY <2>3, AnswersForConcat
  <2>6. EventsKnown(effects)'
    BY <1>2, <2>2, <2>3, <2>4, <2>5 DEF KnownState, KnownInv, EventsKnown
  <2>7. ExecsKnown(executing)'
    BY <1>2, <2>1, NoConvAssumption DEF KnownState, KnownInv, ExecsKnown, ModelTypeOK
  <2> QED BY <1>3, <2>6, <2>7 DEF KnownInv
<1> QED
  BY <1>4, <1>5

\* The first event, once it is delivered, is no longer announced.
LEMMA TailKnown ==
    ASSUME NEW E, KnownState(E), ~Idle
    PROVE  Tail(effects) \in Seq(E) /\ EventsKnown(Tail(effects))
<1>1. effects \in Seq(E) /\ effects # <<>>
  BY DEF KnownState, Idle
<1>2. \A d : AnsweredFor(d, Tail(effects)) \subseteq AnsweredFor(d, effects)
  BY <1>1, AnswersForTail
<1> QED
  BY <1>1, <1>2 DEF KnownState, KnownInv, EventsKnown

\* The head of the effects, when it is a result of the executor.
LEMMA HeadIsAnswer ==
    ASSUME NEW E, Extends(E), effects \in Seq(E), effects # <<>>,
           Head(effects).type = "ExecutorFinished"
    PROVE  LET e == Head(effects)
           IN  /\ e.conv \in Conversations /\ e.id \in ActionIds /\ e.res \in Results
               /\ e.reason \in Reasons \cup {NoReason}
               /\ 1 \in AnswersFor(e.conv, effects)
               /\ \A d : d # e.conv => 1 \notin AnswersFor(d, effects)
               /\ e.id \in AnsweredFor(e.conv, effects)
<1> DEFINE e == Head(effects)
<1>1. e.type = "ExecutorFinished" /\ e = effects[1] /\ 1 \in DOMAIN effects
  OBVIOUS
<1>2. /\ e.conv \in Conversations /\ e.id \in ActionIds /\ e.res \in Results
      /\ e.reason \in Reasons \cup {NoReason}
  BY HeadIsResult
<1> HIDE DEF e
<1> QED
  BY <1>1, <1>2 DEF AnswersFor, AnsweredFor, e

\* Delivering a result to the action model finishes its action.
LEMMA DeliverExecutorFinishedKnown ==
    ASSUME NEW E, KnownState(E), DeliverExecutorFinished
    PROVE  KnownInv'
<1> DEFINE e == Head(effects)
           c == e.conv
           a == e.id
           v == HandleResult(c, ViewOf(c), a, e.res, e.reason)
           Q == Elems(pending[c])
           F == FinishedIds(c) \cup {a}
<1>1. /\ ~Idle /\ e.type = "ExecutorFinished"
      /\ Commit(c, v, Tail(effects), executing) /\ UNCHANGED <<preprocessing, received>>
  BY DEF DeliverExecutorFinished
<1>2. /\ c \in Conversations /\ a \in ActionIds /\ e.res \in Results
      /\ e.reason \in Reasons \cup {NoReason} /\ a \in AnsweredFor(c, effects)
  BY <1>1, HeadIsAnswer DEF KnownState, Idle
<1>3. Tail(effects) \in Seq(E) /\ EventsKnown(Tail(effects))
  BY <1>1, TailKnown
<1> HIDE DEF e, c, a
<1>4. ViewOf(c) \in FramedView(c, Q, running[c].ids, FinishedIds(c)) /\ ViewOf(c).started = {}
  BY <1>2, ViewOfFramed DEF KnownState
<1>5. ViewOf(c) \in FramedView(c, Q, running[c].ids, F)
  BY <1>4 DEF FramedView, Framed
<1>6. v \in FramedView(c, Q, running[c].ids \ {a}, F)
  BY <1>2, <1>4, <1>5, HandleResultFramed DEF KnownState
<1> HIDE DEF v
<1>7. Q \cup (running[c].ids \ {a}) \cup F
          \subseteq Elems(pending[c]) \cup running[c].ids \cup FinishedIds(c)
                        \cup AnsweredFor(c, effects)
  BY <1>2
<1> HIDE DEF Q, F
<1>8. ExecsKnown(executing)
  BY DEF KnownState, KnownInv
<1> QED
  BY <1>1, <1>2, <1>3, <1>6, <1>7, <1>8, CommitOwnKnown

\* Forgetting the finished actions of some conversations, and delivering an event
\* that is not the executor's, leaves the others known.
LEMMA FewerKnown ==
    ASSUME NEW E, KnownState(E), UNCHANGED <<preprocessing, running, received>>,
           \A d \in Conversations : /\ Elems(pending[d])' \subseteq Elems(pending[d])
                                    /\ FinishedIds(d)' \subseteq FinishedIds(d) \cup Elems(pending[d]),
           EventsKnown(effects'), ExecsKnown(executing')
    PROVE  KnownInv'
<1>1. PlacesKnown'
  BY DEF KnownState, KnownInv, PlacesKnown, PreprocessingIds
<1> QED
  BY <1>1 DEF KnownInv, EventsKnown, ExecsKnown

\* Without results there are no finished actions.
LEMMA NoneFinished ==
    ASSUME NEW c, finished'[c] = <<>> PROVE FinishedIds(c)' = {}
BY DEF FinishedIds

\* The controller's reaction to a finished action drains results or not.
LEMMA DeliverFinishedKnown ==
    ASSUME NEW E, KnownState(E), DeliverFinished
    PROVE  KnownInv'
<1> DEFINE c == Head(effects).conv
<1>1. /\ DrainFinished(c) \/ UNCHANGED <<order, finished, past>>
      /\ effects' = Tail(effects)
      /\ UNCHANGED <<preprocessing, pending, running, executing, received>>
  BY DEF DeliverFinished
<1>2. EventsKnown(effects') /\ ExecsKnown(executing')
  BY <1>1, TailKnown DEF DeliverFinished, KnownState, KnownInv
<1>3. \A d \in Conversations : finished'[d] = finished[d] \/ finished'[d] = <<>>
  BY <1>1 DEF DrainFinished, KnownState, ModelTypeOK
<1>4. \A d \in Conversations : FinishedIds(d)' \subseteq FinishedIds(d)
  BY <1>3 DEF FinishedIds
<1> QED
  BY <1>1, <1>2, <1>4, FewerKnown

\* Cancelling and draining for a new query leaves nothing queued or finished.
LEMMA CancelAndDrainKnown ==
    ASSUME NEW E, KnownState(E), NEW c \in Conversations, NEW reason \in Reasons,
           CancelAndDrain(c, reason)
    PROVE  KnownInv'
<1> DEFINE v == CancelPending(c, ViewOf(c), reason)
<1>1. PICK listed \in Orderings(ExecutingIn(c)) :
          effects' = effects \o CancelledEvents(c, listed, reason) \o v.events
  BY DEF CancelAndDrain
<1>2. /\ pending' = [pending EXCEPT ![c] = v.pending]
      /\ finished' = [finished EXCEPT ![c] = <<>>]
      /\ executing' = ExecutingOutside({c})
      /\ UNCHANGED <<preprocessing, running, received>>
  BY DEF CancelAndDrain
<1>3. v \in FramedView(c, {}, running[c].ids, FinishedIds(c) \cup Elems(pending[c]))
  BY CancelPendingFramed DEF KnownState
<1> HIDE DEF v
<1> DEFINE queue == effects \o CancelledEvents(c, listed, reason)
<1>4. queue \in Seq(E) /\ EventsKnown(queue)
  BY CancelledEventsKnown DEF KnownState, KnownInv
<1>5. effects' = queue \o v.events
  BY <1>1
<1> HIDE DEF queue
<1>6. v.events \in Seq(E) /\ Elems(v.pending) \subseteq {}
  BY <1>3, EventsAreEffects DEF FramedView, View, Framed, KnownState
<1>7. \A d : AnsweredFor(d, v.events) \subseteq {}
  BY <1>3, AnswersForView
<1>8. \A d : AnsweredFor(d, queue \o v.events) = AnsweredFor(d, queue) \cup AnsweredFor(d, v.events)
  BY <1>4, <1>6, AnswersForConcat
<1>9. EventsKnown(effects')
  BY <1>2, <1>4, <1>5, <1>7, <1>8 DEF EventsKnown
<1>10. ExecsKnown(executing')
  BY <1>2, ExecutingOutsideKnown DEF KnownState, KnownInv
<1>11. \A d \in Conversations : Elems(pending[d])' \subseteq Elems(pending[d])
  BY <1>2, <1>6 DEF KnownState, ModelTypeOK
<1>12. \A d \in Conversations : FinishedIds(d)' \subseteq FinishedIds(d)
  BY <1>2, NoneFinished DEF FinishedIds, KnownState, ModelTypeOK
<1> QED
  BY <1>2, <1>9, <1>10, <1>11, <1>12, FewerKnown

\* clear_finished_action_results only forgets.
LEMMA ClearFinishedKnown ==
    ASSUME NEW E, KnownState(E), NEW c \in Conversations, ClearFinished(c)
    PROVE  KnownInv'
<1>1. /\ finished' = [finished EXCEPT ![c] = <<>>]
      /\ UNCHANGED <<preprocessing, pending, running, executing, effects, received>>
  BY DEF ClearFinished
<1>2. \A d \in Conversations : finished'[d] = finished[d] \/ finished'[d] = <<>>
  BY <1>1 DEF KnownState, ModelTypeOK
<1>3. \A d \in Conversations : FinishedIds(d)' \subseteq FinishedIds(d)
  BY <1>2 DEF FinishedIds
<1>4. EventsKnown(effects') /\ ExecsKnown(executing')
  BY <1>1 DEF KnownState, KnownInv
<1> QED
  BY <1>1, <1>3, <1>4, FewerKnown

\* The steps of a conversation keep all actions known: one case per action.
LEMMA ConversationKnown ==
    ASSUME NEW E, KnownState(E), NEW c \in Conversations, ConversationNext(c)
    PROVE  KnownInv'
<1>1. ASSUME NEW output \in Outputs[c], QueueActions(c, output) PROVE KnownInv'
  BY <1>1, QueueActionsKnown
<1>2. CASE ExecuteNextActionForUser(c)
  BY <1>2, ExecuteActionKnown DEF ExecuteNextActionForUser
<1>3. ASSUME NEW reason \in Reasons,
             CancelAllPendingActions(c, reason) \/ CancelAndDrain(c, reason)
      PROVE  KnownInv'
  BY <1>3, CancelAllPendingActionsKnown, CancelAndDrainKnown
<1>4. CASE ClearFinished(c)
  BY <1>4, ClearFinishedKnown
<1>5. ASSUME NEW a \in ActionIds, DenyRunAgents(c, a) PROVE KnownInv'
  <2>1. /\ a \in Elems(pending[c]) /\ UNCHANGED <<preprocessing, received>>
        /\ Commit(c, HandleResult(c, WithoutPending(c, a), a, "Completed", NoReason),
                  effects, executing)
    BY <1>5 DEF DenyRunAgents
  <2> QED BY <2>1, HandlePendingKnown DEF Results
<1>6. ASSUME NEW a \in ActionIds,
             \/ PreprocessActionsResults(c, a)
             \/ ExecuteAction(c, a)
             \/ \E reason \in Reasons : CancelActionWithId(c, a, reason)
             \/ CompleteAsync(c, a)
      PROVE  KnownInv'
  BY <1>6, PreprocessActionsResultsKnown, ExecuteActionKnown, CancelActionWithIdKnown,
     CompleteAsyncKnown
<1> QED
  BY <1>1, <1>2, <1>3, <1>4, <1>5, <1>6 DEF ConversationNext

\* What the settings are does not matter to what is known.
LEMMA UnchangedKnown ==
    ASSUME KnownInv, UNCHANGED <<preprocessing, pending, running, executing, finished,
                                 effects, received>>
    PROVE  KnownInv'
BY DEF KnownInv, PlacesKnown, EventsKnown, ExecsKnown, PreprocessingIds, FinishedIds

\* Every step keeps all actions known.
LEMMA KnownStep == TypeOK /\ KnownInv /\ [Next]_vars => KnownInv'
<1>1. SUFFICES ASSUME TypeOK, KnownInv, [Next]_vars PROVE KnownInv'
  OBVIOUS
<1>2. KnownState(Event)
  BY <1>1 DEF KnownState, Extends, TypeOK
<1>3. ASSUME NEW c \in Conversations, ConversationNext(c) PROVE KnownInv'
  BY <1>2, <1>3, ConversationKnown
<1>4. CASE ChangeSettings
  BY <1>1, <1>4, UnchangedKnown DEF ChangeSettings
<1>5. CASE DeliverExecutorFinished
  BY <1>2, <1>5, DeliverExecutorFinishedKnown
<1>6. CASE DeliverFinished
  BY <1>2, <1>6, DeliverFinishedKnown
<1>7. CASE UNCHANGED vars
  BY <1>1, <1>7, UnchangedKnown DEF vars
<1> QED
  BY <1>1, <1>3, <1>4, <1>5, <1>6, <1>7 DEF Next

\* Initially no action is anywhere.
LEMMA KnownInit == Init => KnownInv
<1>1. SUFFICES ASSUME Init PROVE KnownInv
  OBVIOUS
<1>2. \A c \in Conversations : /\ preprocessing[c] = <<>> /\ pending[c] = <<>>
                               /\ running[c].ids = {} /\ finished[c] = <<>>
  BY <1>1 DEF Init, NotRunning
<1>3. PlacesKnown
  BY <1>2 DEF PlacesKnown, PreprocessingIds, FinishedIds, Elems
<1>4. EventsKnown(effects)
  BY <1>1, AnswersForNone DEF Init, EventsKnown
<1>5. ExecsKnown(executing)
  BY <1>1, NoConvAssumption DEF Init, ExecsKnown
<1> QED
  BY <1>3, <1>4, <1>5 DEF KnownInv

-----------------------------------------------------------------------------
(* The order of the results, and the service of the queues.                *)

(***************************************************************************)
(* A handler that records a result, or that serves the queue, ends in a    *)
(* view whose queue is served, and in which the results are in order if    *)
(* they were when it began.                                                *)
(***************************************************************************)
SettledView(c, before) ==
    {v \in ExactView : ServedView(v) /\ (before => OrderedView(c, v))}

\* The results of c are in order, and its queue is served.
OrderedIn(c) == running[c].ids = {} => InOrder(c, finished[c])

ServedIn(c) ==
    (running[c].ids = {} /\ pending[c] # <<>>) => ~Executes(Head(pending[c]), FALSE)

ResultsOrderedInv == \A c \in Conversations : OrderedIn(c)

QueuesServedInv == \A c \in Conversations : ServedIn(c)

\* Recording a result settles a view.
LEMMA RecordResultSettles ==
    ASSUME ModelTypeOK, NEW c \in Conversations, NEW v \in ExactView, NEW a \in ActionIds,
           NEW res \in Results, NEW reason \in Reasons \cup {NoReason}, NEW before
    PROVE  RecordResult(c, v, a, res, reason) \in SettledView(c, before)
BY RecordResultExact, RecordResultServes DEF SettledView

\* So does handle_action_result, which ends by recording one.
LEMMA HandleResultSettles ==
    ASSUME ModelTypeOK, NEW c \in Conversations, NEW v \in ExactView, NEW a \in ActionIds,
           NEW res \in Results, NEW reason \in Reasons \cup {NoReason}, NEW before
    PROVE  HandleResult(c, v, a, res, reason) \in SettledView(c, before)
BY HandleResultRecords, RecordResultSettles

\* So does the cancellation of the whole queue: an empty queue is served.
LEMMA CancelPendingSettles ==
    ASSUME ModelTypeOK, NEW c \in Conversations, NEW v \in ExactView, NEW before,
           before => OrderedView(c, v), NEW reason \in Reasons \cup {NoReason}
    PROVE  CancelPending(c, v, reason) \in SettledView(c, before)
<1> DEFINE V == SettledView(c, before)
           w == [v EXCEPT !.pending = <<>>]
<1>1. v.pending \in Seq(ActionIds) /\ v \in View /\ <<>> \in Seq(ActionIds)
  BY DEF ExactView, View
<1>2. /\ w \in ExactView /\ w.pending = <<>> /\ w.running = v.running
      /\ w.finished = v.finished
  BY <1>1 DEF ExactView, View
<1> HIDE DEF w
<1>3. w \in V
  BY <1>2 DEF SettledView, ServedView, OrderedView
<1>4. \A u \in V, a \in ActionIds : RecordResult(c, u, a, "Cancelled", reason) \in V
  BY RecordResultSettles DEF SettledView, Results
<1> HIDE DEF V
<1>5. CancelEach(c, w, v.pending, reason) \in V
  BY <1>1, <1>3, <1>4, CancelEachStaysIn
<1> QED
  BY <1>5 DEF CancelPending, V, w

\* So does the loop over the queue.
LEMMA TryExecuteAvailableSettles ==
    ASSUME ModelTypeOK, NEW c \in Conversations, NEW v \in ExactView, NEW before,
           before => OrderedView(c, v)
    PROVE  TryExecuteAvailable(c, v) \in SettledView(c, before)
BY TryExecuteAvailableExact, TryExecuteAvailableServes DEF SettledView

\* The view a handler starts from is as ordered as the state.
LEMMA ViewOfOrdered ==
    ASSUME NEW c \in Conversations
    PROVE  OrderedIn(c) <=> OrderedView(c, ViewOf(c))
BY DEF OrderedIn, OrderedView, ViewOf

\* Starting an action for the user settles the view.
LEMMA StartForUserSettles ==
    ASSUME ExactState, NEW c \in Conversations, NEW a \in Elems(pending[c]),
           running[c].phase = "None"
    PROVE  StartForUser(c, ViewOf(c), a) \in SettledView(c, OrderedIn(c))
<1> DEFINE v == WithoutPending(c, a)
           w == [v EXCEPT !.status = "InProgress"]
           now == [w EXCEPT !.events =
                      Append(@, ExecutorFinished(c, a, "Completed", NoReason))]
           later == [w EXCEPT !.running = [phase |-> PhaseOf({a}), ids |-> @.ids \cup {a}],
                              !.started = {a}]
<1>1. /\ v \in ExactView /\ a \in ActionIds
      /\ v.running = running[c] /\ v.finished = finished[c]
  BY PendingRemovedExact DEF WithoutPending, ViewOf
<1>2. /\ w \in ExactView /\ w.running = v.running /\ w.finished = v.finished
  <2> HIDE DEF v
  <2> QED BY <1>1 DEF ExactView, View, Statuses
<1>3. now \in ExactView /\ now.running = w.running /\ now.finished = w.finished
  <2>1. ExecutorFinished(c, a, "Completed", NoReason) \in Event
    BY <1>1, ExecutorFinishedType DEF Results
  <2> HIDE DEF w
  <2>2. Append(w.events, ExecutorFinished(c, a, "Completed", NoReason)) \in Seq(Event)
    BY <1>2, <2>1 DEF ExactView, View
  <2> QED BY <1>2, <2>2 DEF ExactView, View
<1>4. later.running.ids # {}
  <2> HIDE DEF w
  <2> QED BY <1>2 DEF ExactView, View
<1>5. OrderedIn(c) => OrderedView(c, now)
  <2> HIDE DEF now, w, v
  <2> QED BY <1>1, <1>2, <1>3 DEF OrderedIn, OrderedView
<1>6. TryExecuteAvailable(c, now) \in SettledView(c, OrderedIn(c))
  <2> HIDE DEF now
  <2> QED BY <1>3, <1>5, TryExecuteAvailableSettles DEF ExactState
<1>7. w = [ViewOf(c) EXCEPT !.pending = RemoveIndex(@, PositionOf(a, @)),
                            !.status = "InProgress"]
  BY DEF WithoutPending, ViewOf
<1>8. StartForUser(c, ViewOf(c), a) \in {TryExecuteAvailable(c, now), later}
  <2> HIDE DEF w
  <2> QED BY <1>7 DEF StartForUser
<1>9. StartForUser(c, ViewOf(c), a) \in ExactView
  BY StartForUserExact
<1> HIDE DEF now, later
<1> QED
  BY <1>4, <1>6, <1>8, <1>9 DEF SettledView, ServedView, OrderedView

\* Queueing released actions settles the view.
LEMMA EnqueueSettles ==
    ASSUME ExactState, NEW c \in Conversations, NEW released \in Seq(ActionIds)
    PROVE  Enqueue(c, released) \in SettledView(c, OrderedIn(c))
<1> DEFINE v == ViewOf(c)
           more == Filter(released, ActionIds \ FinishedIds(c))
           w == [v EXCEPT !.pending = @ \o more]
<1>1. /\ v \in ExactView /\ v.pending \in Seq(ActionIds) /\ more \in Seq(ActionIds)
      /\ OrderedIn(c) => OrderedView(c, v)
  BY ViewOfExact, ViewOfOrdered, FilterProperties DEF ExactView, View
<1> HIDE DEF v, more
<1>2. v.pending \o more \in Seq(ActionIds)
  BY <1>1
<1>3. w \in ExactView /\ w.running = v.running /\ w.finished = v.finished
  BY <1>1, <1>2 DEF ExactView, View
<1> HIDE DEF w
<1>4. OrderedIn(c) => OrderedView(c, w)
  BY <1>1, <1>3 DEF OrderedView
<1> QED
  BY <1>3, <1>4, TryExecuteAvailableSettles DEF Enqueue, w, v, more, ExactState

\* A settled view that is committed leaves its conversation settled and the others
\* as they were.
LEMMA CommitSettles ==
    ASSUME ModelTypeOK, NEW c \in Conversations, NEW v \in SettledView(c, OrderedIn(c)),
           NEW queue, NEW execs, Commit(c, v, queue, execs), UNCHANGED <<settings, order>>
    PROVE  /\ ResultsOrderedInv => ResultsOrderedInv'
           /\ QueuesServedInv => QueuesServedInv'
<1>1. /\ pending' = [pending EXCEPT ![c] = v.pending]
      /\ running' = [running EXCEPT ![c] = v.running]
      /\ finished' = [finished EXCEPT ![c] = v.finished]
  BY DEF Commit
<1>2. /\ pending'[c] = v.pending /\ running'[c] = v.running /\ finished'[c] = v.finished
      /\ \A d \in Conversations : d # c =>
             /\ pending'[d] = pending[d] /\ running'[d] = running[d]
             /\ finished'[d] = finished[d]
  BY <1>1 DEF ModelTypeOK
<1>5. ASSUME ResultsOrderedInv, NEW d \in Conversations PROVE OrderedIn(d)'
  <2>1. CASE d = c
    <3>1. OrderedView(c, v)
      BY <1>5 DEF SettledView, ResultsOrderedInv
    <3>2. running'[c].ids = {} => InOrder(c, v.finished)
      BY <1>2, <3>1 DEF OrderedView
    <3>3. InOrder(c, finished[c])' <=> InOrder(c, v.finished)
      BY <1>2 DEF InOrder, OrderKey
    <3> QED BY <2>1, <3>2, <3>3 DEF OrderedIn
  <2>2. CASE d # c
    <3>1. OrderedIn(d)
      BY <1>5 DEF ResultsOrderedInv
    <3>2. InOrder(d, finished[d])' <=> InOrder(d, finished[d])
      BY <1>2, <2>2 DEF InOrder, OrderKey
    <3> QED BY <1>2, <2>2, <3>1, <3>2 DEF OrderedIn
  <2> QED BY <2>1, <2>2
<1>6. ASSUME QueuesServedInv, NEW d \in Conversations PROVE ServedIn(d)'
  <2>1. CASE d = c
    <3>1. ServedView(v)
      BY DEF SettledView
    <3> QED BY <1>2, <2>1, <3>1 DEF ServedIn, ServedView, Executes, NeedsConfirmation, Denylisted
  <2>2. CASE d # c
    <3>1. ServedIn(d)
      BY <1>6 DEF QueuesServedInv
    <3> QED BY <1>2, <2>2, <3>1 DEF ServedIn, Executes, NeedsConfirmation, Denylisted
  <2> QED BY <2>1, <2>2
<1> QED
  BY <1>5, <1>6 DEF ResultsOrderedInv, QueuesServedInv

\* The step keeps the results in order, and the queues served.
SettledStep ==
    /\ ResultsOrderedInv => ResultsOrderedInv'
    /\ QueuesServedInv => QueuesServedInv'

\* Handling the result of a pending action.
LEMMA HandlePendingSettles ==
    ASSUME ExactState, NEW c \in Conversations, NEW a \in Elems(pending[c]),
           NEW res \in Results, NEW reason \in Reasons \cup {NoReason},
           Commit(c, HandleResult(c, WithoutPending(c, a), a, res, reason),
                  effects, executing),
           UNCHANGED <<settings, order>>
    PROVE  SettledStep
<1>1. WithoutPending(c, a) \in ExactView /\ a \in ActionIds
  BY PendingRemovedExact
<1>2. HandleResult(c, WithoutPending(c, a), a, res, reason) \in SettledView(c, OrderedIn(c))
  BY <1>1, HandleResultSettles DEF ExactState
<1> QED
  BY <1>2, CommitSettles DEF SettledStep, ExactState

\* Forgetting the results of some conversations, or emptying their queues.
LEMMA FewerSettles ==
    ASSUME UNCHANGED <<settings, running>>,
           \A d \in Conversations :
               /\ finished'[d] = <<>> \/ (finished'[d] = finished[d] /\ order'[d] = order[d])
               /\ pending'[d] = <<>> \/ pending'[d] = pending[d]
    PROVE  SettledStep
<1>1. ASSUME NEW d \in Conversations, OrderedIn(d) PROVE OrderedIn(d)'
  <2>1. CASE finished'[d] = <<>>
    BY <2>1 DEF OrderedIn, InOrder
  <2>2. CASE finished'[d] = finished[d] /\ order'[d] = order[d]
    BY <1>1, <2>2 DEF OrderedIn, InOrder, OrderKey
  <2> QED BY <2>1, <2>2
<1>2. ASSUME NEW d \in Conversations, ServedIn(d) PROVE ServedIn(d)'
  BY <1>2 DEF ServedIn, Executes, NeedsConfirmation, Denylisted
<1> QED
  BY <1>1, <1>2 DEF SettledStep, ResultsOrderedInv, QueuesServedInv

\* queue_actions: the results of earlier outputs have no place in the new order.
LEMMA QueueActionsSettles ==
    ASSUME NEW E, KnownState(E), NEW c \in Conversations, NEW output \in Outputs[c],
           QueueActions(c, output)
    PROVE  SettledStep
<1>1. /\ order' = [order EXCEPT ![c] = output]
      /\ Elems(output) \cap received[c] = {}
      /\ UNCHANGED <<settings, pending, running, finished>>
  BY DEF QueueActions
<1>2. InOrder(c, finished[c])'
  <2>1. \A i \in DOMAIN finished[c] : finished[c][i].id \notin Elems(output)
    BY <1>1 DEF KnownState, KnownInv, PlacesKnown, FinishedIds
  <2>2. order'[c] = output
    BY <1>1 DEF KnownState, ModelTypeOK
  <2>3. \A i \in DOMAIN finished'[c] : OrderKey(c, finished[c])'[i] = Len(output) + 1
    BY <1>1, <2>1, <2>2 DEF OrderKey
  <2>4. Len(output) \in Nat
    BY OutputsAssumption
  <2> QED BY <2>3, <2>4 DEF InOrder
<1>3. ASSUME NEW d \in Conversations, OrderedIn(d) PROVE OrderedIn(d)'
  <2>1. CASE d = c
    BY <1>2, <2>1 DEF OrderedIn
  <2>2. CASE d # c
    <3>1. order'[d] = order[d]
      BY <1>1, <2>2 DEF KnownState, ModelTypeOK
    <3> QED BY <1>1, <1>3, <3>1 DEF OrderedIn, InOrder, OrderKey
  <2> QED BY <2>1, <2>2
<1>4. ASSUME NEW d \in Conversations, ServedIn(d) PROVE ServedIn(d)'
  BY <1>1, <1>4 DEF ServedIn, Executes, NeedsConfirmation, Denylisted
<1> QED
  BY <1>3, <1>4 DEF SettledStep, ResultsOrderedInv, QueuesServedInv

\* The steps of a conversation: one case per action.
LEMMA ConversationSettles ==
    ASSUME NEW E, KnownState(E), PhasesExact, NEW c \in Conversations, ConversationNext(c)
    PROVE  SettledStep
<1>1. ExactState
  BY DEF ExactState, KnownState
<1>2. ASSUME NEW output \in Outputs[c], QueueActions(c, output) PROVE SettledStep
  BY <1>2, QueueActionsSettles
<1>3. ASSUME NEW a, ExecuteAction(c, a) PROVE SettledStep
  <2>1. /\ a \in Elems(pending[c]) /\ running[c].phase = "None"
        /\ Commit(c, StartForUser(c, ViewOf(c), a), effects, executing)
        /\ UNCHANGED <<settings, order>>
    BY <1>3 DEF ExecuteAction, MayStartForUser
  <2>2. StartForUser(c, ViewOf(c), a) \in SettledView(c, OrderedIn(c))
    BY <1>1, <2>1, StartForUserSettles
  <2> QED BY <1>1, <2>1, <2>2, CommitSettles DEF ExactState, SettledStep
<1>4. CASE ExecuteNextActionForUser(c)
  BY <1>3, <1>4 DEF ExecuteNextActionForUser
<1>5. ASSUME NEW reason \in Reasons, CancelAllPendingActions(c, reason) PROVE SettledStep
  <2>1. /\ \E queue, execs : Commit(c, CancelPending(c, ViewOf(c), reason), queue, execs)
        /\ UNCHANGED <<settings, order>>
    BY <1>5 DEF CancelAllPendingActions, CancelAll
  <2>2. CancelPending(c, ViewOf(c), reason) \in SettledView(c, OrderedIn(c))
    BY <1>1, ViewOfExact, ViewOfOrdered, CancelPendingSettles DEF ExactState
  <2> QED BY <1>1, <2>1, <2>2, CommitSettles DEF ExactState, SettledStep
<1>6. ASSUME NEW reason \in Reasons, CancelAndDrain(c, reason) PROVE SettledStep
  <2> DEFINE v == CancelPending(c, ViewOf(c), reason)
  <2>1. /\ pending' = [pending EXCEPT ![c] = v.pending]
        /\ finished' = [finished EXCEPT ![c] = <<>>]
        /\ order' = [order EXCEPT ![c] = <<>>]
        /\ UNCHANGED <<settings, running>>
    BY <1>6 DEF CancelAndDrain
  <2>2. v \in FramedView(c, {}, running[c].ids, FinishedIds(c) \cup Elems(pending[c]))
    BY <1>1, CancelPendingFramed DEF ExactState
  <2> HIDE DEF v
  <2>3. v.pending = <<>>
    <3>1. v.pending \in Seq(ActionIds) /\ Elems(v.pending) = {}
      BY <2>2 DEF FramedView, View, Framed
    <3>2. 1 \notin DOMAIN v.pending
      BY <3>1 DEF Elems
    <3> QED BY <3>1, <3>2
  <2>4. \A d \in Conversations :
            /\ finished'[d] = <<>> \/ (finished'[d] = finished[d] /\ order'[d] = order[d])
            /\ pending'[d] = <<>> \/ pending'[d] = pending[d]
    BY <1>1, <2>1, <2>3 DEF ExactState, ModelTypeOK
  <2> QED BY <2>1, <2>4, FewerSettles
<1>7. CASE ClearFinished(c)
  <2>1. /\ finished' = [finished EXCEPT ![c] = <<>>] /\ order' = [order EXCEPT ![c] = <<>>]
        /\ UNCHANGED <<settings, running, pending>>
    BY <1>7 DEF ClearFinished
  <2>2. \A d \in Conversations :
            finished'[d] = <<>> \/ (finished'[d] = finished[d] /\ order'[d] = order[d])
    BY <1>1, <2>1 DEF ExactState, ModelTypeOK
  <2> QED BY <2>1, <2>2, FewerSettles
<1>8. ASSUME NEW b \in ActionIds, PreprocessActionsResults(c, b) PROVE SettledStep
  <2> DEFINE released == [i \in 1..Releasable(Completed(c, b)) |-> Completed(c, b)[i].id]
  <2>1. released \in Seq(ActionIds)
    BY <1>1, ReleasedType DEF ExactState
  <2>2. /\ Commit(c, Enqueue(c, released), effects, executing)
        /\ UNCHANGED <<settings, order>>
    BY <1>8 DEF PreprocessActionsResults
  <2> HIDE DEF released
  <2>3. Enqueue(c, released) \in SettledView(c, OrderedIn(c))
    BY <1>1, <2>1, EnqueueSettles
  <2> QED BY <1>1, <2>2, <2>3, CommitSettles DEF ExactState, SettledStep
<1>9. ASSUME NEW a \in ActionIds, DenyRunAgents(c, a) PROVE SettledStep
  <2>1. /\ a \in Elems(pending[c]) /\ UNCHANGED <<settings, order>>
        /\ Commit(c, HandleResult(c, WithoutPending(c, a), a, "Completed", NoReason),
                  effects, executing)
    BY <1>9 DEF DenyRunAgents
  <2> QED BY <1>1, <2>1, HandlePendingSettles DEF Results
<1>10. ASSUME NEW a \in ActionIds, NEW reason \in Reasons, CancelActionWithId(c, a, reason)
       PROVE  SettledStep
  <2>1. UNCHANGED <<settings, order>>
    BY <1>10 DEF CancelActionWithId
  <2>2. CASE UNCHANGED <<pending, running, finished, status, futures>>
    BY <2>1, <2>2, FewerSettles
  <2>3. CASE /\ a \in Elems(pending[c])
             /\ Commit(c, HandleResult(c, WithoutPending(c, a), a, "Cancelled", reason),
                       effects, executing)
    BY <1>1, <2>1, <2>3, HandlePendingSettles DEF Results
  <2> QED BY <1>10, <2>2, <2>3 DEF CancelActionWithId
<1>11. ASSUME NEW a \in ActionIds, CompleteAsync(c, a) PROVE SettledStep
  BY <1>11, FewerSettles DEF CompleteAsync
<1> QED
  BY <1>2, <1>3, <1>4, <1>5, <1>6, <1>7, <1>8, <1>9, <1>10, <1>11 DEF ConversationNext

\* Delivering a result to the action model.
LEMMA DeliverExecutorFinishedSettles ==
    ASSUME NEW E, KnownState(E), PhasesExact, DeliverExecutorFinished
    PROVE  SettledStep
<1> DEFINE e == Head(effects)
           v == HandleResult(e.conv, ViewOf(e.conv), e.id, e.res, e.reason)
<1>1. /\ effects # <<>> /\ e.type = "ExecutorFinished" /\ UNCHANGED <<settings, order>>
      /\ Commit(e.conv, v, Tail(effects), executing)
  BY DEF DeliverExecutorFinished, Idle
<1>2. ExactState
  BY DEF ExactState, KnownState
<1>3. /\ e.conv \in Conversations /\ e.id \in ActionIds /\ e.res \in Results
      /\ e.reason \in Reasons \cup {NoReason}
  BY <1>1, HeadIsResult DEF KnownState
<1> HIDE DEF e
<1>4. v \in SettledView(e.conv, OrderedIn(e.conv))
  BY <1>2, <1>3, ViewOfExact, HandleResultSettles DEF ExactState
<1> HIDE DEF v
<1> QED
  BY <1>1, <1>2, <1>3, <1>4, CommitSettles DEF SettledStep, ExactState

\* The controller's reaction to a finished action, which may drain the results.
LEMMA DeliverFinishedSettles ==
    ASSUME NEW E, KnownState(E), DeliverFinished PROVE SettledStep
<1>1. /\ DrainFinished(Head(effects).conv) \/ UNCHANGED <<order, finished, past>>
      /\ UNCHANGED <<settings, pending, running>>
  BY DEF DeliverFinished
<1>2. \A d \in Conversations :
          finished'[d] = <<>> \/ (finished'[d] = finished[d] /\ order'[d] = order[d])
  BY <1>1 DEF DrainFinished, KnownState, ModelTypeOK
<1> QED
  BY <1>1, <1>2, FewerSettles

\* Every step that does not change the settings settles; one that does keeps the
\* results in order all the same.
LEMMA SettledNext ==
    ASSUME TypeOK, PhasesExact, KnownInv, [Next]_vars
    PROVE  /\ ResultsOrderedInv => ResultsOrderedInv'
           /\ (QueuesServedInv /\ UNCHANGED settings) => QueuesServedInv'
<1>1. KnownState(Event)
  BY DEF KnownState, Extends, TypeOK
<1>2. ASSUME NEW c \in Conversations, ConversationNext(c) PROVE SettledStep
  BY <1>1, <1>2, ConversationSettles
<1>3. CASE ChangeSettings
  <2>1. UNCHANGED <<pending, running, finished, order>>
    BY <1>3 DEF ChangeSettings
  <2>2. ResultsOrderedInv => ResultsOrderedInv'
    BY <2>1 DEF ResultsOrderedInv, OrderedIn, InOrder, OrderKey
  <2>3. UNCHANGED settings => SettledStep
    BY <2>1, FewerSettles
  <2> QED BY <2>2, <2>3 DEF SettledStep
<1>4. CASE DeliverExecutorFinished
  BY <1>1, <1>4, DeliverExecutorFinishedSettles DEF SettledStep
<1>5. CASE DeliverFinished
  BY <1>1, <1>5, DeliverFinishedSettles DEF SettledStep
<1>6. CASE UNCHANGED vars
  BY <1>6, FewerSettles DEF SettledStep, vars
<1> QED
  BY <1>2, <1>3, <1>4, <1>5, <1>6 DEF Next, SettledStep

\* Initially nothing has finished and nothing is queued.
LEMMA SettledInit == Init => ResultsOrderedInv /\ QueuesServedInv
BY DEF Init, ResultsOrderedInv, QueuesServedInv, OrderedIn, ServedIn, InOrder

\* Once nothing runs in a conversation its results are in the order of the tool
\* calls of the latest output (ResultsInToolCallOrder), for any conversations,
\* actions, outputs and settings.  That a new output leaves the results of earlier
\* ones in order rests on KnownInv: its actions cannot have a result yet.
THEOREM ResultsOrdered == Spec => []ResultsInToolCallOrder
<1>1. ResultsOrderedInv => ResultsInToolCallOrder
  BY DEF ResultsOrderedInv, OrderedIn, InOrder, ResultsInToolCallOrder
<1>2. TypeOK /\ PhasesExact /\ KnownInv /\ ResultsOrderedInv /\ [Next]_vars
          => ResultsOrderedInv'
  BY SettledNext
<1> QED
  BY <1>1, <1>2, PhaseInit, PhaseStep, KnownInit, KnownStep, SettledInit, TypeCorrect, PTL
     DEF Spec

\* With settings that do not change, the front action of a queue that may be served
\* waits for the user or is not ready (QueueIsServed), for any conversations,
\* actions and outputs, and whatever those settings are.
THEOREM QueuesServed ==
    (\A s, t \in Settings : s = t) => (Spec => []QueueIsServed)
<1> SUFFICES ASSUME \A s, t \in Settings : s = t PROVE Spec => []QueueIsServed
  OBVIOUS
<1>1. QueuesServedInv => QueueIsServed
  BY DEF QueuesServedInv, ServedIn, QueueIsServed
<1>2. TypeOK /\ PhasesExact /\ KnownInv /\ QueuesServedInv /\ [Next]_vars
          => QueuesServedInv'
  <2>1. SUFFICES ASSUME TypeOK, PhasesExact, KnownInv, QueuesServedInv, [Next]_vars
                 PROVE  QueuesServedInv'
    OBVIOUS
  <2>2. TypeOK'
    BY <2>1, TypeStep
  <2>3. UNCHANGED settings
    BY <2>1, <2>2 DEF TypeOK, ModelTypeOK
  <2> QED BY <2>1, <2>3, SettledNext
<1> QED
  BY <1>1, <1>2, PhaseInit, PhaseStep, KnownInit, KnownStep, SettledInit, TypeCorrect, PTL
     DEF Spec

-----------------------------------------------------------------------------
(* An action is in one place.                                              *)

\* No action has two results.
ResultedOnce(results) ==
    \A i, j \in DOMAIN results : results[i].id = results[j].id => i = j

\* The sets of queued, started, answered, finished and other actions are disjoint.
Parted(Q, S, G, F, N) ==
    /\ Q \cap (S \cup G \cup F \cup N) = {}
    /\ S \cap (G \cup F \cup N) = {}
    /\ G \cap (F \cup N) = {}
    /\ F \cap N = {}

(***************************************************************************)
(* A handler's view holds each action once; N are the actions it has taken *)
(* out of their place and has yet to finish.                               *)
(***************************************************************************)
Placed(c, N, w) ==
    /\ Injective(w.pending)
    /\ ResultedOnce(w.finished)
    /\ AnsweredOnce(c, w.events)
    /\ Parted(Elems(w.pending), w.started, AnsweredFor(c, w.events), IdsOf(w.finished), N)

PlacedView(c, Q, R, F, N) == {w \in FramedView(c, Q, R, F) : Placed(c, N, w)}

\* One more result, of an action that had none.
LEMMA ResultedOnceAppend ==
    ASSUME NEW results \in Seq(Result), NEW r \in Result,
           ResultedOnce(results), r.id \notin IdsOf(results)
    PROVE  ResultedOnce(Append(results, r))
<1> DEFINE s == Append(results, r)
<1>1. /\ DOMAIN s = 1..(Len(results) + 1)
      /\ DOMAIN results = 1..Len(results) /\ Len(results) \in Nat
      /\ \A k \in DOMAIN results : s[k] = results[k]
      /\ s[Len(results) + 1] = r
  OBVIOUS
<1> HIDE DEF s
<1>2. \A k \in DOMAIN s : k \in DOMAIN results \/ k = Len(results) + 1
  BY <1>1
<1>3. \A k \in DOMAIN results : s[k].id # r.id
  BY <1>1 DEF IdsOf
<1> QED
  BY <1>1, <1>2, <1>3 DEF ResultedOnce, s

\* Sorting does not repeat a result.
LEMMA SortFinishedOnce ==
    ASSUME ModelTypeOK, NEW c \in Conversations, NEW results \in Seq(Result),
           ResultedOnce(results)
    PROVE  ResultedOnce(SortFinished(c, results))
<1> DEFINE key == OrderKey(c, results)
           sorted == SortFinished(c, results)
<1>1. key \in [DOMAIN results -> Int]
  BY OrderKeyType
<1>2. sorted = StableSort(results, key)
  BY DEF SortFinished
<1> HIDE DEF key, sorted
<1>3. DOMAIN sorted = DOMAIN results
  BY <1>1, <1>2, StableSortType
<1>4. PICK pos : SortsBy(results, key, pos)
  BY <1>1, StableSortPositions
<1>5. /\ pos \in [DOMAIN results -> DOMAIN results]
      /\ \A k \in DOMAIN results : sorted[k] = results[pos[k]]
      /\ \A j, k \in DOMAIN results :
             j < k => key[pos[j]] < key[pos[k]] \/ pos[j] < pos[k]
  BY <1>2, <1>4 DEF SortsBy
<1>6. DOMAIN results \subseteq Int
  OBVIOUS
<1>7. ASSUME NEW j \in DOMAIN results, NEW k \in DOMAIN results, j < k
      PROVE  pos[j] # pos[k]
  <2> DEFINE p == pos[j]
             q == pos[k]
  <2>1. p \in DOMAIN results /\ q \in DOMAIN results /\ (key[p] < key[q] \/ p < q)
    BY <1>5, <1>7
  <2>2. p \in Int /\ q \in Int /\ key[p] \in Int /\ key[q] \in Int
    BY <1>1, <1>6, <2>1
  <2> HIDE DEF p, q
  <2>3. p # q
    BY <2>1, <2>2
  <2> QED BY <2>3 DEF p, q
<1>8. \A j, k \in DOMAIN results : pos[j] = pos[k] => j = k
  BY <1>6, <1>7
<1> QED
  BY <1>3, <1>5, <1>8 DEF ResultedOnce, sorted

\* The loop over the queue: a started action leaves the queue, and so does one that
\* is answered at once.
LEMMA TryExecuteAvailablePlaced ==
    ASSUME NEW c \in Conversations, NEW Q, NEW R, NEW F, NEW N,
           NEW v \in PlacedView(c, Q, R, F, N)
    PROVE  TryExecuteAvailable(c, v) \in PlacedView(c, Q, R, F, N)
<1> DEFINE w == TryExecuteAvailable(c, v)
           q == v.pending
<1>1. v \in FramedView(c, Q, R, F) /\ Placed(c, N, v)
  BY DEF PlacedView
<1>2. v \in View /\ q \in Seq(ActionIds) /\ v.events \in Seq(Event)
  BY <1>1 DEF FramedView, View
<1>3. w \in FramedView(c, Q, R, F)
  BY <1>1, TryExecuteAvailableFramed
<1>4. PICK n \in 0..Len(q) : Executed(c, v, w, n)
  BY <1>2, TryExecuteAvailableExecutes
<1> DEFINE taken == SubSeq(q, 1, n)
           rest == DropFirst(q, n)
           evs == AnswersOf(c, q, n)
           ans == AnsweredOf(q, n)
<1>5. /\ w.pending = rest /\ w.started = v.started \cup StartedOf(q, n)
      /\ w.finished = v.finished /\ w.events = v.events \o evs
  BY <1>4 DEF Executed
<1> HIDE DEF w
<1>6. Injective(q)
  BY <1>1 DEF Placed
<1> HIDE DEF q
<1>7. /\ taken \in Seq(ActionIds) /\ Injective(taken) /\ Injective(rest)
      /\ Elems(taken) \cap Elems(rest) = {}
      /\ Elems(taken) \cup Elems(rest) \subseteq Elems(q)
  <2>1. /\ taken \in Seq(ActionIds) /\ Elems(taken) = {q[i] : i \in 1..n}
        /\ Elems(rest) = {q[i] : i \in (n + 1)..Len(q)}
    BY <1>2, PrefixElems
  <2>2. /\ Injective(taken) /\ Injective(rest)
        /\ {q[i] : i \in 1..n} \cap Elems(rest) = {}
    BY <1>2, <1>6, PrefixInjective
  <2>3. DOMAIN q = 1..Len(q) /\ Len(q) \in Nat
    BY <1>2
  <2>4. \A i \in 1..n : i \in DOMAIN q
    BY <2>3
  <2>5. \A i \in (n + 1)..Len(q) : i \in DOMAIN q
    BY <2>3
  <2>6. Elems(taken) \subseteq Elems(q) /\ Elems(rest) \subseteq Elems(q)
    BY <2>1, <2>4, <2>5 DEF Elems
  <2> HIDE DEF taken, rest
  <2> QED BY <2>1, <2>2, <2>6
<1>8. StartedOf(q, n) = Elems(taken) \ SyncActions(FALSE)
  BY DEF StartedOf
<1>9. ans = Filter(taken, SyncActions(FALSE))
  BY DEF AnsweredOf
<1> HIDE DEF taken, rest
<1>10. Injective(ans) /\ Elems(ans) = Elems(taken) \cap SyncActions(FALSE)
  <2> DEFINE sync == SyncActions(FALSE)
  <2>1. taken \in Seq(ActionIds) /\ Injective(taken) /\ ans = Filter(taken, sync)
    BY <1>7, <1>9
  <2> HIDE DEF sync, ans
  <2>2. Injective(ans) /\ Elems(ans) = Elems(taken) \cap sync
    BY <2>1, FilterInjective, FilterElems
  <2> QED BY <2>2 DEF sync
<1>11. /\ evs \in Seq(Event) /\ AnswersIn(evs) = DOMAIN ans
       /\ \A i \in DOMAIN ans : evs[i].conv = c /\ evs[i].id = ans[i]
  BY <1>2, AnswersOfProperties
<1> HIDE DEF evs, ans
<1>12. AnswersFor(c, evs) = DOMAIN ans
  BY <1>11 DEF AnswersIn, AnswersFor
<1>13. AnsweredFor(c, evs) = Elems(ans)
  BY <1>11, <1>12 DEF AnsweredFor, Elems
<1>14. AnsweredOnce(c, evs)
  BY <1>10, <1>11, <1>12 DEF AnsweredOnce, Injective
<1>15. /\ AnsweredOnce(c, v.events)
       /\ Parted(Elems(q), v.started, AnsweredFor(c, v.events), IdsOf(v.finished), N)
  BY <1>1 DEF Placed, q
<1>16. AnsweredFor(c, v.events) \cap AnsweredFor(c, evs) = {}
  BY <1>7, <1>10, <1>13, <1>15 DEF Parted
<1>17. /\ AnsweredFor(c, w.events) = AnsweredFor(c, v.events) \cup AnsweredFor(c, evs)
       /\ AnsweredOnce(c, w.events)
  BY <1>2, <1>5, <1>11, <1>14, <1>15, <1>16, AnswersForConcat
<1>18. Parted(Elems(w.pending), w.started, AnsweredFor(c, w.events), IdsOf(w.finished), N)
  <2>1. /\ Elems(taken) \cup Elems(w.pending) \subseteq Elems(q)
        /\ Elems(taken) \cap Elems(w.pending) = {}
        /\ w.started = v.started \cup (Elems(taken) \ SyncActions(FALSE))
        /\ w.finished = v.finished
    BY <1>5, <1>7, <1>8
  <2> QED BY <1>7, <1>10, <1>13, <1>15, <1>17, <2>1 DEF Parted
<1>19. Injective(w.pending) /\ ResultedOnce(w.finished)
  BY <1>1, <1>5, <1>7 DEF Placed
<1> QED
  BY <1>3, <1>17, <1>18, <1>19 DEF PlacedView, Placed, w

\* Recording the result of an action that was taken out of its place finishes it.
LEMMA RecordResultPlaced ==
    ASSUME ModelTypeOK, NEW c \in Conversations, NEW Q, NEW R, NEW F, NEW N,
           NEW v \in PlacedView(c, Q, R, F, N), NEW a \in N, a \in ActionIds, a \in F \cup Q,
           NEW res \in Results, NEW reason \in Reasons \cup {NoReason}
    PROVE  RecordResult(c, v, a, res, reason) \in PlacedView(c, Q, R, F, N \ {a})
<1> DEFINE w == Pushed(c, v, a, res, reason)
           r == RecordResult(c, v, a, res, reason)
           x == Sorted(c, w)
<1>1. v \in FramedView(c, Q, R, F) /\ Placed(c, N, v) /\ v \in View
  BY DEF PlacedView, FramedView
<1>2. /\ w \in View /\ x \in View
      /\ \/ v.running.ids # {} /\ r = w
         \/ v.running.ids = {} /\ v.pending # <<>> /\ r = TryExecuteAvailable(c, x)
         \/ /\ v.running.ids = {} /\ v.pending = <<>>
            /\ \E st \in Statuses : r = [x EXCEPT !.status = st]
  BY <1>1, RecordResultForms
<1>3. /\ w.running = v.running /\ w.pending = v.pending /\ w.started = v.started
      /\ w.finished = Append(v.finished, [id |-> a, res |-> res])
      /\ w.events = Append(v.events, Finished(c, a, reason))
  BY <1>1 DEF Pushed, View
<1> HIDE DEF w
<1>4. /\ x.running = v.running /\ x.pending = v.pending /\ x.started = v.started
      /\ x.finished = SortFinished(c, w.finished) /\ x.events = w.events
      /\ w.finished \in Seq(Result)
  BY <1>2, <1>3 DEF Sorted, View
<1> HIDE DEF x, r
<1>5. v.finished \in Seq(Result) /\ [id |-> a, res |-> res] \in Result /\ v.events \in Seq(Event)
  BY <1>1 DEF View, Result
<1>6. /\ IdsOf(w.finished) = IdsOf(v.finished) \cup {a} /\ IdsOf(x.finished) = IdsOf(w.finished)
      /\ ResultedOnce(w.finished) /\ ResultedOnce(x.finished)
  <2> DEFINE one == [id |-> a, res |-> res]
  <2>1. one.id = a
    OBVIOUS
  <2>2. a \notin IdsOf(v.finished) /\ ResultedOnce(v.finished)
    BY <1>1 DEF Placed, Parted
  <2>3. w.finished = Append(v.finished, one) /\ one \in Result
    BY <1>3, <1>5
  <2> HIDE DEF one
  <2>4. IdsOf(w.finished) = IdsOf(v.finished) \cup {a} /\ ResultedOnce(w.finished)
    BY <1>5, <2>1, <2>2, <2>3, IdsOfAppend, ResultedOnceAppend
  <2> QED BY <1>4, <2>4, SortFinishedIds, SortFinishedOnce
<1>7. AnsweredFor(c, w.events) = AnsweredFor(c, v.events) /\ AnsweredOnce(c, w.events)
  <2> DEFINE evs == Append(v.events, Finished(c, a, reason))
  <2>1. /\ AnswersIn(evs) = AnswersIn(v.events)
        /\ \A i \in AnswersIn(v.events) : evs[i] = v.events[i]
    BY <1>5, AnswersInAppendFinished
  <2>2. w.events = evs
    BY <1>3
  <2> HIDE DEF evs
  <2>3. AnswersFor(c, evs) = AnswersFor(c, v.events)
    BY <2>1 DEF AnswersIn, AnswersFor
  <2>4. \A i \in AnswersFor(c, v.events) : evs[i] = v.events[i]
    BY <2>1 DEF AnswersIn, AnswersFor
  <2>5. AnsweredOnce(c, v.events)
    BY <1>1 DEF Placed
  <2> QED BY <2>2, <2>3, <2>4, <2>5 DEF AnsweredFor, AnsweredOnce
<1>8. w \in FramedView(c, Q, R, F) /\ x \in FramedView(c, Q, R, F)
  <2>1. \A u \in View : (/\ u.running = v.running /\ u.pending = v.pending
                         /\ u.started = v.started /\ u.events = w.events
                         /\ IdsOf(u.finished) = IdsOf(v.finished) \cup {a})
                        => u \in FramedView(c, Q, R, F)
    <3>1. /\ AnsweredIds(w.events) = AnsweredIds(v.events)
          /\ AnswersIn(w.events) = AnswersIn(v.events)
          /\ \A i \in AnswersIn(w.events) : w.events[i] = v.events[i]
      <4> DEFINE evs == Append(v.events, Finished(c, a, reason))
      <4>1. /\ AnswersIn(evs) = AnswersIn(v.events) /\ AnsweredIds(evs) = AnsweredIds(v.events)
            /\ \A i \in AnswersIn(v.events) : evs[i] = v.events[i]
        BY <1>5, AnswersInAppendFinished
      <4>2. w.events = evs
        BY <1>3
      <4> HIDE DEF evs
      <4> QED BY <4>1, <4>2
    <3> QED BY <1>1, <3>1 DEF FramedView, Framed
  <2> QED BY <1>2, <1>3, <1>4, <1>6, <2>1
<1>9. w \in PlacedView(c, Q, R, F, N \ {a}) /\ x \in PlacedView(c, Q, R, F, N \ {a})
  <2>1. Parted(Elems(v.pending), v.started, AnsweredFor(c, v.events),
               IdsOf(v.finished) \cup {a}, N \ {a})
    BY <1>1 DEF Placed, Parted
  <2>2. Injective(v.pending)
    BY <1>1 DEF Placed
  <2> QED BY <1>3, <1>4, <1>6, <1>7, <1>8, <2>1, <2>2 DEF PlacedView, Placed
<1>10. ASSUME NEW st \in Statuses, r = [x EXCEPT !.status = st]
      PROVE  r \in PlacedView(c, Q, R, F, N \ {a})
  <2>1. /\ r.running = x.running /\ r.pending = x.pending /\ r.finished = x.finished
        /\ r.started = x.started /\ r.events = x.events /\ r \in View
    BY <1>2, <1>10 DEF View
  <2> QED BY <1>9, <2>1 DEF PlacedView, Placed, FramedView, Framed
<1>11. TryExecuteAvailable(c, x) \in PlacedView(c, Q, R, F, N \ {a})
  <2> DEFINE M == N \ {a}
  <2>1. x \in PlacedView(c, Q, R, F, M)
    BY <1>9
  <2> HIDE DEF M, x
  <2>2. TryExecuteAvailable(c, x) \in PlacedView(c, Q, R, F, M)
    BY <2>1, TryExecuteAvailablePlaced
  <2> QED BY <2>2 DEF M
<1> QED
  BY <1>2, <1>9, <1>10, <1>11 DEF r

\* Cancelling actions that were taken out of their places finishes them.
LEMMA CancelEachPlaced ==
    ASSUME ModelTypeOK, NEW c \in Conversations, NEW Q, NEW R, NEW F, NEW N,
           NEW v \in PlacedView(c, Q, R, F, N), NEW ids \in Seq(ActionIds), Injective(ids),
           Elems(ids) \subseteq F \cup Q, Elems(ids) \subseteq N,
           NEW reason \in Reasons \cup {NoReason}
    PROVE  CancelEach(c, v, ids, reason) \in PlacedView(c, Q, R, F, N \ Elems(ids))
<1> DEFINE P == [i \in 0..Len(ids) |-> PlacedView(c, Q, R, F, N \ {ids[k] : k \in 1..i})]
<1>1. /\ Len(ids) \in Nat /\ DOMAIN ids = 1..Len(ids)
      /\ \A i \in 1..Len(ids) : ids[i] \in ActionIds /\ ids[i] \in F \cup Q /\ ids[i] \in N
  BY DEF Elems
<1>2. v \in P[0]
  <2>1. 0 \in 0..Len(ids) /\ N \ {ids[k] : k \in 1..0} = N
    BY <1>1
  <2> QED BY <2>1
<1>3. P[Len(ids)] = PlacedView(c, Q, R, F, N \ Elems(ids))
  BY <1>1 DEF Elems
<1>4. ASSUME NEW i \in 1..Len(ids), NEW w \in P[i - 1]
      PROVE  RecordResult(c, w, ids[i], "Cancelled", reason) \in P[i]
  <2> DEFINE M == N \ {ids[k] : k \in 1..(i - 1)}
  <2>1. i - 1 \in 0..Len(ids) /\ i \in 0..Len(ids) /\ i - 1 \in Nat
    BY <1>1
  <2>2. w \in PlacedView(c, Q, R, F, M)
    BY <1>4, <2>1
  <2>3. \A k \in 1..(i - 1) : k \in 1..Len(ids) /\ k # i
    BY <1>1
  <2>4. ids[i] \in M
    BY <1>1, <2>3 DEF Injective
  <2>5. 1..i = 1..(i - 1) \cup {i}
    BY <2>1
  <2>6. M \ {ids[i]} = N \ {ids[k] : k \in 1..i}
    BY <2>5
  <2> HIDE DEF M, P
  <2>7. RecordResult(c, w, ids[i], "Cancelled", reason) \in PlacedView(c, Q, R, F, M \ {ids[i]})
    BY <1>1, <2>2, <2>4, RecordResultPlaced DEF Results
  <2>8. P[i] = PlacedView(c, Q, R, F, N \ {ids[k] : k \in 1..i})
    BY <2>1 DEF P
  <2> QED BY <2>6, <2>7, <2>8
<1> HIDE DEF P
<1>5. CancelEach(c, v, ids, reason) \in P[Len(ids)]
  BY <1>2, <1>4, CancelEachPasses
<1> QED
  BY <1>3, <1>5

\* Cancelling the other commands takes them out of the queue and finishes them.
LEMMA CancelOtherCommandsPlaced ==
    ASSUME ModelTypeOK, NEW c \in Conversations, NEW Q, NEW R, NEW F, NEW N,
           NEW v \in PlacedView(c, Q, R, F, N), NEW reason \in Reasons \cup {NoReason}
    PROVE  CancelOtherCommands(c, v, reason) \in PlacedView(c, Q, R, F, N)
<1> DEFINE rest == Filter(v.pending, ActionIds \ Commands)
           ids == Filter(v.pending, Commands)
           w == [v EXCEPT !.pending = rest]
           M == N \cup Elems(ids)
<1>1. v \in View /\ v.pending \in Seq(ActionIds) /\ Framed(c, Q, R, F, v) /\ Placed(c, N, v)
  BY DEF PlacedView, FramedView, View
<1>2. Injective(v.pending)
  BY <1>1 DEF Placed
<1>3. /\ rest \in Seq(ActionIds) /\ Elems(rest) \subseteq Elems(v.pending) \ Commands
      /\ ids \in Seq(ActionIds) /\ Elems(ids) = Elems(v.pending) \cap Commands
      /\ Injective(rest) /\ Injective(ids)
  BY <1>1, <1>2, FilterProperties, FilterElems, FilterInjective
<1> HIDE DEF rest, ids
<1>4. /\ w.pending = rest /\ w.running = v.running /\ w.finished = v.finished
      /\ w.started = v.started /\ w.events = v.events /\ w \in View
  BY <1>1, <1>3 DEF View
<1> HIDE DEF w
<1>5. w \in FramedView(c, Q, R, F)
  BY <1>1, <1>3, <1>4 DEF FramedView, Framed
<1>6. Placed(c, M, w)
  BY <1>1, <1>3, <1>4 DEF Placed, Parted
<1>7. Elems(ids) \subseteq F \cup Q /\ Elems(ids) \subseteq M
  BY <1>1, <1>3 DEF Framed
<1>8. M \ Elems(ids) = N
  BY <1>1, <1>3 DEF Placed, Parted
<1> HIDE DEF M
<1>9. w \in PlacedView(c, Q, R, F, M)
  BY <1>5, <1>6 DEF PlacedView
<1>10. CancelEach(c, w, ids, reason) \in PlacedView(c, Q, R, F, M \ Elems(ids))
  BY <1>3, <1>7, <1>9, CancelEachPlaced
<1> QED
  BY <1>8, <1>10 DEF CancelOtherCommands, w, rest, ids

\* handle_action_result finishes an action that was taken out of its place.
LEMMA HandleResultPlaced ==
    ASSUME ModelTypeOK, NEW c \in Conversations, NEW Q, NEW R, NEW F, NEW N,
           NEW v \in PlacedView(c, Q, R, F, N), v.started = {},
           NEW a \in N, a \in ActionIds, a \in F \cup Q,
           NEW res \in Results, NEW reason \in Reasons \cup {NoReason}
    PROVE  HandleResult(c, v, a, res, reason) \in PlacedView(c, Q, R \ {a}, F, N \ {a})
<1> DEFINE w == WithoutRunning(v, a)
           u == IF res = "Snapshot" THEN CancelOtherCommands(c, w, reason) ELSE w
<1>1. v \in View /\ v.running \in Running /\ Framed(c, Q, R, F, v) /\ Placed(c, N, v)
  BY DEF PlacedView, FramedView, View
<1>2. w \in View
  BY <1>1, WithoutRunningType
<1>3. /\ w.running = IF v.running.ids \subseteq {a} THEN NotRunning
                     ELSE [phase |-> v.running.phase, ids |-> v.running.ids \ {a}]
      /\ w.pending = v.pending /\ w.finished = v.finished /\ w.started = v.started
      /\ w.events = v.events
  BY <1>1 DEF WithoutRunning, View
<1> HIDE DEF w
<1>4. w.running.ids = v.running.ids \ {a}
  BY <1>3 DEF NotRunning
<1>5. w \in PlacedView(c, Q, R \ {a}, F, N)
  BY <1>1, <1>2, <1>3, <1>4 DEF PlacedView, FramedView, Framed, Placed
<1>6. u \in PlacedView(c, Q, R \ {a}, F, N)
  BY <1>5, CancelOtherCommandsPlaced
<1> HIDE DEF u
<1> QED
  BY <1>6, RecordResultPlaced DEF HandleResult, u, w

\* The queue and the results of c hold each action once.
CleanIn(c) ==
    /\ Injective(pending[c]) /\ ResultedOnce(finished[c])
    /\ Elems(pending[c]) \cap FinishedIds(c) = {}

\* The view a handler starts from holds each action once.
LEMMA ViewOfPlaced ==
    ASSUME ModelTypeOK, NEW c \in Conversations, CleanIn(c),
           NEW Q, Elems(pending[c]) \subseteq Q,
           NEW N, N \cap (Elems(pending[c]) \cup FinishedIds(c)) = {}
    PROVE  ViewOf(c) \in PlacedView(c, Q, running[c].ids, FinishedIds(c), N)
<1> DEFINE v == ViewOf(c)
<1>1. /\ v.pending = pending[c] /\ v.finished = finished[c] /\ v.events = <<>>
      /\ v.started = {} /\ IdsOf(finished[c]) = FinishedIds(c)
  BY DEF ViewOf, IdsOf, FinishedIds
<1>2. v \in FramedView(c, Q, running[c].ids, FinishedIds(c))
  BY ViewOfFramed
<1> HIDE DEF v
<1>3. Placed(c, N, v)
  BY <1>1, AnswersForNone DEF CleanIn, Placed, Parted
<1> QED
  BY <1>2, <1>3 DEF PlacedView, v

\* A pending action that is taken out of the queue is nowhere.
LEMMA WithoutPendingPlaced ==
    ASSUME ModelTypeOK, NEW c \in Conversations, CleanIn(c), NEW a \in Elems(pending[c])
    PROVE  WithoutPending(c, a)
             \in PlacedView(c, Elems(pending[c]), running[c].ids, FinishedIds(c), {a})
<1> DEFINE v == WithoutPending(c, a)
           rest == RemoveIndex(pending[c], PositionOf(a, pending[c]))
<1>1. /\ v.pending = rest /\ v.finished = finished[c] /\ v.events = <<>>
      /\ v.started = {} /\ IdsOf(finished[c]) = FinishedIds(c)
  BY DEF WithoutPending, ViewOf, IdsOf, FinishedIds
<1>2. v \in FramedView(c, Elems(pending[c]), running[c].ids, FinishedIds(c))
  BY WithoutPendingFramed
<1>3. Injective(rest) /\ Elems(rest) = Elems(pending[c]) \ {a}
  <2> DEFINE q == pending[c]
             i == PositionOf(a, q)
  <2>1. q \in Seq(ActionIds) /\ Injective(q)
    BY DEF ModelTypeOK, CleanIn
  <2>2. i \in DOMAIN q /\ q[i] = a
    BY <2>1, PositionOfProperties
  <2> HIDE DEF q, i
  <2>3. Injective(RemoveIndex(q, i)) /\ Elems(RemoveIndex(q, i)) = Elems(q) \ {q[i]}
    BY <2>1, <2>2, RemoveIndexInjective
  <2> QED BY <2>2, <2>3 DEF q, i
<1> HIDE DEF v, rest
<1>4. Placed(c, {a}, v)
  BY <1>1, <1>3, AnswersForNone DEF CleanIn, Placed, Parted
<1> QED
  BY <1>2, <1>4 DEF PlacedView, v

\* Starting a pending action for the user puts it in the phase or answers it.
LEMMA StartForUserPlaced ==
    ASSUME ModelTypeOK, NEW c \in Conversations, CleanIn(c), NEW a \in Elems(pending[c])
    PROVE  StartForUser(c, ViewOf(c), a)
             \in PlacedView(c, Elems(pending[c]), running[c].ids, FinishedIds(c), {})
<1> DEFINE Q == Elems(pending[c])
           R == running[c].ids
           F == FinishedIds(c)
           v == WithoutPending(c, a)
           w == [v EXCEPT !.status = "InProgress"]
           e == ExecutorFinished(c, a, "Completed", NoReason)
           now == [w EXCEPT !.events = Append(@, e)]
           later == [w EXCEPT !.running = [phase |-> PhaseOf({a}), ids |-> @.ids \cup {a}],
                              !.started = {a}]
<1>1. /\ v \in PlacedView(c, Q, R, F, {a}) /\ v.started = {} /\ a \in ActionIds
      /\ v.events = <<>> /\ a \in Q
  BY WithoutPendingPlaced, WithoutPendingFramed DEF WithoutPending, ViewOf
<1>2. w = [ViewOf(c) EXCEPT !.pending = RemoveIndex(@, PositionOf(a, @)),
                            !.status = "InProgress"]
  BY DEF WithoutPending, ViewOf
<1> HIDE DEF v, Q, R, F
<1>3. /\ w \in View /\ w.pending = v.pending /\ w.running = v.running /\ w.started = {}
      /\ w.finished = v.finished /\ w.events = <<>>
  BY <1>1 DEF PlacedView, FramedView, View, Statuses
<1> HIDE DEF w
<1>4. Framed(c, Q, R, F, v) /\ Placed(c, {a}, v)
  BY <1>1 DEF PlacedView, FramedView
<1>5. e \in Event /\ e.conv = c /\ e.id = a
  BY <1>1, ExecutorFinishedType DEF Results, ExecutorFinished
<1>6. AnsweredFor(c, <<e>>) = {a} /\ AnsweredOnce(c, <<e>>)
  <2>1. \A d : /\ AnsweredFor(d, <<e>>) = IF d = c THEN {a} ELSE {}
               /\ AnsweredOnce(d, <<e>>)
    BY AnswersForOne
  <2> HIDE DEF e
  <2> QED BY <2>1
<1> HIDE DEF e
<1>7. /\ now \in View /\ now.pending = v.pending /\ now.running = v.running
      /\ now.started = {} /\ now.finished = v.finished /\ now.events = <<e>>
  <2> DEFINE one == <<e>>
  <2>1. Append(<<>>, e) = one /\ one \in Seq(Event)
    BY <1>5
  <2>2. now = [w EXCEPT !.events = one]
    BY <1>3, <2>1
  <2> HIDE DEF one, now
  <2>3. /\ now \in View /\ now.pending = w.pending /\ now.running = w.running
        /\ now.started = w.started /\ now.finished = w.finished /\ now.events = one
    BY <1>3, <2>1, <2>2 DEF View
  <2> QED BY <1>3, <2>3 DEF one
<1>8. /\ later \in View /\ later.pending = v.pending /\ later.started = {a}
      /\ later.running.ids = v.running.ids \cup {a}
      /\ later.finished = v.finished /\ later.events = <<>>
  BY <1>1, <1>3, PhaseOfType DEF View, Running, Phases
<1> HIDE DEF now, later
<1>9. now \in PlacedView(c, Q, R, F, {})
  <2>1. AnsweredIds(<<e>>) \subseteq {a} /\ \A i \in AnswersIn(<<e>>) : <<e>>[i].conv = c
    BY <1>5 DEF AnsweredIds, AnswersIn
  <2>2. Framed(c, Q, R, F, now)
    BY <1>1, <1>4, <1>7, <2>1 DEF Framed
  <2>3. Placed(c, {}, now)
    BY <1>1, <1>4, <1>6, <1>7 DEF Placed, Parted
  <2> QED BY <1>7, <2>2, <2>3 DEF PlacedView, FramedView
<1>10. later \in PlacedView(c, Q, R, F, {})
  <2>1. Framed(c, Q, R, F, later)
    BY <1>1, <1>4, <1>8 DEF Framed
  <2>2. Placed(c, {}, later)
    BY <1>1, <1>4, <1>8, AnswersForNone DEF Placed, Parted
  <2> QED BY <1>8, <2>1, <2>2 DEF PlacedView, FramedView
<1>11. StartForUser(c, ViewOf(c), a) \in {TryExecuteAvailable(c, now), later}
  BY <1>2 DEF StartForUser, now, later, e
<1>12. TryExecuteAvailable(c, now) \in PlacedView(c, Q, R, F, {})
  BY <1>9, TryExecuteAvailablePlaced
<1> QED
  BY <1>10, <1>11, <1>12 DEF Q, R, F

\* Released actions that are not in the queue join it and are served.
LEMMA EnqueuePlaced ==
    ASSUME ModelTypeOK, NEW c \in Conversations, CleanIn(c),
           NEW released \in Seq(ActionIds), Injective(released),
           Elems(released) \cap Elems(pending[c]) = {}
    PROVE  Enqueue(c, released)
             \in PlacedView(c, Elems(pending[c]) \cup Elems(released), running[c].ids,
                            FinishedIds(c), {})
<1> DEFINE Q == Elems(pending[c]) \cup Elems(released)
           v == ViewOf(c)
           more == Filter(released, ActionIds \ FinishedIds(c))
           w == [v EXCEPT !.pending = @ \o more]
<1>1. /\ v \in PlacedView(c, Q, running[c].ids, FinishedIds(c), {}) /\ v.pending = pending[c]
      /\ pending[c] \in Seq(ActionIds) /\ v.started = {} /\ v.events = <<>>
      /\ IdsOf(v.finished) = FinishedIds(c) /\ ResultedOnce(v.finished)
  BY ViewOfPlaced DEF ViewOf, ModelTypeOK, FinishedIds, IdsOf, CleanIn
<1>2. more \in Seq(ActionIds) /\ Elems(more) = Elems(released) \cap (ActionIds \ FinishedIds(c))
      /\ Injective(more)
  BY FilterProperties, FilterElems, FilterInjective
<1> HIDE DEF v, more
<1>3. Injective(v.pending) /\ Elems(v.pending) \cap Elems(more) = {}
      /\ Elems(v.pending) \cap FinishedIds(c) = {}
  BY <1>1, <1>2 DEF CleanIn
<1>4. /\ v.pending \o more \in Seq(ActionIds)
      /\ Elems(v.pending \o more) = Elems(v.pending) \cup Elems(more)
      /\ Injective(v.pending \o more)
  BY <1>1, <1>2, <1>3, ConcatElems, ConcatInjective
<1>5. /\ w \in View /\ w.pending = v.pending \o more /\ w.running = v.running
      /\ w.started = v.started /\ w.finished = v.finished /\ w.events = v.events
  BY <1>1, <1>4 DEF PlacedView, FramedView, View
<1> HIDE DEF w
<1>6. Elems(v.pending \o more) \subseteq Q
  BY <1>1, <1>2, <1>4
<1>7. w \in FramedView(c, Q, running[c].ids, FinishedIds(c))
  BY <1>1, <1>5, <1>6 DEF PlacedView, FramedView, Framed
<1>8. Placed(c, {}, w)
  BY <1>1, <1>2, <1>3, <1>4, <1>5, AnswersForNone DEF Placed, Parted
<1> HIDE DEF Q
<1>9. w \in PlacedView(c, Q, running[c].ids, FinishedIds(c), {})
  BY <1>7, <1>8 DEF PlacedView
<1> QED
  BY <1>9, TryExecuteAvailablePlaced DEF Enqueue, w, v, more, Q

\* Cancelling the whole queue finishes what was in it.
LEMMA CancelPendingPlaced ==
    ASSUME ModelTypeOK, NEW c \in Conversations, CleanIn(c),
           NEW reason \in Reasons \cup {NoReason},
           NEW v \in View, v.pending = pending[c], v.running = running[c],
           v.finished = finished[c], v.started = {}, v.events = <<>>
    PROVE  CancelPending(c, v, reason)
             \in PlacedView(c, {}, running[c].ids, FinishedIds(c) \cup Elems(pending[c]), {})
<1> DEFINE w == [v EXCEPT !.pending = <<>>]
           N == Elems(pending[c])
           F == FinishedIds(c) \cup Elems(pending[c])
<1>1. /\ v \in View /\ v.pending = pending[c] /\ v.running = running[c]
      /\ v.finished = finished[c] /\ v.started = {} /\ v.events = <<>>
  OBVIOUS
<1>2. v.pending \in Seq(ActionIds) /\ Injective(v.pending) /\ Elems(v.pending) = N
  BY <1>1 DEF View, CleanIn
<1>3. /\ w \in View /\ w.pending = <<>> /\ w.running = v.running
      /\ w.finished = v.finished /\ w.started = v.started /\ w.events = v.events
  <2>1. v \in View /\ <<>> \in Seq(ActionIds)
    OBVIOUS
  <2>2. w \in View
    BY <2>1 DEF View
  <2> QED BY <2>1, <2>2 DEF View
<1> HIDE DEF w
<1>4. Elems(<<>>) = {} /\ AnswersIn(<<>>) = {} /\ Injective(<<>>)
  BY DEF Elems, AnswersIn, Injective
<1>5. IdsOf(w.finished) = FinishedIds(c)
  BY <1>1, <1>3 DEF IdsOf, FinishedIds
<1>6. w \in FramedView(c, {}, running[c].ids, F)
  BY <1>1, <1>3, <1>4, <1>5 DEF FramedView, Framed, AnsweredIds
<1>7. Placed(c, N, w)
  BY <1>1, <1>3, <1>4, <1>5, AnswersForNone DEF CleanIn, Placed, Parted
<1>8. w \in PlacedView(c, {}, running[c].ids, F, N)
  BY <1>6, <1>7 DEF PlacedView
<1>9. N \subseteq F \cup {} /\ N \ N = {}
  OBVIOUS
<1> HIDE DEF F, N
<1>10. CancelEach(c, w, v.pending, reason) \in PlacedView(c, {}, running[c].ids, F, {})
  BY <1>2, <1>8, <1>9, CancelEachPlaced
<1> QED
  BY <1>10 DEF CancelPending, w, F

\* The same in the view a handler starts from.
LEMMA CancelOwnPlaced ==
    ASSUME ModelTypeOK, NEW c \in Conversations, CleanIn(c),
           NEW reason \in Reasons \cup {NoReason}
    PROVE  CancelPending(c, ViewOf(c), reason)
             \in PlacedView(c, {}, running[c].ids, FinishedIds(c) \cup Elems(pending[c]), {})
<1> DEFINE v == ViewOf(c)
<1>1. /\ v \in View /\ v.pending = pending[c] /\ v.running = running[c]
      /\ v.finished = finished[c] /\ v.started = {} /\ v.events = <<>>
  BY ViewOfType DEF ViewOf
<1> HIDE DEF v
<1> QED BY <1>1, CancelPendingPlaced DEF v

-----------------------------------------------------------------------------
(* The places of a conversation's actions are apart in every state.        *)

\* The agent does not give an action of one conversation the identifier of an
\* action of another: the executor knows what it runs by the identifier alone.
DistinctIdentifiers ==
    \A c, d \in Conversations : c # d =>
        \A o \in Outputs[c], p \in Outputs[d] : Elems(o) \cap Elems(p) = {}

(***************************************************************************)
(* The places of the actions of a conversation: preprocessed P, queued Q,  *)
(* in the phase R, finished F, answered A (the result is on its way),      *)
(* executing X and drained Old.  What is in the phase is either executing  *)
(* or answered.                                                            *)
(***************************************************************************)
Apart(P, Q, R, F, A, X, Old) ==
    /\ P \cap (Q \cup R \cup A \cup F) = {}
    /\ Q \cap (R \cup A \cup F) = {}
    /\ (R \cup A) \cap F = {}
    /\ (P \cup Q \cup R \cup A) \cap Old = {}
    /\ X \subseteq R
    /\ \A a \in R : (a \in X) # (a \in A)

\* The actions that execs has executing in c.
ExecutingFor(c, execs) == {a \in ActionIds : execs[a] = c}

\* No action is preprocessed twice.
PreprocessedOnce(es) == \A i, j \in DOMAIN es : es[i].id = es[j].id => i = j

SingleIn(c) ==
    /\ Apart(PreprocessingIds(c), Elems(pending[c]), running[c].ids, FinishedIds(c),
             AnsweredFor(c, effects), ExecutingIn(c), past)
    /\ PreprocessedOnce(preprocessing[c])
    /\ Injective(pending[c])
    /\ ResultedOnce(finished[c])
    /\ AnsweredOnce(c, effects)

SinglesInv == \A c \in Conversations : SingleIn(c)

\* Only actions of the agent's outputs are received, and only received ones drained.
OwnIdentifiers(c) == UNION {Elems(o) : o \in Outputs[c]}

IdentifiersInv ==
    /\ \A c \in Conversations : received[c] \subseteq OwnIdentifiers(c)
    /\ past \subseteq UNION {received[c] : c \in Conversations}

\* The inductive invariant, in this module or one that extends it.
PlacedState(E) ==
    KnownState(E) /\ IdentifiersInv /\ SinglesInv /\ DistinctIdentifiers

\* Two conversations have no action in common.
LEMMA ReceivedApart ==
    ASSUME DistinctIdentifiers, IdentifiersInv,
           NEW c \in Conversations, NEW d \in Conversations, c # d
    PROVE  received[c] \cap received[d] = {} /\ OwnIdentifiers(c) \cap received[d] = {}
<1>1. OwnIdentifiers(c) \cap OwnIdentifiers(d) = {}
  <2>1. SUFFICES ASSUME NEW x \in OwnIdentifiers(c), x \in OwnIdentifiers(d) PROVE FALSE
    OBVIOUS
  <2>2. PICK o \in Outputs[c] : x \in Elems(o)
    BY <2>1 DEF OwnIdentifiers
  <2>3. PICK p \in Outputs[d] : x \in Elems(p)
    BY <2>1 DEF OwnIdentifiers
  <2> QED BY <2>2, <2>3 DEF DistinctIdentifiers
<1> QED
  BY <1>1 DEF IdentifiersInv

\* A handler takes from the queue what it leaves there (Q2), starts (S), answers (G)
\* and finishes (F2): the places stay apart.
LEMMA ApartStep ==
    ASSUME NEW P, NEW Q, NEW R, NEW F, NEW A, NEW X, NEW Old, Apart(P, Q, R, F, A, X, Old),
           NEW Q2, NEW S, NEW G, NEW F2, Q2 \subseteq Q, S \subseteq Q, G \subseteq Q,
           F2 \subseteq F \cup Q, NEW N, Parted(Q2, S, G, F2, N)
    PROVE  Apart(P, Q2, R \cup S, F2, A \cup G, X \cup S, Old)
<1>1. /\ P \cap (Q2 \cup (R \cup S) \cup (A \cup G) \cup F2) = {}
      /\ Q2 \cap ((R \cup S) \cup (A \cup G) \cup F2) = {}
      /\ ((R \cup S) \cup (A \cup G)) \cap F2 = {}
      /\ (P \cup Q2 \cup (R \cup S) \cup (A \cup G)) \cap Old = {}
      /\ X \cup S \subseteq R \cup S
  BY DEF Apart, Parted
<1>2. ASSUME NEW a \in R \cup S PROVE (a \in X \cup S) # (a \in A \cup G)
  <2>1. CASE a \in R
    <3>1. a \notin S /\ a \notin G
      BY <2>1 DEF Apart
    <3>2. (a \in X) # (a \in A)
      BY <2>1 DEF Apart
    <3>3. (a \in X \cup S <=> a \in X) /\ (a \in A \cup G <=> a \in A)
      BY <3>1
    <3> QED BY <3>2, <3>3
  <2>2. CASE a \in S
    <3>1. a \notin A \cup G
      BY <2>2 DEF Apart, Parted
    <3> QED BY <2>2, <3>1
  <2> QED BY <1>2, <2>1, <2>2
<1> QED
  BY <1>1, <1>2 DEF Apart

\* A conversation that a step leaves alone, while actions of another are drained.
LEMMA OtherSingle ==
    ASSUME NEW E, PlacedState(E), NEW c \in Conversations, NEW d \in Conversations, c # d,
           preprocessing'[d] = preprocessing[d], pending'[d] = pending[d],
           running'[d].ids = running[d].ids, finished'[d] = finished[d],
           AnsweredFor(d, effects') = AnsweredFor(d, effects), AnsweredOnce(d, effects'),
           ExecutingIn(d)' = ExecutingIn(d), past' \subseteq past \cup received[c]
    PROVE  SingleIn(d)'
<1>1. SingleIn(d)
  BY DEF PlacedState, SinglesInv
<1>2. PreprocessingIds(d)' = PreprocessingIds(d) /\ FinishedIds(d)' = FinishedIds(d)
  BY DEF PreprocessingIds, FinishedIds
<1>3. PreprocessingIds(d) \cup Elems(pending[d]) \cup running[d].ids \cup AnsweredFor(d, effects)
          \subseteq received[d]
  BY DEF PlacedState, KnownState, KnownInv, PlacesKnown, EventsKnown
<1>4. received[c] \cap received[d] = {}
  BY ReceivedApart DEF PlacedState
<1>5. Apart(PreprocessingIds(d), Elems(pending[d]), running[d].ids, FinishedIds(d),
            AnsweredFor(d, effects), ExecutingIn(d), past')
  BY <1>1, <1>3, <1>4 DEF SingleIn, Apart
<1> QED
  BY <1>1, <1>2, <1>5 DEF SingleIn

\* A view that holds each action once, committed, leaves each action in one place.
LEMMA CommitSingles ==
    ASSUME NEW E, PlacedState(E), NEW c \in Conversations,
           NEW Q, NEW R, NEW F, NEW N, NEW v \in PlacedView(c, Q, R, F, N),
           Q \subseteq received[c],
           NEW queue \in Seq(E), NEW execs, Commit(c, v, queue, execs), UNCHANGED past,
           PreprocessedOnce(preprocessing'[c]),
           Apart(PreprocessingIds(c)', Q, R, F, AnsweredFor(c, queue), ExecutingFor(c, execs), past),
           AnsweredOnce(c, queue),
           \A d \in Conversations : d # c =>
               /\ preprocessing'[d] = preprocessing[d]
               /\ AnsweredFor(d, queue) = AnsweredFor(d, effects) /\ AnsweredOnce(d, queue)
               /\ ExecutingFor(d, execs) = ExecutingIn(d)
    PROVE  SinglesInv'
<1>1. /\ v \in FramedView(c, Q, R, F) /\ Framed(c, Q, R, F, v) /\ Placed(c, N, v)
      /\ v \in View /\ v.events \in Seq(E) /\ v.started \subseteq ActionIds
  BY EventsAreEffects DEF PlacedView, FramedView, View, PlacedState, KnownState
<1>2. effects' = queue \o v.events
  BY DEF Commit
<1>3. \A d : /\ AnsweredFor(d, effects') = AnsweredFor(d, queue) \cup AnsweredFor(d, v.events)
             /\ (/\ AnsweredOnce(d, queue) /\ AnsweredOnce(d, v.events)
                 /\ AnsweredFor(d, queue) \cap AnsweredFor(d, v.events) = {})
                    => AnsweredOnce(d, effects')
  BY <1>1, <1>2, AnswersForConcat
<1>4. SingleIn(c)'
  <2>1. /\ pending'[c] = v.pending /\ running'[c] = v.running /\ finished'[c] = v.finished
    BY DEF Commit, PlacedState, KnownState, ModelTypeOK
  <2>2. FinishedIds(c)' = IdsOf(v.finished)
    BY <2>1 DEF FinishedIds, IdsOf
  <2>3. ExecutingIn(c)' = ExecutingFor(c, execs) \cup v.started
    BY <1>1 DEF Commit, ExecutingIn, ExecutingFor
  <2>4. AnsweredFor(c, v.events) \subseteq Q
    BY <1>1, AnswersForView
  <2>5. /\ Elems(v.pending) \subseteq Q /\ v.started \subseteq Q
        /\ v.running.ids = R \cup v.started /\ IdsOf(v.finished) \subseteq F \cup Q
    BY <1>1 DEF Framed
  <2>6. /\ Parted(Elems(v.pending), v.started, AnsweredFor(c, v.events), IdsOf(v.finished), N)
        /\ Injective(v.pending) /\ ResultedOnce(v.finished) /\ AnsweredOnce(c, v.events)
    BY <1>1 DEF Placed
  <2>7. Apart(PreprocessingIds(c)', Elems(v.pending), R \cup v.started, IdsOf(v.finished),
              AnsweredFor(c, queue) \cup AnsweredFor(c, v.events),
              ExecutingFor(c, execs) \cup v.started, past)
    BY <2>4, <2>5, <2>6, ApartStep
  <2>8. AnsweredFor(c, queue) \cap AnsweredFor(c, v.events) = {}
    BY <2>4 DEF Apart
  <2>9. AnsweredOnce(c, effects')
    BY <1>3, <2>6, <2>8
  <2> QED BY <1>3, <2>1, <2>2, <2>3, <2>5, <2>6, <2>7, <2>9 DEF SingleIn
<1>5. ASSUME NEW d \in Conversations, d # c PROVE SingleIn(d)'
  <2>1. /\ pending'[d] = pending[d] /\ running'[d] = running[d] /\ finished'[d] = finished[d]
    BY <1>5 DEF Commit, PlacedState, KnownState, ModelTypeOK
  <2>2. AnsweredFor(d, v.events) = {} /\ AnsweredOnce(d, v.events)
    BY <1>1, <1>5, AnswersForView
  <2>3. AnsweredFor(d, effects') = AnsweredFor(d, effects) /\ AnsweredOnce(d, effects')
    BY <1>3, <1>5, <2>2
  <2>4. ExecutingIn(d) \cap v.started = {}
    <3>1. ExecutingIn(d) \subseteq received[d]
      BY DEF PlacedState, KnownState, KnownInv, ExecsKnown, ExecutingIn
    <3>2. v.started \subseteq received[c]
      BY <1>1 DEF Framed
    <3> QED BY <1>5, <3>1, <3>2, ReceivedApart DEF PlacedState
  <2>5. ExecutingIn(d)' = ExecutingIn(d)
    <3>1. ExecutingIn(d)' = ExecutingFor(d, execs) \ v.started
      BY <1>1, <1>5 DEF Commit, ExecutingIn, ExecutingFor
    <3> QED BY <1>5, <2>4, <3>1
  <2> QED BY <1>5, <2>1, <2>3, <2>5, OtherSingle
<1> QED
  BY <1>4, <1>5 DEF SinglesInv

\* Two sequences of entries, one after the other.
LEMMA PreprocessedOnceConcat ==
    ASSUME NEW s \in Seq(Entry), NEW t \in Seq(Entry),
           PreprocessedOnce(s), PreprocessedOnce(t), IdsOf(s) \cap IdsOf(t) = {}
    PROVE  PreprocessedOnce(s \o t) /\ IdsOf(s \o t) = IdsOf(s) \cup IdsOf(t)
<1> DEFINE st == s \o t
<1>1. /\ Len(s) \in Nat /\ Len(t) \in Nat /\ DOMAIN st = 1..(Len(s) + Len(t))
      /\ DOMAIN s = 1..Len(s) /\ DOMAIN t = 1..Len(t)
      /\ \A k \in 1..Len(s) : st[k] = s[k]
      /\ \A k \in 1..Len(t) : st[Len(s) + k] = t[k]
  OBVIOUS
<1> HIDE DEF st
<1>2. \A k \in DOMAIN s : k \in DOMAIN st /\ st[k].id = s[k].id /\ s[k].id \in IdsOf(s)
  BY <1>1 DEF IdsOf
<1>3. \A k \in DOMAIN t : /\ Len(s) + k \in DOMAIN st /\ st[Len(s) + k].id = t[k].id
                          /\ t[k].id \in IdsOf(t)
  BY <1>1 DEF IdsOf
<1>4. ASSUME NEW k \in DOMAIN st
      PROVE  k \in DOMAIN s \/ \E m \in DOMAIN t : k = Len(s) + m
  <2>1. CASE k <= Len(s)
    BY <1>1, <1>4, <2>1
  <2>2. CASE k > Len(s)
    <3>1. k - Len(s) \in DOMAIN t /\ k = Len(s) + (k - Len(s))
      BY <1>1, <1>4, <2>2
    <3> QED BY <3>1
  <2> QED BY <1>1, <1>4, <2>1, <2>2
<1>5. ASSUME NEW i \in DOMAIN st, NEW j \in DOMAIN st, st[i].id = st[j].id PROVE i = j
  <2>1. CASE i \in DOMAIN s /\ j \in DOMAIN s
    BY <1>2, <1>5, <2>1 DEF PreprocessedOnce
  <2>2. ASSUME NEW k \in DOMAIN t, NEW m \in DOMAIN t, i = Len(s) + k, j = Len(s) + m
        PROVE  i = j
    BY <1>3, <1>5, <2>2 DEF PreprocessedOnce
  <2>3. \A k \in DOMAIN s, m \in DOMAIN t : st[k].id # st[Len(s) + m].id
    BY <1>2, <1>3
  <2> QED BY <1>4, <1>5, <2>1, <2>2, <2>3
<1>6. \A x \in IdsOf(st) : x \in IdsOf(s) \cup IdsOf(t)
  <2>1. \A k \in DOMAIN st : st[k].id \in IdsOf(s) \cup IdsOf(t)
    BY <1>2, <1>3, <1>4
  <2> QED BY <2>1 DEF IdsOf
<1>7. \A x \in IdsOf(s) \cup IdsOf(t) : x \in IdsOf(st)
  <2>1. \A k \in DOMAIN s : s[k].id \in IdsOf(st)
    BY <1>2 DEF IdsOf
  <2>2. \A k \in DOMAIN t : t[k].id \in IdsOf(st)
    BY <1>3 DEF IdsOf
  <2> QED BY <2>1, <2>2 DEF IdsOf
<1> QED
  BY <1>5, <1>6, <1>7 DEF PreprocessedOnce, st

\* The entries of an output are those of its actions.
LEMMA TaggedOnce ==
    ASSUME NEW output \in Seq(ActionIds), output # <<>>, Injective(output)
    PROVE  /\ Tagged(output) \in Seq(Entry) /\ PreprocessedOnce(Tagged(output))
           /\ IdsOf(Tagged(output)) = Elems(output)
<1> DEFINE t == Tagged(output)
<1>1. /\ DOMAIN t = 1..Len(output) /\ Len(output) \in Nat /\ t \in Seq(Entry)
      /\ DOMAIN output = 1..Len(output)
      /\ \A i \in 1..Len(output) : t[i].id = output[i]
  <2>1. \A i \in 1..Len(output) :
            [id |-> output[i], batch |-> output[1], done |-> FALSE] \in Entry
    BY DEF Entry
  <2> QED BY <2>1 DEF Tagged
<1> HIDE DEF t
<1> QED
  BY <1>1 DEF PreprocessedOnce, IdsOf, Elems, Injective, t

\* queue_actions: the actions of the output are new, in this and in every conversation.
LEMMA QueueActionsSingles ==
    ASSUME NEW E, PlacedState(E), NEW c \in Conversations, NEW output \in Outputs[c],
           QueueActions(c, output)
    PROVE  SinglesInv' /\ IdentifiersInv'
<1>1. output \in Seq(ActionIds) /\ output # <<>> /\ Injective(output)
  BY OutputsAssumption
<1>2. /\ Elems(output) \cap received[c] = {}
      /\ received' = [received EXCEPT ![c] = @ \cup Elems(output)]
      /\ preprocessing' = [preprocessing EXCEPT ![c] = @ \o Tagged(output)]
      /\ UNCHANGED <<pending, running, executing, finished, past, effects>>
  BY DEF QueueActions
<1>3. /\ preprocessing \in [Conversations -> Seq(Entry)]
      /\ received \in [Conversations -> SUBSET ActionIds]
  BY DEF PlacedState, KnownState, ModelTypeOK
<1>4. Elems(output) \subseteq OwnIdentifiers(c)
  BY DEF OwnIdentifiers
<1>5. IdentifiersInv'
  <2>1. \A d \in Conversations : received[d] \subseteq received'[d]
    BY <1>2, <1>3
  <2>2. \A d \in Conversations : received'[d] \subseteq OwnIdentifiers(d)
    BY <1>2, <1>3, <1>4 DEF PlacedState, IdentifiersInv
  <2>3. past' \subseteq UNION {received'[d] : d \in Conversations}
    BY <1>2, <2>1 DEF PlacedState, IdentifiersInv
  <2> QED BY <2>2, <2>3 DEF IdentifiersInv
<1>6. Elems(output) \cap past = {}
  <2>1. \A d \in Conversations : Elems(output) \cap received[d] = {}
    BY <1>2, <1>4, ReceivedApart DEF PlacedState
  <2> QED BY <2>1 DEF PlacedState, IdentifiersInv
<1>7. SingleIn(c)'
  <2> DEFINE s == preprocessing[c]
             t == Tagged(output)
  <2>1. /\ s \in Seq(Entry) /\ t \in Seq(Entry) /\ preprocessing'[c] = s \o t
        /\ PreprocessedOnce(t) /\ IdsOf(t) = Elems(output)
    BY <1>1, <1>2, <1>3, TaggedOnce
  <2>2. IdsOf(s) = PreprocessingIds(c) /\ PreprocessedOnce(s)
    BY DEF IdsOf, PreprocessingIds, PlacedState, SinglesInv, SingleIn
  <2> HIDE DEF s, t
  <2>3. /\ PreprocessingIds(c) \cup Elems(pending[c]) \cup running[c].ids \cup FinishedIds(c)
              \cup AnsweredFor(c, effects) \subseteq received[c]
    BY DEF PlacedState, KnownState, KnownInv, PlacesKnown, EventsKnown
  <2>4. PreprocessedOnce(s \o t) /\ IdsOf(s \o t) = PreprocessingIds(c) \cup Elems(output)
    BY <1>2, <2>1, <2>2, <2>3, PreprocessedOnceConcat
  <2>5. PreprocessingIds(c)' = PreprocessingIds(c) \cup Elems(output)
    BY <2>1, <2>4 DEF PreprocessingIds, IdsOf
  <2>6. SingleIn(c)
    BY DEF PlacedState, SinglesInv
  <2>7. FinishedIds(c)' = FinishedIds(c) /\ ExecutingIn(c)' = ExecutingIn(c)
    BY <1>2 DEF FinishedIds, ExecutingIn
  <2>8. Apart(PreprocessingIds(c) \cup Elems(output), Elems(pending[c]), running[c].ids,
              FinishedIds(c), AnsweredFor(c, effects), ExecutingIn(c), past)
    BY <1>2, <1>6, <2>3, <2>6 DEF SingleIn, Apart
  <2> QED BY <1>2, <2>1, <2>4, <2>5, <2>6, <2>7, <2>8 DEF SingleIn
<1>8. ASSUME NEW d \in Conversations, d # c PROVE SingleIn(d)'
  <2>1. preprocessing'[d] = preprocessing[d]
    BY <1>2, <1>3, <1>8
  <2>2. ExecutingIn(d)' = ExecutingIn(d)
    BY <1>2 DEF ExecutingIn
  <2>3. AnsweredOnce(d, effects)
    BY DEF PlacedState, SinglesInv, SingleIn
  <2> QED BY <1>2, <1>8, <2>1, <2>2, <2>3, OtherSingle
<1> QED
  BY <1>5, <1>7, <1>8 DEF SinglesInv

\* Preprocessing releases a first part of the entries and keeps the rest.
LEMMA ReleasedOnce ==
    ASSUME ModelTypeOK, NEW c \in Conversations, NEW b \in ActionIds, BatchResolves(c, b),
           PreprocessedOnce(preprocessing[c])
    PROVE  LET released == [i \in 1..Releasable(Completed(c, b)) |-> Completed(c, b)[i].id]
           IN  /\ Injective(released) /\ released \in Seq(ActionIds)
               /\ Elems(released) \subseteq PreprocessingIds(c)
               /\ PreprocessingIds(c)' = PreprocessingIds(c) \ Elems(released)
               /\ PreprocessedOnce(preprocessing'[c])
               /\ \A d \in Conversations : d # c => preprocessing'[d] = preprocessing[d]
<1> DEFINE es == Completed(c, b)
           n == Releasable(es)
           released == [i \in 1..n |-> es[i].id]
           rest == DropFirst(es, n)
<1>1. preprocessing[c] \in Seq(Entry) /\ preprocessing' = [preprocessing EXCEPT ![c] = rest]
      /\ preprocessing \in [Conversations -> Seq(Entry)]
  BY DEF ModelTypeOK, BatchResolves
<1>2. /\ released \in Seq(ActionIds) /\ rest \in Seq(Entry)
  BY ReleasedType
<1>3. /\ DOMAIN es = DOMAIN preprocessing[c]
      /\ \A i \in DOMAIN es : es[i].id = preprocessing[c][i].id
  <2>1. DOMAIN es = DOMAIN preprocessing[c]
    BY DEF Completed
  <2>2. ASSUME NEW i \in DOMAIN preprocessing[c] PROVE es[i].id = preprocessing[c][i].id
    <3> DEFINE e == preprocessing[c][i]
               d == e.done \/ e.batch = b
    <3>1. e \in Entry
      BY <1>1
    <3>2. es[i] = [e EXCEPT !.done = d]
      BY DEF Completed
    <3> HIDE DEF e, d, es
    <3>3. es[i].id = e.id
      BY <3>1, <3>2 DEF Entry
    <3> QED BY <3>3 DEF e
  <2> HIDE DEF es
  <2> QED BY <2>1, <2>2
<1>4. DOMAIN es = 1..Len(preprocessing[c]) /\ Len(preprocessing[c]) \in Nat
  BY <1>1, <1>3
<1>5. Len(es) = Len(preprocessing[c]) /\ rest = SubSeq(es, n + 1, Len(es))
  <2>1. es = [i \in DOMAIN preprocessing[c] |-> es[i]]
    BY DEF Completed
  <2> HIDE DEF es
  <2>2. es \in [1..Len(preprocessing[c]) -> {es[i] : i \in 1..Len(preprocessing[c])}]
    BY <1>3, <1>4, <2>1
  <2>3. es \in Seq({es[i] : i \in 1..Len(preprocessing[c])})
    BY <1>4, <2>2
  <2> QED BY <1>4, <2>3 DEF DropFirst
<1> HIDE DEF es
<1>6. n \in 0..Len(es) /\ Len(es) \in Nat
  BY <1>4, <1>5, PrefixLenProperties DEF Releasable
<1> HIDE DEF n
<1>7. /\ DOMAIN rest = 1..(Len(es) - n)
      /\ \A i \in 1..(Len(es) - n) : rest[i] = es[n + i]
  BY <1>5, <1>6
<1>8. DOMAIN released = 1..n /\ \A i \in 1..n : released[i] = es[i].id
  OBVIOUS
<1> HIDE DEF released, rest
<1> DEFINE pre == preprocessing[c]
           L == Len(es)
<1>9. \A i \in 1..n : i \in DOMAIN pre /\ released[i] = pre[i].id
  <2>1. \A i \in 1..n : i \in DOMAIN es
    BY <1>4, <1>5, <1>6
  <2> QED BY <1>3, <1>8, <2>1
<1>10. \A i \in 1..(L - n) : n + i \in DOMAIN pre /\ rest[i].id = pre[n + i].id
  BY <1>3, <1>4, <1>5, <1>6, <1>7, SMTT(30)
<1>11. preprocessing'[c] = rest
  BY <1>1
<1> HIDE DEF pre
<1>12. \A i, j \in DOMAIN pre : pre[i].id = pre[j].id => i = j
  BY DEF PreprocessedOnce, pre
<1>13. Injective(released)
  BY <1>8, <1>9, <1>12 DEF Injective
<1>14. PreprocessedOnce(rest)
  <2>1. ASSUME NEW i \in 1..(L - n), NEW j \in 1..(L - n), rest[i].id = rest[j].id PROVE i = j
    <3>1. n + i = n + j
      BY <1>10, <1>12, <2>1
    <3> QED BY <1>6, <2>1, <3>1
  <2> QED BY <1>7, <2>1 DEF PreprocessedOnce
<1>15. Elems(released) \subseteq PreprocessingIds(c)
  BY <1>8, <1>9 DEF Elems, PreprocessingIds, pre
<1>16. \A x \in PreprocessingIds(c)' : x \in PreprocessingIds(c) \ Elems(released)
  <2>1. ASSUME NEW i \in 1..(L - n)
        PROVE  rest[i].id \in PreprocessingIds(c) /\ \A j \in 1..n : rest[i].id # released[j]
    <3>1. \A j \in 1..n : j # n + i
      BY <1>6, <2>1
    <3> QED BY <1>9, <1>10, <1>12, <2>1, <3>1 DEF PreprocessingIds, pre
  <2> QED BY <1>7, <1>8, <1>11, <2>1 DEF PreprocessingIds, Elems
<1>17. \A x \in PreprocessingIds(c) \ Elems(released) : x \in PreprocessingIds(c)'
  <2>1. ASSUME NEW k \in DOMAIN pre, pre[k].id \notin Elems(released)
        PROVE  pre[k].id \in PreprocessingIds(c)'
    <3>1. k \in 1..L /\ k \notin 1..n
      BY <1>3, <1>4, <1>5, <1>8, <1>9, <2>1 DEF Elems, pre
    <3>2. k - n \in 1..(L - n) /\ n + (k - n) = k
      BY <1>6, <3>1
    <3>3. rest[k - n].id = pre[k].id
      BY <1>10, <3>2
    <3> QED BY <1>7, <1>11, <3>2, <3>3 DEF PreprocessingIds
  <2> QED BY <2>1 DEF PreprocessingIds, pre
<1>18. \A d \in Conversations : d # c => preprocessing'[d] = preprocessing[d]
  BY <1>1
<1> QED
  BY <1>2, <1>11, <1>13, <1>14, <1>15, <1>16, <1>17, <1>18 DEF released, n, es

\* In a conversation whose actions are in one place, queue and results are clean.
LEMMA SingleIsClean ==
    ASSUME NEW E, PlacedState(E), NEW c \in Conversations
    PROVE  /\ CleanIn(c) /\ SingleIn(c)
           /\ Elems(pending[c]) \cup running[c].ids \cup FinishedIds(c) \cup PreprocessingIds(c)
                 \cup AnsweredFor(c, effects) \subseteq received[c]
<1>1. SingleIn(c)
  BY DEF PlacedState, SinglesInv
<1>2. Elems(pending[c]) \cap FinishedIds(c) = {}
  BY <1>1 DEF SingleIn, Apart
<1>3. Elems(pending[c]) \cup running[c].ids \cup FinishedIds(c) \cup PreprocessingIds(c)
          \cup AnsweredFor(c, effects) \subseteq received[c]
  BY DEF PlacedState, KnownState, KnownInv, PlacesKnown, EventsKnown
<1> QED
  BY <1>1, <1>2, <1>3 DEF SingleIn, CleanIn

\* Without new outputs the identifiers stay apart, whatever of c is drained.
LEMMA IdentifiersKept ==
    ASSUME IdentifiersInv, UNCHANGED received, NEW c \in Conversations,
           past' \subseteq past \cup received[c]
    PROVE  IdentifiersInv'
<1>1. past' \subseteq UNION {received'[d] : d \in Conversations}
  BY DEF IdentifiersInv
<1>2. \A d \in Conversations : received'[d] \subseteq OwnIdentifiers(d)
  BY DEF IdentifiersInv
<1> QED
  BY <1>1, <1>2 DEF IdentifiersInv

\* The places before a handler of c starts.
LEMMA OwnPlaces ==
    ASSUME NEW E, PlacedState(E), NEW c \in Conversations, UNCHANGED preprocessing
    PROVE  /\ Apart(PreprocessingIds(c)', Elems(pending[c]), running[c].ids, FinishedIds(c),
                    AnsweredFor(c, effects), ExecutingFor(c, executing), past)
           /\ PreprocessedOnce(preprocessing'[c])
           /\ AnsweredOnce(c, effects)
           /\ \A d \in Conversations : d # c =>
                  /\ preprocessing'[d] = preprocessing[d]
                  /\ AnsweredOnce(d, effects)
                  /\ ExecutingFor(d, executing) = ExecutingIn(d)
<1>1. \A d \in Conversations : SingleIn(d)
  BY DEF PlacedState, SinglesInv
<1>2. \A d \in Conversations : ExecutingFor(d, executing) = ExecutingIn(d)
  BY DEF ExecutingFor, ExecutingIn
<1>3. PreprocessingIds(c)' = PreprocessingIds(c)
  BY DEF PreprocessingIds
<1> QED
  BY <1>1, <1>2, <1>3 DEF SingleIn

\* A handler that takes from the queue of c.
LEMMA OwnCommitSingles ==
    ASSUME NEW E, PlacedState(E), NEW c \in Conversations, NEW N,
           NEW v \in PlacedView(c, Elems(pending[c]), running[c].ids, FinishedIds(c), N),
           Commit(c, v, effects, executing), UNCHANGED <<preprocessing, past, received>>
    PROVE  SinglesInv' /\ IdentifiersInv'
<1>1. Elems(pending[c]) \subseteq received[c]
  BY SingleIsClean
<1>2. effects \in Seq(E)
  BY DEF PlacedState, KnownState
<1>3. SinglesInv'
  BY <1>1, <1>2, OwnPlaces, CommitSingles
<1>4. IdentifiersInv'
  BY IdentifiersKept DEF PlacedState
<1> QED
  BY <1>3, <1>4

\* execute_action starts or answers an action that was queued.
LEMMA ExecuteActionSingles ==
    ASSUME NEW E, PlacedState(E), NEW c \in Conversations, NEW a, ExecuteAction(c, a)
    PROVE  SinglesInv' /\ IdentifiersInv'
<1>1. a \in Elems(pending[c]) /\ UNCHANGED <<preprocessing, past, received>>
  BY DEF ExecuteAction, MayStartForUser
<1>2. StartForUser(c, ViewOf(c), a)
        \in PlacedView(c, Elems(pending[c]), running[c].ids, FinishedIds(c), {})
  BY <1>1, SingleIsClean, StartForUserPlaced DEF PlacedState, KnownState
<1>3. Commit(c, StartForUser(c, ViewOf(c), a), effects, executing)
  BY DEF ExecuteAction
<1> QED
  BY <1>1, <1>2, <1>3, OwnCommitSingles

\* The result of a queued action, which is denied or cancelled.
LEMMA HandlePendingSingles ==
    ASSUME NEW E, PlacedState(E), NEW c \in Conversations, NEW a \in Elems(pending[c]),
           NEW res \in Results, NEW reason \in Reasons \cup {NoReason},
           Commit(c, HandleResult(c, WithoutPending(c, a), a, res, reason),
                  effects, executing),
           UNCHANGED <<preprocessing, past, received>>
    PROVE  SinglesInv' /\ IdentifiersInv'
<1> DEFINE v == HandleResult(c, WithoutPending(c, a), a, res, reason)
           Q == Elems(pending[c])
           R == running[c].ids
           F == FinishedIds(c)
<1>1. /\ WithoutPending(c, a) \in PlacedView(c, Q, R, F, {a}) /\ WithoutPending(c, a).started = {}
      /\ a \in ActionIds /\ a \in {a} /\ a \in F \cup Q
  BY SingleIsClean, WithoutPendingPlaced, WithoutPendingFramed DEF PlacedState, KnownState
<1>2. R \ {a} = R /\ {a} \ {a} = {}
  BY SingleIsClean DEF SingleIn, Apart
<1> HIDE DEF Q, R, F
<1>3. v \in PlacedView(c, Q, R \ {a}, F, {a} \ {a})
  BY <1>1, HandleResultPlaced DEF PlacedState, KnownState
<1> HIDE DEF v
<1>4. v \in PlacedView(c, Elems(pending[c]), running[c].ids, FinishedIds(c), {})
  BY <1>2, <1>3 DEF Q, R, F
<1> QED
  BY <1>4, OwnCommitSingles DEF v

\* handle_preprocess_actions_results moves actions from preprocessing to the queue.
LEMMA PreprocessActionsResultsSingles ==
    ASSUME NEW E, PlacedState(E), NEW c \in Conversations, NEW b \in ActionIds,
           PreprocessActionsResults(c, b)
    PROVE  SinglesInv' /\ IdentifiersInv'
<1> DEFINE released == [i \in 1..Releasable(Completed(c, b)) |-> Completed(c, b)[i].id]
           Q == Elems(pending[c])
           R == running[c].ids
           F == FinishedIds(c)
           A == AnsweredFor(c, effects)
           X == ExecutingIn(c)
<1>1. BatchResolves(c, b) /\ Commit(c, Enqueue(c, released), effects, executing)
      /\ UNCHANGED <<past, received>>
  BY DEF PreprocessActionsResults
<1>2. CleanIn(c) /\ SingleIn(c) /\ ModelTypeOK /\ effects \in Seq(E)
      /\ Q \cup PreprocessingIds(c) \subseteq received[c]
  BY SingleIsClean DEF PlacedState, KnownState
<1>3. /\ Injective(released) /\ released \in Seq(ActionIds)
      /\ Elems(released) \subseteq PreprocessingIds(c)
      /\ PreprocessingIds(c)' = PreprocessingIds(c) \ Elems(released)
      /\ PreprocessedOnce(preprocessing'[c])
      /\ \A d \in Conversations : d # c => preprocessing'[d] = preprocessing[d]
  <2>1. PreprocessedOnce(preprocessing[c])
    BY <1>2 DEF SingleIn
  <2> HIDE DEF released
  <2> QED BY <1>1, <1>2, <2>1, ReleasedOnce DEF released
<1> HIDE DEF released
<1>4. Elems(released) \cap Q = {}
  BY <1>2, <1>3 DEF SingleIn, Apart
<1>5. Enqueue(c, released) \in PlacedView(c, Q \cup Elems(released), R, F, {})
  BY <1>2, <1>3, <1>4, EnqueuePlaced
<1>6. Apart(PreprocessingIds(c), Q, R, F, A, X, past) /\ AnsweredOnce(c, effects)
  BY <1>2 DEF SingleIn
<1> HIDE DEF Q, R, F, A, X
<1>7. Apart(PreprocessingIds(c)', Q \cup Elems(released), R, F, A, X, past)
  BY <1>3, <1>6 DEF Apart
<1>8. Q \cup Elems(released) \subseteq received[c]
  BY <1>2, <1>3
<1>9. \A d \in Conversations : AnsweredOnce(d, effects) /\ ExecutingFor(d, executing) = ExecutingIn(d)
  BY DEF PlacedState, SinglesInv, SingleIn, ExecutingFor, ExecutingIn
<1>10. Apart(PreprocessingIds(c)', Q \cup Elems(released), R, F, AnsweredFor(c, effects),
             ExecutingFor(c, executing), past)
  BY <1>7, <1>9 DEF A, X
<1>11. SinglesInv'
  <2> DEFINE v == Enqueue(c, released)
             Q2 == Q \cup Elems(released)
             N == {}
  <2>1. /\ v \in PlacedView(c, Q2, R, F, N) /\ Q2 \subseteq received[c]
        /\ Commit(c, v, effects, executing) /\ past' = past
        /\ Apart(PreprocessingIds(c)', Q2, R, F, AnsweredFor(c, effects),
                 ExecutingFor(c, executing), past)
    BY <1>1, <1>5, <1>8, <1>10
  <2>2. PreprocessedOnce(preprocessing'[c]) /\ AnsweredOnce(c, effects) /\ effects \in Seq(E)
    BY <1>2, <1>3, <1>6
  <2>3. \A d \in Conversations : d # c =>
            /\ preprocessing'[d] = preprocessing[d]
            /\ AnsweredFor(d, effects) = AnsweredFor(d, effects) /\ AnsweredOnce(d, effects)
            /\ ExecutingFor(d, executing) = ExecutingIn(d)
    BY <1>3, <1>9
  <2> HIDE DEF v, Q2, N
  <2> QED BY <2>1, <2>2, <2>3, CommitSingles
<1>12. IdentifiersInv'
  BY <1>1, IdentifiersKept DEF PlacedState
<1> QED
  BY <1>11, <1>12

\* An executing action that completes or is cancelled: its result is on its way.
LEMMA ResolvesSingles ==
    ASSUME NEW E, PlacedState(E), NEW a \in ActionIds, executing[a] # NoConv,
           NEW res \in Results, NEW reason \in Reasons \cup {NoReason},
           executing' = [executing EXCEPT ![a] = NoConv],
           effects' = Append(effects, ExecutorFinished(executing[a], a, res, reason)),
           UNCHANGED <<preprocessing, pending, running, finished, past, received>>
    PROVE  SinglesInv' /\ IdentifiersInv'
<1>1. PICK c \in Conversations : c = executing[a]
  BY DEF PlacedState, KnownState, ModelTypeOK
<1> DEFINE t == <<ExecutorFinished(c, a, res, reason)>>
<1>2. t \in Seq(E) /\ effects \in Seq(E) /\ effects' = effects \o t
  <2>1. ExecutorFinished(c, a, res, reason) \in E
    BY <1>1, ExecutorFinishedType DEF PlacedState, KnownState, Extends
  <2> QED BY <1>1, <2>1 DEF PlacedState, KnownState
<1>3. \A d : /\ AnsweredFor(d, t) = IF d = c THEN {a} ELSE {}
             /\ AnsweredOnce(d, t)
  BY AnswersForOne
<1>4. a \in ExecutingIn(c)
  BY <1>1 DEF ExecutingIn
<1> HIDE DEF t
<1>5. \A d : /\ AnsweredFor(d, effects') = AnsweredFor(d, effects) \cup AnsweredFor(d, t)
             /\ (/\ AnsweredOnce(d, effects) /\ AnsweredOnce(d, t)
                 /\ AnsweredFor(d, effects) \cap AnsweredFor(d, t) = {})
                    => AnsweredOnce(d, effects')
  BY <1>2, AnswersForConcat
<1>6. \A d \in Conversations :
          ExecutingIn(d)' = IF d = c THEN ExecutingIn(d) \ {a} ELSE ExecutingIn(d)
  <2>1. executing \in [ActionIds -> Conversations \cup {NoConv}]
    BY DEF PlacedState, KnownState, ModelTypeOK
  <2> QED BY <1>1, <2>1, NoConvAssumption DEF ExecutingIn
<1>7. SingleIn(c)'
  <2> DEFINE P == PreprocessingIds(c)
             Q == Elems(pending[c])
             R == running[c].ids
             F == FinishedIds(c)
             A == AnsweredFor(c, effects)
             X == ExecutingIn(c)
  <2>1. /\ SingleIn(c) /\ Apart(P, Q, R, F, A, X, past) /\ AnsweredOnce(c, effects)
    BY <1>1 DEF PlacedState, SinglesInv, SingleIn
  <2>2. /\ PreprocessingIds(c)' = P /\ FinishedIds(c)' = F /\ Elems(pending'[c]) = Q
        /\ running'[c].ids = R
    BY DEF PreprocessingIds, FinishedIds
  <2>7. AnsweredFor(c, effects') = A \cup {a} /\ ExecutingIn(c)' = X \ {a}
    BY <1>1, <1>3, <1>5, <1>6
  <2>3. a \in X
    BY <1>4
  <2> HIDE DEF P, Q, R, F, A, X
  <2>4. a \in R /\ a \notin A
    BY <2>1, <2>3 DEF Apart
  <2>5. Apart(P, Q, R, F, A \cup {a}, X \ {a}, past)
    <3>1. \A x \in R : (x \in X \ {a}) # (x \in A \cup {a})
      <4>1. SUFFICES ASSUME NEW x \in R PROVE (x \in X \ {a}) # (x \in A \cup {a})
        OBVIOUS
      <4>2. CASE x = a
        BY <4>2
      <4>3. CASE x # a
        <5>1. (x \in X) # (x \in A)
          BY <2>1 DEF Apart
        <5>2. (x \in X \ {a} <=> x \in X) /\ (x \in A \cup {a} <=> x \in A)
          BY <4>3
        <5> QED BY <5>1, <5>2
      <4> QED BY <4>2, <4>3
    <3> QED BY <2>1, <2>4, <3>1 DEF Apart
  <2>6. AnsweredOnce(c, effects')
    BY <1>1, <1>3, <1>5, <2>1, <2>4 DEF A
  <2>8. Apart(PreprocessingIds(c)', Elems(pending'[c]), running'[c].ids, FinishedIds(c)',
              AnsweredFor(c, effects'), ExecutingIn(c)', past')
    BY <2>2, <2>5, <2>7
  <2> QED BY <2>1, <2>6, <2>8 DEF SingleIn
<1>8. ASSUME NEW d \in Conversations, d # c PROVE SingleIn(d)'
  <2>1. SingleIn(d)
    BY DEF PlacedState, SinglesInv
  <2>2. AnsweredFor(d, effects') = AnsweredFor(d, effects) /\ AnsweredOnce(d, effects')
    BY <1>3, <1>5, <1>8, <2>1 DEF SingleIn
  <2>3. ExecutingIn(d)' = ExecutingIn(d)
    BY <1>6, <1>8
  <2> QED BY <1>1, <1>8, <2>2, <2>3, OtherSingle
<1>9. IdentifiersInv'
  BY <1>1, IdentifiersKept DEF PlacedState
<1> QED
  BY <1>7, <1>8, <1>9 DEF SinglesInv

\* cancel_action_with_id: a running action is answered, a queued one is finished.
LEMMA CancelActionWithIdSingles ==
    ASSUME NEW E, PlacedState(E), NEW c \in Conversations, NEW a \in ActionIds,
           NEW reason \in Reasons, CancelActionWithId(c, a, reason)
    PROVE  SinglesInv' /\ IdentifiersInv'
<1>1. UNCHANGED <<preprocessing, past, received>>
  BY DEF CancelActionWithId
<1>2. CASE CancelRunning(c, a, reason)
           /\ UNCHANGED <<pending, running, finished, status, futures>>
  BY <1>1, <1>2, ResolvesSingles DEF CancelRunning, Results
<1>3. CASE /\ a \in Elems(pending[c])
           /\ Commit(c, HandleResult(c, WithoutPending(c, a), a, "Cancelled", reason),
                     effects, executing)
  BY <1>1, <1>3, HandlePendingSingles DEF Results
<1> QED
  BY <1>2, <1>3 DEF CancelActionWithId

\* The callback of an execution future: a late one changes nothing.
LEMMA CompleteAsyncSingles ==
    ASSUME NEW E, PlacedState(E), NEW c \in Conversations, NEW a \in ActionIds,
           CompleteAsync(c, a)
    PROVE  SinglesInv' /\ IdentifiersInv'
<1>1. PICK res \in Results : FutureResolves(c, a, res)
  BY DEF CompleteAsync, Results
<1>2. UNCHANGED <<preprocessing, pending, running, finished, past, received>>
  BY DEF CompleteAsync
<1>3. CASE executing[a] = NoConv
  <2>1. UNCHANGED <<executing, effects>>
    BY <1>1, <1>3 DEF FutureResolves
  <2>2. \A d \in Conversations : SingleIn(d) <=> SingleIn(d)'
    BY <1>2, <2>1 DEF SingleIn, PreprocessingIds, FinishedIds, ExecutingIn
  <2>3. SinglesInv'
    BY <2>2 DEF PlacedState, SinglesInv
  <2> QED BY <1>2, <2>3, IdentifiersKept DEF PlacedState
<1>4. CASE executing[a] # NoConv
  BY <1>1, <1>2, <1>4, ResolvesSingles DEF FutureResolves
<1> QED
  BY <1>3, <1>4

\* A listing of a finite set lists all of it.
LEMMA OrderingsComplete ==
    ASSUME NEW S, IsFiniteSet(S), NEW listed \in Orderings(S)
    PROVE  Elems(listed) = S /\ Injective(listed)
<1> DEFINE n == Cardinality(S)
<1>1. n \in Nat
  BY FS_CardinalityType
<1>2. listed \in [1..n -> S] /\ Injective(listed)
  BY DEF Orderings
<1> HIDE DEF n
<1>3. IsFiniteSet(1..n) /\ Cardinality(1..n) = n
  BY <1>1, IntervalFinite
<1>4. DOMAIN listed = 1..n /\ Elems(listed) = {listed[i] : i \in 1..n} /\ Elems(listed) \subseteq S
  BY <1>2 DEF Elems
<1>5. Cardinality({listed[i] : i \in 1..n}) = Cardinality(1..n)
  <2> DEFINE D == 1..n
  <2>1. IsFiniteSet(D) /\ \A i, j \in D : listed[i] = listed[j] => i = j
    BY <1>2, <1>3, <1>4 DEF Injective
  <2> HIDE DEF D
  <2>2. Cardinality({listed[i] : i \in D}) = Cardinality(D)
    BY <2>1, ImageCardinality
  <2> QED BY <2>2 DEF D
<1>6. Cardinality(Elems(listed)) = Cardinality(S)
  BY <1>3, <1>4, <1>5 DEF n
<1> QED
  BY <1>2, <1>4, <1>6, FS_Subset

\* Once all that runs in c is cancelled, its results are on their way.
LEMMA CancelledQueue ==
    ASSUME NEW E, PlacedState(E), NEW c \in Conversations,
           NEW listed \in Orderings(ExecutingIn(c)), NEW reason \in Reasons
    PROVE  LET queue == effects \o CancelledEvents(c, listed, reason)
           IN  /\ queue \in Seq(E)
               /\ AnsweredFor(c, queue) = AnsweredFor(c, effects) \cup ExecutingIn(c)
               /\ ExecutingFor(c, ExecutingOutside({c})) = {}
               /\ \A d \in Conversations :
                      /\ AnsweredOnce(d, queue)
                      /\ d # c => /\ AnsweredFor(d, queue) = AnsweredFor(d, effects)
                                  /\ ExecutingFor(d, ExecutingOutside({c})) = ExecutingIn(d)
<1> DEFINE t == CancelledEvents(c, listed, reason)
<1>1. effects \in Seq(E) /\ ExecutingIn(c) \subseteq ActionIds
  BY DEF PlacedState, KnownState, ExecutingIn
<1>2. t \in Seq(E)
  <2>1. listed \in Seq(ActionIds)
    BY <1>1, OrderingsType
  <2>2. t \in Seq(Event)
    BY <2>1, CancelledEventsType
  <2> HIDE DEF t
  <2> QED BY <2>2, EventsAreEffects DEF PlacedState, KnownState
<1>3. Elems(listed) = ExecutingIn(c) /\ Injective(listed)
  <2>1. IsFiniteSet(ExecutingIn(c))
    BY <1>1, ActionIdsAssumption, FS_Subset
  <2> QED BY <2>1, OrderingsComplete
<1>4. \A d : /\ AnsweredFor(d, t) = IF d = c THEN ExecutingIn(c) ELSE {}
             /\ AnsweredOnce(d, t)
  BY <1>3, AnswersForCancelled
<1> HIDE DEF t
<1> DEFINE queue == effects \o t
<1>5. \A d : /\ AnsweredFor(d, queue) = AnsweredFor(d, effects) \cup AnsweredFor(d, t)
             /\ (/\ AnsweredOnce(d, effects) /\ AnsweredOnce(d, t)
                 /\ AnsweredFor(d, effects) \cap AnsweredFor(d, t) = {})
                    => AnsweredOnce(d, queue)
  BY <1>1, <1>2, AnswersForConcat
<1>6. queue \in Seq(E)
  BY <1>1, <1>2
<1> HIDE DEF queue
<1>7. \A d \in Conversations : AnsweredOnce(d, effects)
  BY DEF PlacedState, SinglesInv, SingleIn
<1>8. ExecutingIn(c) \cap AnsweredFor(c, effects) = {}
  <2>1. ASSUME NEW a \in ExecutingIn(c), a \in AnsweredFor(c, effects) PROVE FALSE
    <3>1. a \in running[c].ids
      BY <2>1 DEF PlacedState, SinglesInv, SingleIn, Apart
    <3>2. (a \in ExecutingIn(c)) # (a \in AnsweredFor(c, effects))
      BY <3>1 DEF PlacedState, SinglesInv, SingleIn, Apart
    <3> QED BY <2>1, <3>2
  <2> QED BY <2>1
<1>9. \A d \in Conversations : AnsweredOnce(d, queue)
  BY <1>4, <1>5, <1>7, <1>8
<1>10. /\ ExecutingFor(c, ExecutingOutside({c})) = {}
       /\ \A d \in Conversations : d # c =>
              ExecutingFor(d, ExecutingOutside({c})) = ExecutingIn(d)
  BY NoConvAssumption DEF ExecutingFor, ExecutingOutside, ExecutingIn
<1> QED
  BY <1>4, <1>5, <1>6, <1>9, <1>10 DEF queue, t

\* What was queued is finished, what was executing is answered.
LEMMA CancelledApart ==
    ASSUME NEW P, NEW Q, NEW R, NEW F, NEW A, NEW X, NEW Old, Apart(P, Q, R, F, A, X, Old)
    PROVE  Apart(P, {}, R, F \cup Q, A \cup X, {}, Old)
<1>1. \A a \in R : (a \in {}) # (a \in A \cup X)
  <2>1. \A a \in R : a \in X \/ a \in A
    BY DEF Apart
  <2> QED BY <2>1
<1> QED
  BY <1>1 DEF Apart

\* cancel_all_pending_actions finishes what is queued and answers what runs.
LEMMA CancelAllPendingActionsSingles ==
    ASSUME NEW E, PlacedState(E), NEW c \in Conversations, NEW reason \in Reasons,
           CancelAllPendingActions(c, reason)
    PROVE  SinglesInv' /\ IdentifiersInv'
<1> DEFINE v == CancelPending(c, ViewOf(c), reason)
           execs == ExecutingOutside({c})
           F == FinishedIds(c) \cup Elems(pending[c])
<1>1. UNCHANGED <<preprocessing, past, received>>
  BY DEF CancelAllPendingActions
<1>2. PICK listed \in Orderings(ExecutingIn(c)) :
          Commit(c, v, effects \o CancelledEvents(c, listed, reason), execs)
  BY DEF CancelAllPendingActions, CancelAll
<1> DEFINE queue == effects \o CancelledEvents(c, listed, reason)
<1>3. CleanIn(c) /\ ModelTypeOK /\ SingleIn(c)
  BY SingleIsClean DEF PlacedState, KnownState
<1>4. v \in PlacedView(c, {}, running[c].ids, F, {})
  BY <1>3, CancelOwnPlaced
<1>5. /\ queue \in Seq(E)
      /\ AnsweredFor(c, queue) = AnsweredFor(c, effects) \cup ExecutingIn(c)
      /\ ExecutingFor(c, execs) = {}
      /\ \A d \in Conversations :
             /\ AnsweredOnce(d, queue)
             /\ d # c => /\ AnsweredFor(d, queue) = AnsweredFor(d, effects)
                         /\ ExecutingFor(d, execs) = ExecutingIn(d)
  BY CancelledQueue
<1>6. Commit(c, v, queue, execs)
  BY <1>2
<1> HIDE DEF v, execs, queue
<1>7. Apart(PreprocessingIds(c)', {}, running[c].ids, F, AnsweredFor(c, queue),
            ExecutingFor(c, execs), past)
  <2>1. Apart(PreprocessingIds(c), {}, running[c].ids, F,
              AnsweredFor(c, effects) \cup ExecutingIn(c), {}, past)
    BY <1>3, CancelledApart DEF SingleIn
  <2>2. PreprocessingIds(c)' = PreprocessingIds(c)
    BY <1>1 DEF PreprocessingIds
  <2> QED BY <1>5, <2>1, <2>2
<1> HIDE DEF F
<1>8. PreprocessedOnce(preprocessing'[c])
  BY <1>1, <1>3 DEF SingleIn
<1>9. SinglesInv'
  <2> DEFINE Q == {}
             R == running[c].ids
  <2>1. /\ v \in PlacedView(c, Q, R, F, Q) /\ Q \subseteq received[c] /\ queue \in Seq(E)
        /\ Commit(c, v, queue, execs) /\ past' = past
        /\ Apart(PreprocessingIds(c)', Q, R, F, AnsweredFor(c, queue),
                 ExecutingFor(c, execs), past)
    BY <1>1, <1>4, <1>5, <1>6, <1>7
  <2>2. PreprocessedOnce(preprocessing'[c]) /\ AnsweredOnce(c, queue)
    BY <1>5, <1>8
  <2>3. \A d \in Conversations : d # c =>
            /\ preprocessing'[d] = preprocessing[d]
            /\ AnsweredFor(d, queue) = AnsweredFor(d, effects) /\ AnsweredOnce(d, queue)
            /\ ExecutingFor(d, execs) = ExecutingIn(d)
    BY <1>1, <1>5
  <2> HIDE DEF Q, R
  <2> QED BY <2>1, <2>2, <2>3, CommitSingles
<1>10. IdentifiersInv'
  BY <1>1, IdentifiersKept DEF PlacedState
<1> QED
  BY <1>9, <1>10

\* Delivering a result: its action goes from the phase, or from the way, to the finished.
LEMMA DeliverExecutorFinishedSingles ==
    ASSUME NEW E, PlacedState(E), DeliverExecutorFinished
    PROVE  SinglesInv' /\ IdentifiersInv'
<1>15. PICK e, c, a : e = Head(effects) /\ c = e.conv /\ a = e.id
  OBVIOUS
<1> DEFINE queue == Tail(effects)
           v == HandleResult(c, ViewOf(c), a, e.res, e.reason)
           P == PreprocessingIds(c)
           Q == Elems(pending[c])
           R == running[c].ids
           F == FinishedIds(c)
           A == AnsweredFor(c, effects)
           X == ExecutingIn(c)
<1>1. /\ effects # <<>> /\ effects \in Seq(E) /\ e.type = "ExecutorFinished"
      /\ Commit(c, v, queue, executing) /\ UNCHANGED <<preprocessing, past, received>>
  BY <1>15 DEF DeliverExecutorFinished, Idle, PlacedState, KnownState
<1>2. /\ c \in Conversations /\ a \in ActionIds /\ e.res \in Results
      /\ e.reason \in Reasons \cup {NoReason}
      /\ 1 \in AnswersFor(c, effects) /\ a \in AnsweredFor(c, effects)
      /\ \A d : d # c => 1 \notin AnswersFor(d, effects)
  BY <1>1, <1>15, HeadIsAnswer DEF PlacedState, KnownState
<1>3. /\ \A d \in Conversations : AnsweredOnce(d, effects)
      /\ \A d \in Conversations : ExecutingFor(d, executing) = ExecutingIn(d)
  BY DEF PlacedState, SinglesInv, SingleIn, ExecutingFor, ExecutingIn
<1>4. /\ queue \in Seq(E) /\ AnsweredFor(c, queue) = AnsweredFor(c, effects) \ {a}
      /\ \A d \in Conversations : AnsweredOnce(d, queue)
      /\ \A d \in Conversations : d # c => AnsweredFor(d, queue) = AnsweredFor(d, effects)
  BY <1>1, <1>2, <1>3, <1>15, AnswersForTail
<1> HIDE DEF queue
<1>5. /\ CleanIn(c) /\ ModelTypeOK /\ Apart(P, Q, R, F, A, X, past)
      /\ PreprocessedOnce(preprocessing[c])
      /\ Q \subseteq received[c]
  BY <1>2, SingleIsClean DEF PlacedState, KnownState, SingleIn
<1>6. a \in A
  BY <1>2
<1>7. ViewOf(c) \in PlacedView(c, Q, R, F, {a}) /\ ViewOf(c).started = {}
  <2>1. {a} \cap (Q \cup F) = {}
    BY <1>5, <1>6 DEF Apart
  <2> QED BY <1>2, <1>5, <2>1, ViewOfPlaced DEF ViewOf
<1> HIDE DEF P, Q, R, F, A, X
<1>8. ViewOf(c) \in PlacedView(c, Q, R, F \cup {a}, {a})
  BY <1>7 DEF PlacedView, FramedView, Framed
<1>9. v \in PlacedView(c, Q, R \ {a}, F \cup {a}, {a} \ {a})
  <2>1. a \in {a} /\ a \in (F \cup {a}) \cup Q
    OBVIOUS
  <2> QED BY <1>2, <1>5, <1>7, <1>8, <2>1, HandleResultPlaced
<1> HIDE DEF v
<1>10. Apart(P, Q, R \ {a}, F \cup {a}, A \ {a}, X, past)
  <2>1. \A x \in R \ {a} : (x \in X) # (x \in A \ {a})
    <3>1. SUFFICES ASSUME NEW x \in R \ {a} PROVE (x \in X) # (x \in A \ {a})
      OBVIOUS
    <3>2. (x \in X) # (x \in A)
      BY <1>5, <3>1 DEF Apart
    <3>3. x \in A \ {a} <=> x \in A
      BY <3>1
    <3> QED BY <3>2, <3>3
  <2>2. X \subseteq R \ {a}
    <3>1. a \in R => a \notin X
      <4>1. SUFFICES ASSUME a \in R, a \in X PROVE FALSE
        OBVIOUS
      <4>2. (a \in X) # (a \in A)
        BY <1>5, <4>1 DEF Apart
      <4> QED BY <1>6, <4>1, <4>2
    <3> QED BY <1>5, <3>1 DEF Apart
  <2>3. /\ P \cap (Q \cup (R \ {a}) \cup (A \ {a}) \cup (F \cup {a})) = {}
        /\ Q \cap ((R \ {a}) \cup (A \ {a}) \cup (F \cup {a})) = {}
        /\ ((R \ {a}) \cup (A \ {a})) \cap (F \cup {a}) = {}
        /\ (P \cup Q \cup (R \ {a}) \cup (A \ {a})) \cap past = {}
    BY <1>5, <1>6 DEF Apart
  <2> QED BY <2>1, <2>2, <2>3 DEF Apart
<1>11. PreprocessingIds(c)' = P
  BY <1>1 DEF PreprocessingIds, P
<1>12. Apart(PreprocessingIds(c)', Q, R \ {a}, F \cup {a}, AnsweredFor(c, queue),
             ExecutingFor(c, executing), past)
  BY <1>2, <1>3, <1>4, <1>10, <1>11 DEF A, X
<1>13. SinglesInv'
  <2>1. \A d \in Conversations : d # c => preprocessing'[d] = preprocessing[d]
    BY <1>1
  <2>2. PreprocessedOnce(preprocessing'[c])
    BY <1>1, <1>5
  <2> DEFINE R2 == R \ {a}
             F2 == F \cup {a}
             N2 == {a} \ {a}
  <2>3. /\ v \in PlacedView(c, Q, R2, F2, N2) /\ Q \subseteq received[c] /\ queue \in Seq(E)
        /\ Commit(c, v, queue, executing) /\ past' = past
        /\ Apart(PreprocessingIds(c)', Q, R2, F2, AnsweredFor(c, queue),
                 ExecutingFor(c, executing), past)
    BY <1>1, <1>4, <1>5, <1>9, <1>12
  <2>4. AnsweredOnce(c, queue)
    BY <1>2, <1>4
  <2>5. \A d \in Conversations : d # c =>
            /\ preprocessing'[d] = preprocessing[d]
            /\ AnsweredFor(d, queue) = AnsweredFor(d, effects) /\ AnsweredOnce(d, queue)
            /\ ExecutingFor(d, executing) = ExecutingIn(d)
    BY <1>3, <1>4, <2>1
  <2> HIDE DEF R2, F2, N2
  <2> QED BY <1>2, <2>2, <2>3, <2>4, <2>5, CommitSingles
<1>14. IdentifiersInv'
  BY <1>1, <1>2, IdentifiersKept DEF PlacedState
<1> QED
  BY <1>13, <1>14

\* Draining or forgetting the results of c, while no result is announced.
LEMMA DrainSingles ==
    ASSUME NEW E, PlacedState(E), NEW c \in Conversations,
           UNCHANGED <<preprocessing, pending, running, executing, received>>,
           \/ UNCHANGED <<finished, past>>
           \/ /\ finished' = [finished EXCEPT ![c] = <<>>]
              /\ past' \subseteq past \cup FinishedIds(c),
           \A d \in Conversations : /\ AnsweredFor(d, effects') = AnsweredFor(d, effects)
                                    /\ AnsweredOnce(d, effects')
    PROVE  SinglesInv' /\ IdentifiersInv'
<1>1. /\ finished \in [Conversations -> Seq(Result)]
      /\ past' \subseteq past \cup FinishedIds(c) /\ FinishedIds(c) \subseteq received[c]
  BY SingleIsClean DEF PlacedState, KnownState, ModelTypeOK
<1>2. \A d \in Conversations : /\ PreprocessingIds(d)' = PreprocessingIds(d)
                               /\ ExecutingIn(d)' = ExecutingIn(d)
  BY DEF PreprocessingIds, ExecutingIn
<1>3. SingleIn(c)'
  <2>1. SingleIn(c)
    BY SingleIsClean
  <2>2. CASE UNCHANGED <<finished, past>>
    <3>1. FinishedIds(c)' = FinishedIds(c)
      BY <2>2 DEF FinishedIds
    <3> QED BY <1>2, <2>1, <2>2, <3>1 DEF SingleIn
  <2>3. CASE finished' = [finished EXCEPT ![c] = <<>>]
    <3>1. finished'[c] = <<>> /\ FinishedIds(c)' = {} /\ ResultedOnce(<<>>)
      BY <1>1, <2>3, NoneFinished DEF ResultedOnce
    <3>2. Apart(PreprocessingIds(c), Elems(pending[c]), running[c].ids, {},
                AnsweredFor(c, effects), ExecutingIn(c), past')
      BY <1>1, <2>1 DEF SingleIn, Apart
    <3> QED BY <1>2, <2>1, <3>1, <3>2 DEF SingleIn
  <2> QED BY <2>2, <2>3
<1>4. ASSUME NEW d \in Conversations, d # c PROVE SingleIn(d)'
  <2>1. finished'[d] = finished[d]
    BY <1>1, <1>4
  <2>2. past' \subseteq past \cup received[c]
    BY <1>1
  <2> QED BY <1>2, <1>4, <2>1, <2>2, OtherSingle
<1>5. IdentifiersInv'
  BY <1>1, IdentifiersKept DEF PlacedState
<1> QED
  BY <1>3, <1>4, <1>5 DEF SinglesInv

\* The controller's reaction to a finished action drains results or not.
LEMMA DeliverFinishedSingles ==
    ASSUME NEW E, PlacedState(E), DeliverFinished
    PROVE  SinglesInv' /\ IdentifiersInv'
<1> DEFINE e == Head(effects)
           c == e.conv
<1>1. /\ effects # <<>> /\ effects \in Seq(E) /\ e.type = "Finished" /\ effects' = Tail(effects)
      /\ UNCHANGED <<preprocessing, pending, running, executing, received>>
      /\ \/ finished' = [finished EXCEPT ![c] = <<>>] /\ past' = past \cup FinishedIds(c)
         \/ UNCHANGED <<finished, past>>
  BY DEF DeliverFinished, DrainFinished, Idle, PlacedState, KnownState
<1>2. c \in Conversations
  <2>1. e \in E
    BY <1>1
  <2>2. e \in Event
    BY <1>1, <2>1 DEF PlacedState, KnownState, Extends
  <2> QED BY <1>1, <2>2 DEF Event
<1>3. \A d : 1 \notin AnswersFor(d, effects)
  <2>1. effects[1].type # "ExecutorFinished"
    BY <1>1
  <2> QED BY <2>1 DEF AnswersFor
<1>4. \A d \in Conversations : AnsweredOnce(d, effects)
  BY DEF PlacedState, SinglesInv, SingleIn
<1>5. \A d \in Conversations : /\ AnsweredFor(d, effects') = AnsweredFor(d, effects)
                               /\ AnsweredOnce(d, effects')
  BY <1>1, <1>3, <1>4, AnswersForTail
<1> HIDE DEF c, e
<1> QED
  BY <1>1, <1>2, <1>5, DrainSingles

\* clear_finished_action_results only forgets.
LEMMA ClearFinishedSingles ==
    ASSUME NEW E, PlacedState(E), NEW c \in Conversations, ClearFinished(c)
    PROVE  SinglesInv' /\ IdentifiersInv'
<1>1. /\ finished' = [finished EXCEPT ![c] = <<>>]
      /\ UNCHANGED <<preprocessing, pending, running, executing, received, past, effects>>
  BY DEF ClearFinished
<1>2. \A d \in Conversations : AnsweredOnce(d, effects)
  BY DEF PlacedState, SinglesInv, SingleIn
<1> QED
  BY <1>1, <1>2, DrainSingles

\* Cancelling and draining for a new query leaves nothing queued or executing.
LEMMA CancelAndDrainSingles ==
    ASSUME NEW E, PlacedState(E), NEW c \in Conversations, NEW reason \in Reasons,
           CancelAndDrain(c, reason)
    PROVE  SinglesInv' /\ IdentifiersInv'
<1> DEFINE v == CancelPending(c, ViewOf(c), reason)
           F == FinishedIds(c) \cup Elems(pending[c])
           X == ExecutingIn(c)
           A == AnsweredFor(c, effects)
<1>1. PICK listed \in Orderings(ExecutingIn(c)) :
          effects' = effects \o CancelledEvents(c, listed, reason) \o v.events
  BY DEF CancelAndDrain
<1>2. /\ pending' = [pending EXCEPT ![c] = v.pending]
      /\ finished' = [finished EXCEPT ![c] = <<>>]
      /\ executing' = ExecutingOutside({c})
      /\ past' = past \cup IdsOf(v.finished)
      /\ UNCHANGED <<preprocessing, running, received>>
  BY DEF CancelAndDrain, IdsOf
<1> DEFINE queue == effects \o CancelledEvents(c, listed, reason)
<1>3. /\ CleanIn(c) /\ ModelTypeOK /\ SingleIn(c)
      /\ Apart(PreprocessingIds(c), Elems(pending[c]), running[c].ids, FinishedIds(c), A, X, past)
      /\ F \subseteq received[c]
      /\ pending \in [Conversations -> Seq(ActionIds)]
      /\ finished \in [Conversations -> Seq(Result)]
  BY SingleIsClean DEF PlacedState, KnownState, SingleIn, ModelTypeOK
<1>4. v \in PlacedView(c, {}, running[c].ids, F, {})
  BY <1>3, CancelOwnPlaced
<1>5. /\ queue \in Seq(E)
      /\ AnsweredFor(c, queue) = A \cup X
      /\ ExecutingFor(c, ExecutingOutside({c})) = {}
      /\ \A d \in Conversations :
             /\ AnsweredOnce(d, queue)
             /\ d # c => /\ AnsweredFor(d, queue) = AnsweredFor(d, effects)
                         /\ ExecutingFor(d, ExecutingOutside({c})) = ExecutingIn(d)
  BY CancelledQueue
<1>6. effects' = queue \o v.events
  BY <1>1
<1> HIDE DEF v, queue, F, A, X
<1>7. /\ v.events \in Seq(E) /\ Elems(v.pending) = {} /\ Injective(v.pending)
      /\ IdsOf(v.finished) \subseteq F
      /\ \A d : AnsweredFor(d, v.events) = {} /\ AnsweredOnce(d, v.events)
  <2>1. v \in FramedView(c, {}, running[c].ids, F) /\ Framed(c, {}, running[c].ids, F, v)
        /\ Placed(c, {}, v) /\ v.events \in Seq(Event)
    BY <1>4 DEF PlacedView, FramedView, View
  <2>2. v.events \in Seq(E)
    BY <2>1, EventsAreEffects DEF PlacedState, KnownState
  <2>3. \A d : AnsweredFor(d, v.events) = {} /\ AnsweredOnce(d, v.events)
    <3>1. AnsweredFor(c, v.events) = {} /\ AnsweredOnce(c, v.events)
      <4>1. AnsweredFor(c, v.events) \subseteq {}
        BY <2>1, AnswersForView
      <4>2. AnsweredOnce(c, v.events)
        BY <2>1 DEF Placed
      <4> QED BY <4>1, <4>2
    <3>2. \A d : d # c => AnsweredFor(d, v.events) = {} /\ AnsweredOnce(d, v.events)
      BY <2>1, AnswersForView
    <3> QED BY <3>1, <3>2
  <2> QED BY <2>1, <2>2, <2>3 DEF Framed, Placed
<1>8. \A d \in Conversations : /\ AnsweredFor(d, effects') = AnsweredFor(d, queue)
                               /\ AnsweredOnce(d, effects')
  <2>1. \A d : /\ AnsweredFor(d, queue \o v.events)
                     = AnsweredFor(d, queue) \cup AnsweredFor(d, v.events)
               /\ (/\ AnsweredOnce(d, queue) /\ AnsweredOnce(d, v.events)
                   /\ AnsweredFor(d, queue) \cap AnsweredFor(d, v.events) = {})
                      => AnsweredOnce(d, queue \o v.events)
    BY <1>5, <1>7, AnswersForConcat
  <2> QED BY <1>5, <1>6, <1>7, <2>1
<1>9. \A d \in Conversations : ExecutingIn(d)' = ExecutingFor(d, ExecutingOutside({c}))
  BY <1>2 DEF ExecutingIn, ExecutingFor
<1>10. SingleIn(c)'
  <2>1. pending'[c] = v.pending /\ finished'[c] = <<>> /\ FinishedIds(c)' = {}
        /\ ResultedOnce(<<>>)
    BY <1>2, <1>3, NoneFinished DEF ResultedOnce
  <2>2. Apart(PreprocessingIds(c), {}, running[c].ids, F, A \cup X, {}, past)
    BY <1>3, CancelledApart DEF F
  <2>3. Apart(PreprocessingIds(c), {}, running[c].ids, {}, A \cup X, {}, past')
    BY <1>2, <1>7, <2>2 DEF Apart
  <2>4. PreprocessingIds(c)' = PreprocessingIds(c) /\ PreprocessedOnce(preprocessing'[c])
    BY <1>2, <1>3 DEF PreprocessingIds, SingleIn
  <2> QED BY <1>2, <1>5, <1>7, <1>8, <1>9, <2>1, <2>3, <2>4 DEF SingleIn
<1>11. ASSUME NEW d \in Conversations, d # c PROVE SingleIn(d)'
  <2>1. pending'[d] = pending[d] /\ finished'[d] = finished[d]
    BY <1>2, <1>3, <1>11
  <2>2. past' \subseteq past \cup received[c]
    BY <1>2, <1>3, <1>7
  <2>3. AnsweredFor(d, effects') = AnsweredFor(d, effects) /\ AnsweredOnce(d, effects')
        /\ ExecutingIn(d)' = ExecutingIn(d)
    BY <1>5, <1>8, <1>9, <1>11
  <2> QED BY <1>2, <1>11, <2>1, <2>2, <2>3, OtherSingle
<1>12. IdentifiersInv'
  <2>1. past' \subseteq past \cup received[c]
    BY <1>2, <1>3, <1>7
  <2> QED BY <1>2, <2>1, IdentifiersKept DEF PlacedState
<1> QED
  BY <1>10, <1>11, <1>12 DEF SinglesInv

\* The steps of a conversation leave each action in one place: one case per action.
LEMMA ConversationSingles ==
    ASSUME NEW E, PlacedState(E), NEW c \in Conversations, ConversationNext(c)
    PROVE  SinglesInv' /\ IdentifiersInv'
<1> DEFINE Goal == SinglesInv' /\ IdentifiersInv'
<1>1. ASSUME NEW output \in Outputs[c], QueueActions(c, output) PROVE Goal
  BY <1>1, QueueActionsSingles
<1>2. CASE ExecuteNextActionForUser(c)
  BY <1>2, ExecuteActionSingles DEF ExecuteNextActionForUser
<1>3. ASSUME NEW reason \in Reasons,
             CancelAllPendingActions(c, reason) \/ CancelAndDrain(c, reason)
      PROVE  Goal
  BY <1>3, CancelAllPendingActionsSingles, CancelAndDrainSingles
<1>4. CASE ClearFinished(c)
  BY <1>4, ClearFinishedSingles
<1>5. ASSUME NEW a \in ActionIds, DenyRunAgents(c, a) PROVE Goal
  <2>1. /\ a \in Elems(pending[c]) /\ UNCHANGED <<preprocessing, past, received>>
        /\ Commit(c, HandleResult(c, WithoutPending(c, a), a, "Completed", NoReason),
                  effects, executing)
    BY <1>5 DEF DenyRunAgents
  <2> QED BY <2>1, HandlePendingSingles DEF Results
<1>6. ASSUME NEW a \in ActionIds,
             \/ PreprocessActionsResults(c, a)
             \/ ExecuteAction(c, a)
             \/ \E reason \in Reasons : CancelActionWithId(c, a, reason)
             \/ CompleteAsync(c, a)
      PROVE  Goal
  BY <1>6, PreprocessActionsResultsSingles, ExecuteActionSingles, CancelActionWithIdSingles,
     CompleteAsyncSingles
<1> QED
  BY <1>1, <1>2, <1>3, <1>4, <1>5, <1>6 DEF ConversationNext

\* Steps that move no action.
LEMMA UnchangedSingles ==
    ASSUME SinglesInv, IdentifiersInv,
           UNCHANGED <<preprocessing, pending, running, executing, finished, past, effects, received>>
    PROVE  SinglesInv' /\ IdentifiersInv'
<1>1. \A c \in Conversations : SingleIn(c)'
  BY DEF SinglesInv, SingleIn, PreprocessingIds, FinishedIds, ExecutingIn
<1> QED
  BY <1>1 DEF SinglesInv, IdentifiersInv, OwnIdentifiers

\* Every step leaves each action in one place.
LEMMA SinglesStep ==
    ASSUME DistinctIdentifiers
    PROVE  TypeOK /\ KnownInv /\ SinglesInv /\ IdentifiersInv /\ [Next]_vars
               => SinglesInv' /\ IdentifiersInv'
<1>1. SUFFICES ASSUME TypeOK, KnownInv, SinglesInv, IdentifiersInv, [Next]_vars
               PROVE  SinglesInv' /\ IdentifiersInv'
  OBVIOUS
<1>2. PlacedState(Event)
  BY <1>1 DEF PlacedState, KnownState, Extends, TypeOK
<1>3. ASSUME NEW c \in Conversations, ConversationNext(c) PROVE SinglesInv' /\ IdentifiersInv'
  BY <1>2, <1>3, ConversationSingles
<1>4. CASE ChangeSettings
  BY <1>1, <1>4, UnchangedSingles DEF ChangeSettings
<1>5. CASE DeliverExecutorFinished
  BY <1>2, <1>5, DeliverExecutorFinishedSingles
<1>6. CASE DeliverFinished
  BY <1>2, <1>6, DeliverFinishedSingles
<1>7. CASE UNCHANGED vars
  BY <1>1, <1>7, UnchangedSingles DEF vars
<1> QED
  BY <1>1, <1>3, <1>4, <1>5, <1>6, <1>7 DEF Next

\* Initially no action is anywhere.
LEMMA SinglesInit == Init => SinglesInv /\ IdentifiersInv
<1>1. SUFFICES ASSUME Init PROVE SinglesInv /\ IdentifiersInv
  OBVIOUS
<1>2. \A c \in Conversations :
          /\ preprocessing[c] = <<>> /\ pending[c] = <<>> /\ finished[c] = <<>>
          /\ running[c].ids = {} /\ received[c] = {}
  BY <1>1 DEF Init, NotRunning
<1>3. effects = <<>> /\ past = {} /\ \A a \in ActionIds : executing[a] = NoConv
  BY <1>1 DEF Init
<1>4. ASSUME NEW c \in Conversations PROVE SingleIn(c)
  <2>1. PreprocessingIds(c) = {} /\ FinishedIds(c) = {} /\ Elems(pending[c]) = {}
    BY <1>2 DEF PreprocessingIds, FinishedIds, Elems
  <2>2. ExecutingIn(c) = {}
    BY <1>3, NoConvAssumption DEF ExecutingIn
  <2>3. AnsweredFor(c, effects) = {} /\ AnsweredOnce(c, effects)
    BY <1>3, AnswersForNone
  <2>4. PreprocessedOnce(<<>>) /\ Injective(<<>>) /\ ResultedOnce(<<>>)
    BY DEF PreprocessedOnce, Injective, ResultedOnce
  <2> QED BY <1>2, <1>3, <2>1, <2>2, <2>3, <2>4 DEF SingleIn, Apart
<1> QED
  BY <1>2, <1>3, <1>4 DEF SinglesInv, IdentifiersInv

\* The invariant says what the property says, with cardinalities for injections.
LEMMA SinglesArePlaced ==
    ASSUME NEW E, ModelTypeOK, effects \in Seq(E), SinglesInv
    PROVE  ActionsAreInOnePlace
<1>1. ModelTypeOK /\ effects \in Seq(E) /\ SinglesInv
  OBVIOUS
<1>2. \A c \in Conversations : /\ AwaitingDelivery(c) = AnsweredFor(c, effects)
                               /\ ResultEvents(c) = AnswersFor(c, effects)
  BY DEF AwaitingDelivery, ResultEvents, AnsweredFor, AnswersFor
<1>3. ASSUME NEW c \in Conversations
      PROVE  /\ Cardinality(FinishedIds(c)) = Len(finished[c])
             /\ Cardinality(AwaitingDelivery(c)) = Cardinality(ResultEvents(c))
  <2>1. finished[c] \in Seq(Result) /\ effects \in Seq(E)
    BY <1>1 DEF ModelTypeOK
  <2>2. ResultedOnce(finished[c]) /\ AnsweredOnce(c, effects)
    BY <1>1 DEF SinglesInv, SingleIn
  <2>3. Cardinality(FinishedIds(c)) = Len(finished[c])
    <3> DEFINE s == finished[c]
               D == 1..Len(s)
               f == [i \in D |-> s[i].id]
    <3>1. DOMAIN s = D /\ Len(s) \in Nat
      BY <2>1
    <3>2. IsFiniteSet(D) /\ Cardinality(D) = Len(s)
      BY <3>1, IntervalFinite
    <3>3. \A i, j \in D : f[i] = f[j] => i = j
      BY <2>2, <3>1 DEF ResultedOnce
    <3>4. FinishedIds(c) = {f[i] : i \in D}
      BY <3>1 DEF FinishedIds
    <3> HIDE DEF f, D, s
    <3>5. Cardinality({f[i] : i \in D}) = Cardinality(D)
      BY <3>2, <3>3, ImageCardinality
    <3> QED BY <3>2, <3>4, <3>5 DEF s
  <2>4. Cardinality(AnsweredFor(c, effects)) = Cardinality(AnswersFor(c, effects))
    <3> DEFINE D == AnswersFor(c, effects)
               f == [i \in D |-> effects[i].id]
    <3>1. IsFiniteSet(D)
      BY <2>1, DomainFinite DEF AnswersFor
    <3>2. \A i, j \in D : f[i] = f[j] => i = j
      BY <2>2 DEF AnsweredOnce
    <3>3. AnsweredFor(c, effects) = {f[i] : i \in D}
      BY DEF AnsweredFor
    <3> HIDE DEF f, D
    <3>4. Cardinality({f[i] : i \in D}) = Cardinality(D)
      BY <3>1, <3>2, ImageCardinality
    <3> QED BY <3>3, <3>4 DEF D
  <2> QED BY <1>2, <2>3, <2>4
<1>4. ASSUME NEW c \in Conversations
      PROVE  LET started == running[c].ids \cup AwaitingDelivery(c)
                 places  == <<PreprocessingIds(c), Elems(pending[c]), started, FinishedIds(c)>>
             IN  /\ \A i, j \in DOMAIN places : i < j => places[i] \cap places[j] = {}
                 /\ Unsettled(c) \cap past = {}
                 /\ Injective(pending[c])
  <2> DEFINE P == PreprocessingIds(c)
             Q == Elems(pending[c])
             S == running[c].ids \cup AwaitingDelivery(c)
             F == FinishedIds(c)
             places == <<P, Q, S, F>>
  <2>1. SingleIn(c)
    BY <1>1 DEF SinglesInv
  <2>2. /\ P \cap Q = {} /\ P \cap S = {} /\ P \cap F = {} /\ Q \cap S = {} /\ Q \cap F = {}
        /\ S \cap F = {}
    BY <1>2, <2>1 DEF SingleIn, Apart
  <2>3. Unsettled(c) \cap past = {} /\ Injective(pending[c])
    BY <1>2, <2>1 DEF SingleIn, Apart, Unsettled
  <2> HIDE DEF P, Q, S, F
  <2>4. DOMAIN places = 1..4 /\ places[1] = P /\ places[2] = Q /\ places[3] = S /\ places[4] = F
    OBVIOUS
  <2> HIDE DEF places
  <2>5. ASSUME NEW i \in 1..4, NEW j \in 1..4, i < j PROVE places[i] \cap places[j] = {}
    <3>1. \/ i = 1 /\ j \in {2, 3, 4}
          \/ i = 2 /\ j \in {3, 4}
          \/ i = 3 /\ j = 4
      BY <2>5
    <3> QED BY <2>2, <2>4, <3>1
  <2> QED BY <2>3, <2>4, <2>5 DEF places, P, Q, S, F
<1> QED
  BY <1>3, <1>4, Zenon DEF ActionsAreInOnePlace

\* An action is in one place at a time, is queued once and has one result
\* (ActionsAreInOnePlace), for any conversations, settings and outputs in which the
\* agent does not use an identifier in two conversations.
THEOREM PlacesCorrect == DistinctIdentifiers => (Spec => []ActionsAreInOnePlace)
<1>1. SUFFICES ASSUME DistinctIdentifiers PROVE Spec => []ActionsAreInOnePlace
  OBVIOUS
<1>2. TypeOK /\ KnownInv /\ SinglesInv /\ IdentifiersInv /\ [Next]_vars
          => SinglesInv' /\ IdentifiersInv'
  BY <1>1, SinglesStep
<1>3. TypeOK /\ SinglesInv => ActionsAreInOnePlace
  BY SinglesArePlaced DEF TypeOK
<1> QED
  BY <1>2, <1>3, SinglesInit, KnownInit, KnownStep, TypeCorrect, PTL DEF Spec

-----------------------------------------------------------------------------
(* Nothing runs without consent.                                           *)

(***************************************************************************)
(* A view in which a handler started only actions that may run by          *)
(* themselves or that the user approved (ok), and answered at once only    *)
(* those and the commands it refuses for an autonomous agent.              *)
(***************************************************************************)
Refusable == IF Autonomous THEN Commands ELSE {}

Consented(ok, w) ==
    /\ w.started \subseteq settings.auto \cup ok
    /\ AnsweredIds(w.events) \subseteq settings.auto \cup ok \cup Refusable

ConsentedView(ok) == {w \in View : Consented(ok, w)}

\* The loop over the queue asks try_to_execute_action of each action.
LEMMA TryExecuteAvailableConsents ==
    ASSUME NEW c \in Conversations, NEW ok, NEW v \in ConsentedView(ok)
    PROVE  TryExecuteAvailable(c, v) \in ConsentedView(ok)
<1> DEFINE w == TryExecuteAvailable(c, v)
           q == v.pending
<1>1. v \in View /\ w \in View /\ q \in Seq(ActionIds) /\ v.events \in Seq(Event)
  BY TryExecuteAvailableType DEF ConsentedView, View
<1>2. PICK n \in 0..Len(q) : Executed(c, v, w, n)
  BY <1>1, TryExecuteAvailableExecutes
<1>3. /\ w.started = v.started \cup StartedOf(q, n)
      /\ w.events = v.events \o AnswersOf(c, q, n)
      /\ \A i \in 1..n : Startable(q, v.running.phase, i)
  BY <1>2 DEF Executed
<1> HIDE DEF w, q
<1>4. \A i \in 1..n : /\ q[i] \in settings.auto \cup Refusable
                      /\ q[i] \notin settings.auto => q[i] \in SyncActions(FALSE)
  <2> SUFFICES ASSUME NEW i \in 1..n
               PROVE  /\ q[i] \in settings.auto \cup Refusable
                      /\ q[i] \notin settings.auto => q[i] \in SyncActions(FALSE)
    OBVIOUS
  <2>1. ~NeedsConfirmation(q[i], FALSE)
    BY <1>3 DEF Startable, Executes
  <2>2. i \in DOMAIN q /\ q[i] \in ActionIds
    BY <1>1, <1>2
  <2>3. q[i] \in settings.auto \/ (Autonomous /\ q[i] \in Commands)
    BY <2>1 DEF NeedsConfirmation
  <2> QED BY <2>2, <2>3 DEF SyncActions, Denylisted, Refusable
<1>5. StartedOf(q, n) \subseteq settings.auto
  <2>1. Elems(SubSeq(q, 1, n)) = {q[i] : i \in 1..n}
    BY <1>1, <1>2, PrefixElems
  <2> QED BY <1>4, <2>1 DEF StartedOf
<1> DEFINE evs == AnswersOf(c, q, n)
<1>6. /\ evs \in Seq(Event)
      /\ AnsweredIds(evs) = {q[i] : i \in 1..n} \cap SyncActions(FALSE)
  BY <1>1, <1>2, AnswersOfProperties
<1>7. w.events = v.events \o evs
  BY <1>3
<1> HIDE DEF evs
<1>8. AnsweredIds(w.events) = AnsweredIds(v.events) \cup AnsweredIds(evs)
  <2>1. /\ AnswersIn(v.events \o evs)
             = AnswersIn(v.events) \cup {Len(v.events) + k : k \in AnswersIn(evs)}
        /\ \A i \in AnswersIn(v.events) : (v.events \o evs)[i] = v.events[i]
        /\ \A k \in AnswersIn(evs) : (v.events \o evs)[Len(v.events) + k] = evs[k]
        /\ AnsweredIds(v.events \o evs) = AnsweredIds(v.events) \cup AnsweredIds(evs)
    <3>1. v.events \in Seq(Event) /\ evs \in Seq(Event)
      BY <1>1, <1>6
    <3> QED BY <3>1, AnswersInConcat
  <2> QED BY <1>7, <2>1
<1>9. w \in ConsentedView(ok)
  <2>1. v \in View /\ Consented(ok, v)
    BY DEF ConsentedView
  <2>2. w.started \subseteq settings.auto \cup ok
    BY <1>3, <1>5, <2>1 DEF Consented
  <2>3. AnsweredIds(w.events) \subseteq settings.auto \cup ok \cup Refusable
    BY <1>4, <1>6, <1>8, <2>1 DEF Consented
  <2> QED BY <1>1, <2>2, <2>3 DEF ConsentedView, Consented
<1> QED BY <1>9 DEF w

\* Recording a result starts nothing but what the loop starts.
LEMMA RecordResultConsents ==
    ASSUME ModelTypeOK, NEW c \in Conversations, NEW ok, NEW v \in ConsentedView(ok),
           NEW a \in ActionIds, NEW res \in Results, NEW reason \in Reasons \cup {NoReason}
    PROVE  RecordResult(c, v, a, res, reason) \in ConsentedView(ok)
<1> DEFINE w == Pushed(c, v, a, res, reason)
           r == RecordResult(c, v, a, res, reason)
           x == Sorted(c, w)
<1>1. v \in View /\ Consented(ok, v) /\ v.events \in Seq(Event)
  BY DEF ConsentedView, View
<1>2. /\ w \in View /\ x \in View
      /\ \/ v.running.ids # {} /\ r = w
         \/ v.running.ids = {} /\ v.pending # <<>> /\ r = TryExecuteAvailable(c, x)
         \/ /\ v.running.ids = {} /\ v.pending = <<>>
            /\ \E st \in Statuses : r = [x EXCEPT !.status = st]
  BY <1>1, RecordResultForms
<1>3. w.started = v.started /\ w.events = Append(v.events, Finished(c, a, reason))
  BY <1>1 DEF Pushed, View
<1> HIDE DEF w
<1>4. x.started = w.started /\ x.events = w.events
  BY <1>2 DEF Sorted, View
<1> HIDE DEF x, r
<1>5. AnsweredIds(w.events) = AnsweredIds(v.events)
  <2> DEFINE evs == Append(v.events, Finished(c, a, reason))
  <2>1. AnsweredIds(evs) = AnsweredIds(v.events)
    BY <1>1, AnswersInAppendFinished
  <2> QED BY <1>3, <2>1
<1>6. w \in ConsentedView(ok) /\ x \in ConsentedView(ok)
  BY <1>1, <1>2, <1>3, <1>4, <1>5 DEF ConsentedView, Consented
<1>7. ASSUME NEW st \in Statuses, r = [x EXCEPT !.status = st]
      PROVE  r \in ConsentedView(ok)
  <2>1. r.started = x.started /\ r.events = x.events /\ r \in View
    BY <1>2, <1>7 DEF View
  <2> QED BY <1>6, <2>1 DEF ConsentedView, Consented
<1> QED BY <1>2, <1>6, <1>7, TryExecuteAvailableConsents DEF r

\* Nor does cancelling actions.
LEMMA CancelEachConsents ==
    ASSUME ModelTypeOK, NEW c \in Conversations, NEW ok, NEW v \in ConsentedView(ok),
           NEW ids \in Seq(ActionIds), NEW reason \in Reasons \cup {NoReason}
    PROVE  CancelEach(c, v, ids, reason) \in ConsentedView(ok)
<1>1. \A w \in ConsentedView(ok), a \in ActionIds :
          RecordResult(c, w, a, "Cancelled", reason) \in ConsentedView(ok)
  BY RecordResultConsents DEF Results
<1> QED
  BY <1>1, CancelEachStaysIn

\* Nor does draining the queued commands.
LEMMA CancelOtherCommandsConsents ==
    ASSUME ModelTypeOK, NEW c \in Conversations, NEW ok, NEW v \in ConsentedView(ok),
           NEW reason \in Reasons \cup {NoReason}
    PROVE  CancelOtherCommands(c, v, reason) \in ConsentedView(ok)
<1> DEFINE rest == Filter(v.pending, ActionIds \ Commands)
           ids == Filter(v.pending, Commands)
           w == [v EXCEPT !.pending = rest]
<1>1. v \in View /\ v.pending \in Seq(ActionIds)
  BY DEF ConsentedView, View
<1>2. rest \in Seq(ActionIds) /\ ids \in Seq(ActionIds)
  BY <1>1, FilterProperties
<1> HIDE DEF rest, ids
<1>3. w \in ConsentedView(ok)
  BY <1>1, <1>2 DEF ConsentedView, Consented, View
<1> HIDE DEF w
<1> QED
  BY <1>2, <1>3, CancelEachConsents DEF CancelOtherCommands, w, rest, ids

\* Nor does handle_action_result.
LEMMA HandleResultConsents ==
    ASSUME ModelTypeOK, NEW c \in Conversations, NEW ok, NEW v \in ConsentedView(ok),
           NEW a \in ActionIds, NEW res \in Results, NEW reason \in Reasons \cup {NoReason}
    PROVE  HandleResult(c, v, a, res, reason) \in ConsentedView(ok)
<1> DEFINE w == WithoutRunning(v, a)
           u == IF res = "Snapshot" THEN CancelOtherCommands(c, w, reason) ELSE w
<1>1. v \in View /\ w \in View
  BY WithoutRunningType DEF ConsentedView
<1>2. w.started = v.started /\ w.events = v.events
  BY <1>1 DEF WithoutRunning, View
<1> HIDE DEF w
<1>3. w \in ConsentedView(ok)
  BY <1>1, <1>2 DEF ConsentedView, Consented
<1>4. u \in ConsentedView(ok)
  BY <1>3, CancelOtherCommandsConsents
<1> HIDE DEF u
<1> QED
  BY <1>4, RecordResultConsents DEF HandleResult, u, w

\* A view in which nothing happened yet.
LEMMA QuietConsents ==
    ASSUME NEW v \in View, v.started = {}, v.events = <<>>, NEW ok
    PROVE  v \in ConsentedView(ok)
BY DEF ConsentedView, Consented, AnsweredIds, AnswersIn

\* Starting a queued action for the user starts it, or serves the queue.
LEMMA StartForUserConsents ==
    ASSUME ModelTypeOK, NEW c \in Conversations, NEW a \in Elems(pending[c])
    PROVE  StartForUser(c, ViewOf(c), a) \in ConsentedView({a})
<1> DEFINE v == WithoutPending(c, a)
           w == [v EXCEPT !.status = "InProgress"]
           e == ExecutorFinished(c, a, "Completed", NoReason)
           now == [w EXCEPT !.events = Append(@, e)]
           later == [w EXCEPT !.running = [phase |-> PhaseOf({a}), ids |-> @.ids \cup {a}],
                              !.started = {a}]
<1>1. v \in View /\ a \in ActionIds /\ v.events = <<>> /\ v.started = {}
  BY WithoutPendingType DEF WithoutPending, ViewOf
<1>2. w \in View /\ w.events = <<>> /\ w.started = {}
  <2> HIDE DEF v
  <2> QED BY <1>1 DEF View, Statuses
<1>3. e \in Event /\ e.id = a
  BY <1>1, ExecutorFinishedType DEF Results, ExecutorFinished
<1>4. w = [ViewOf(c) EXCEPT !.pending = RemoveIndex(@, PositionOf(a, @)),
                            !.status = "InProgress"]
  BY DEF WithoutPending, ViewOf
<1>5. StartForUser(c, ViewOf(c), a) \in {TryExecuteAvailable(c, now), later}
  <2> HIDE DEF w
  <2> QED BY <1>4 DEF StartForUser
<1> HIDE DEF w, e
<1>6. now \in ConsentedView({a})
  <2>1. Append(w.events, e) = <<e>> /\ <<e>> \in Seq(Event)
    BY <1>2, <1>3
  <2> DEFINE t == <<e>>
  <2>2. AnsweredIds(t) \subseteq {a}
    BY <1>3 DEF AnsweredIds, AnswersIn
  <2>3. t \in Seq(Event) /\ now = [w EXCEPT !.events = t]
    BY <2>1
  <2> HIDE DEF t, now
  <2>4. now \in View /\ now.started = {} /\ now.events = t
    BY <1>2, <2>3 DEF View
  <2> QED BY <2>2, <2>4 DEF ConsentedView, Consented
<1>7. later \in ConsentedView({a})
  <2>1. later \in View
    BY <1>1, <1>2, PhaseOfType DEF View, Running, Phases
  <2>2. later.started = {a} /\ later.events = <<>>
    BY <1>2 DEF View
  <2> HIDE DEF later
  <2> QED BY <2>1, <2>2 DEF ConsentedView, Consented, AnsweredIds, AnswersIn
<1> HIDE DEF now, later
<1> QED
  BY <1>5, <1>6, <1>7, TryExecuteAvailableConsents

\* Serving a queue that released actions have joined starts what may run by itself.
LEMMA EnqueueConsents ==
    ASSUME ModelTypeOK, NEW c \in Conversations, NEW released \in Seq(ActionIds), NEW ok
    PROVE  Enqueue(c, released) \in ConsentedView(ok)
<1> DEFINE v == ViewOf(c)
           more == Filter(released, ActionIds \ FinishedIds(c))
           w == [v EXCEPT !.pending = @ \o more]
<1>1. v \in View /\ more \in Seq(ActionIds) /\ v.started = {} /\ v.events = <<>>
  BY ViewOfType, FilterProperties DEF ViewOf
<1>2. w \in View /\ w.started = {} /\ w.events = <<>>
  <2> HIDE DEF v, more
  <2>1. v.pending \o more \in Seq(ActionIds)
    BY <1>1 DEF View
  <2> QED BY <1>1, <2>1 DEF View
<1>3. TryExecuteAvailable(c, w) \in ConsentedView(ok)
  <2> HIDE DEF w
  <2> QED BY <1>2, QuietConsents, TryExecuteAvailableConsents
<1> QED BY <1>3 DEF Enqueue

(***************************************************************************)
(* What NothingRunsWithoutConsent says of a step.                          *)
(***************************************************************************)
ConsentStep ==
    \A c \in Conversations : \A a \in Waiting(c) :
        a \in running'[c].ids \cup AwaitingDelivery(c)' =>
            \/ a \in settings.auto \cup approved'
            \/ Autonomous /\ a \in Commands /\ executing'[a] = NoConv

\* An action that waits is not running, has no result on the way and does not
\* execute, in this conversation or another.
LEMMA WaitingRests ==
    ASSUME NEW E, PlacedState(E), NEW c \in Conversations, NEW a \in Waiting(c)
    PROVE  /\ a \in ActionIds /\ a \notin running[c].ids
           /\ a \notin AnsweredFor(c, effects) /\ executing[a] = NoConv
<1>1. /\ Apart(PreprocessingIds(c), Elems(pending[c]), running[c].ids, FinishedIds(c),
               AnsweredFor(c, effects), ExecutingIn(c), past)
      /\ Waiting(c) \subseteq received[c] /\ received[c] \subseteq ActionIds
  BY SingleIsClean DEF SingleIn, Waiting, PlacedState, KnownState, ModelTypeOK
<1>2. a \in ActionIds /\ a \notin running[c].ids /\ a \notin AnsweredFor(c, effects)
      /\ a \notin ExecutingIn(c)
  BY <1>1 DEF Apart, Waiting
<1>3. ASSUME NEW d \in Conversations, executing[a] = d, d # c PROVE FALSE
  <2>1. a \in received[d]
    BY <1>2, <1>3 DEF PlacedState, KnownState, KnownInv, ExecsKnown
  <2> QED BY <1>1, <1>3, <2>1, ReceivedApart DEF PlacedState
<1> QED
  BY <1>2, <1>3 DEF PlacedState, KnownState, ModelTypeOK, ExecutingIn

\* The results on the way of a conversation are those its events announce.
LEMMA AwaitingAnswered ==
    ASSUME NEW c
    PROVE  /\ AwaitingDelivery(c) = AnsweredFor(c, effects)
           /\ AwaitingDelivery(c)' = AnsweredFor(c, effects')
BY DEF AwaitingDelivery, ResultEvents, AnsweredFor, AnswersFor

\* Committing a view whose handler had consent.  The handler took the actions R of
\* the phase, none of which waited, and appends to a queue without waiting actions.
LEMMA CommitConsents ==
    ASSUME NEW E, PlacedState(E), NEW c \in Conversations, NEW ok, ok \subseteq approved',
           NEW Q, NEW R, NEW F, R \subseteq running[c].ids,
           NEW v \in FramedView(c, Q, R, F), v \in ConsentedView(ok),
           NEW queue \in Seq(E), NEW execs, Commit(c, v, queue, execs),
           \A d \in Conversations : Waiting(d) \cap AnsweredFor(d, queue) = {},
           \A a \in Waiting(c) : execs[a] = NoConv
    PROVE  ConsentStep
<1> SUFFICES ASSUME NEW d \in Conversations, NEW a \in Waiting(d),
                    a \in running'[d].ids \cup AwaitingDelivery(d)'
             PROVE  \/ a \in settings.auto \cup approved'
                    \/ Autonomous /\ a \in Commands /\ executing'[a] = NoConv
  BY DEF ConsentStep
<1>1. /\ running' = [running EXCEPT ![c] = v.running] /\ effects' = queue \o v.events
      /\ executing' = [x \in ActionIds |-> IF x \in v.started THEN c ELSE execs[x]]
      /\ running \in [Conversations -> Running]
  BY DEF Commit, PlacedState, KnownState, ModelTypeOK
<1>2. /\ v.events \in Seq(E) /\ v.running.ids = R \cup v.started
      /\ Consented(ok, v)
  <2>1. v.events \in Seq(Event) /\ v.running.ids = R \cup v.started /\ Consented(ok, v)
    BY DEF FramedView, Framed, ConsentedView, View
  <2> QED BY <2>1, EventsAreEffects DEF PlacedState, KnownState
<1>3. AwaitingDelivery(d)' = AnsweredFor(d, queue) \cup AnsweredFor(d, v.events)
  <2> DEFINE evs == v.events
  <2>1. evs \in Seq(E) /\ effects' = queue \o evs
    BY <1>1, <1>2
  <2> HIDE DEF evs
  <2>2. AnsweredFor(d, queue \o evs) = AnsweredFor(d, queue) \cup AnsweredFor(d, evs)
    BY <2>1, AnswersForConcat
  <2> QED BY <2>1, <2>2, AwaitingAnswered DEF evs
<1>4. a \in ActionIds /\ a \notin running[d].ids /\ a \notin AnsweredFor(d, queue)
  BY WaitingRests
<1>5. CASE d # c
  <2>1. AnsweredFor(d, v.events) = {}
    BY <1>5, AnswersForView
  <2> QED BY <1>1, <1>3, <1>4, <1>5, <2>1
<1>6. CASE d = c
  <2>1. AnsweredFor(d, v.events) = AnsweredIds(v.events)
    BY <1>6, AnswersForView
  <2>2. running'[d].ids = R \cup v.started
    BY <1>1, <1>2, <1>6
  <2>3. a \in v.started \/ (a \notin v.started /\ a \in AnsweredIds(v.events))
    BY <1>3, <1>4, <1>6, <2>1, <2>2
  <2>4. CASE a \in v.started
    BY <1>2, <2>4 DEF Consented
  <2>5. CASE a \notin v.started /\ a \in AnsweredIds(v.events)
    <3>1. executing'[a] = NoConv
      BY <1>1, <1>4, <1>6, <2>5
    <3> QED BY <1>2, <2>5, <3>1 DEF Consented, Refusable
  <2> QED BY <2>3, <2>4, <2>5
<1> QED BY <1>5, <1>6

\* Handlers that start nothing and announce results of running actions only.
LEMMA QuietStepConsents ==
    ASSUME NEW E, PlacedState(E), UNCHANGED running,
           \A d \in Conversations : Waiting(d) \cap AnsweredFor(d, effects') = {}
    PROVE  ConsentStep
<1>1. \A d \in Conversations : \A a \in Waiting(d) :
          a \notin running'[d].ids /\ a \notin AwaitingDelivery(d)'
  BY WaitingRests, AwaitingAnswered
<1> QED BY <1>1 DEF ConsentStep

\* No waiting action is announced.
LEMMA WaitingUnanswered ==
    ASSUME NEW E, PlacedState(E)
    PROVE  /\ \A d \in Conversations : Waiting(d) \cap AnsweredFor(d, effects) = {}
           /\ \A d \in Conversations : \A a \in Waiting(d) : executing[a] = NoConv
           /\ effects \in Seq(E)
BY WaitingRests DEF PlacedState, KnownState

\* A running action completes or is cancelled.
LEMMA ResolvesConsents ==
    ASSUME NEW E, PlacedState(E), NEW a \in ActionIds, executing[a] # NoConv,
           NEW res \in Results, NEW reason \in Reasons \cup {NoReason},
           effects' = Append(effects, ExecutorFinished(executing[a], a, res, reason)),
           UNCHANGED running
    PROVE  ConsentStep
<1>1. PICK c \in Conversations : c = executing[a]
  BY DEF PlacedState, KnownState, ModelTypeOK
<1> DEFINE t == <<ExecutorFinished(c, a, res, reason)>>
<1>2. t \in Seq(E) /\ effects \in Seq(E) /\ effects' = effects \o t
  <2>1. ExecutorFinished(c, a, res, reason) \in E
    BY <1>1, ExecutorFinishedType DEF PlacedState, KnownState, Extends
  <2> QED BY <1>1, <2>1 DEF PlacedState, KnownState
<1>3. \A d : AnsweredFor(d, t) = IF d = c THEN {a} ELSE {}
  BY AnswersForOne
<1> HIDE DEF t
<1>4. \A d : AnsweredFor(d, effects') = AnsweredFor(d, effects) \cup AnsweredFor(d, t)
  BY <1>2, AnswersForConcat
<1>5. \A d \in Conversations : a \notin Waiting(d)
  BY WaitingUnanswered
<1>6. \A d \in Conversations : Waiting(d) \cap AnsweredFor(d, effects') = {}
  BY <1>3, <1>4, <1>5, WaitingUnanswered
<1> QED BY <1>6, QuietStepConsents

\* handle_preprocess_actions_results starts what may run by itself.
LEMMA PreprocessActionsResultsConsents ==
    ASSUME NEW E, PlacedState(E), NEW c \in Conversations, NEW b \in ActionIds,
           PreprocessActionsResults(c, b)
    PROVE  ConsentStep
<1> DEFINE released == [i \in 1..Releasable(Completed(c, b)) |-> Completed(c, b)[i].id]
           v == Enqueue(c, released)
           Q == Elems(pending[c]) \cup Elems(released)
           F == FinishedIds(c)
<1>1. ModelTypeOK /\ released \in Seq(ActionIds)
  BY ReleasedType DEF PlacedState, KnownState
<1>2. Commit(c, v, effects, executing)
  BY DEF PreprocessActionsResults
<1> HIDE DEF released
<1>3. v \in FramedView(c, Q, running[c].ids, F) /\ v \in ConsentedView({})
  BY <1>1, EnqueueFramed, EnqueueConsents
<1> HIDE DEF v, Q, F
<1>4. PICK R : R = running[c].ids
  OBVIOUS
<1> QED BY <1>2, <1>3, <1>4, WaitingUnanswered, CommitConsents

\* execute_action starts what the user approves, or what may run by itself.
LEMMA ExecuteActionConsents ==
    ASSUME NEW E, PlacedState(E), NEW c \in Conversations, NEW a, ExecuteAction(c, a)
    PROVE  ConsentStep
<1> DEFINE v == StartForUser(c, ViewOf(c), a)
           Q == Elems(pending[c])
           F == FinishedIds(c)
           ok == {a}
<1>1. ModelTypeOK /\ a \in Elems(pending[c]) /\ Commit(c, v, effects, executing)
      /\ ok \subseteq approved'
  BY DEF PlacedState, KnownState, ExecuteAction, MayStartForUser
<1>2. v \in FramedView(c, Q, running[c].ids, F) /\ v \in ConsentedView(ok)
  BY <1>1, StartForUserFramed, StartForUserConsents
<1> HIDE DEF v, Q, F, ok
<1>3. PICK R : R = running[c].ids
  OBVIOUS
<1> QED BY <1>1, <1>2, <1>3, WaitingUnanswered, CommitConsents

\* The result of a queued action, which is denied or cancelled.
LEMMA HandlePendingConsents ==
    ASSUME NEW E, PlacedState(E), NEW c \in Conversations, NEW a \in Elems(pending[c]),
           NEW res \in Results, NEW reason \in Reasons \cup {NoReason},
           Commit(c, HandleResult(c, WithoutPending(c, a), a, res, reason),
                  effects, executing)
    PROVE  ConsentStep
<1> DEFINE w == WithoutPending(c, a)
           v == HandleResult(c, w, a, res, reason)
           Q == Elems(pending[c])
           F == FinishedIds(c)
<1>1. ModelTypeOK
  BY DEF PlacedState, KnownState
<1>2. /\ w \in FramedView(c, Q, running[c].ids, F)
      /\ w.started = {} /\ a \in ActionIds /\ a \in F \cup Q
  BY <1>1, WithoutPendingFramed
<1>3. w \in View /\ w.events = <<>>
  BY <1>1, WithoutPendingType DEF WithoutPending, ViewOf
<1>4. Commit(c, v, effects, executing)
  OBVIOUS
<1> HIDE DEF w, Q, F
<1>5. PICK R : R = running[c].ids
  OBVIOUS
<1>6. v \in FramedView(c, Q, R \ {a}, F)
  BY <1>1, <1>2, <1>5, HandleResultFramed
<1>7. v \in ConsentedView({})
  BY <1>1, <1>2, <1>3, QuietConsents, HandleResultConsents
<1> HIDE DEF v
<1>8. PICK S : S = R \ {a}
  OBVIOUS
<1> QED BY <1>4, <1>5, <1>6, <1>7, <1>8, WaitingUnanswered, CommitConsents

\* cancel_action_with_id cancels a running or a queued action.
LEMMA CancelActionWithIdConsents ==
    ASSUME NEW E, PlacedState(E), NEW c \in Conversations, NEW a \in ActionIds,
           NEW reason \in Reasons, CancelActionWithId(c, a, reason)
    PROVE  ConsentStep
<1>1. CASE CancelRunning(c, a, reason)
           /\ UNCHANGED <<pending, running, finished, status, futures>>
  BY <1>1, ResolvesConsents DEF CancelRunning, Results
<1>2. CASE /\ a \in Elems(pending[c])
           /\ Commit(c, HandleResult(c, WithoutPending(c, a), a, "Cancelled", reason),
                     effects, executing)
  BY <1>2, HandlePendingConsents DEF Results
<1> QED
  BY <1>1, <1>2 DEF CancelActionWithId

\* The callback of an execution future answers a running action or nothing.
LEMMA CompleteAsyncConsents ==
    ASSUME NEW E, PlacedState(E), NEW c \in Conversations, NEW a \in ActionIds,
           CompleteAsync(c, a)
    PROVE  ConsentStep
<1>1. PICK res \in Results : FutureResolves(c, a, res)
  BY DEF CompleteAsync, Results
<1>2. UNCHANGED running
  BY DEF CompleteAsync
<1>3. CASE executing[a] = NoConv
  BY <1>1, <1>2, <1>3, WaitingUnanswered, QuietStepConsents DEF FutureResolves
<1>4. CASE executing[a] # NoConv
  BY <1>1, <1>2, <1>4, ResolvesConsents DEF FutureResolves
<1> QED
  BY <1>3, <1>4

\* The queue once all that runs in c is cancelled: none of it waited.
LEMMA CancelledUnanswered ==
    ASSUME NEW E, PlacedState(E), NEW c \in Conversations,
           NEW listed \in Orderings(ExecutingIn(c)), NEW reason \in Reasons
    PROVE  /\ effects \o CancelledEvents(c, listed, reason) \in Seq(E)
           /\ \A d \in Conversations :
                  Waiting(d) \cap AnsweredFor(d, effects \o CancelledEvents(c, listed, reason)) = {}
           /\ \A a \in Waiting(c) : ExecutingOutside({c})[a] = NoConv
<1> DEFINE queue == effects \o CancelledEvents(c, listed, reason)
<1>1. /\ queue \in Seq(E)
      /\ AnsweredFor(c, queue) = AnsweredFor(c, effects) \cup ExecutingIn(c)
      /\ ExecutingFor(c, ExecutingOutside({c})) = {}
      /\ \A d \in Conversations :
             /\ AnsweredOnce(d, queue)
             /\ d # c => /\ AnsweredFor(d, queue) = AnsweredFor(d, effects)
                         /\ ExecutingFor(d, ExecutingOutside({c})) = ExecutingIn(d)
  BY CancelledQueue
<1> HIDE DEF queue
<1>2. \A a \in Waiting(c) : a \notin ExecutingIn(c) /\ ExecutingOutside({c})[a] = NoConv
  BY WaitingRests, NoConvAssumption DEF ExecutingIn, ExecutingOutside
<1>3. \A d \in Conversations : Waiting(d) \cap AnsweredFor(d, queue) = {}
  BY <1>1, <1>2, WaitingUnanswered
<1> QED BY <1>1, <1>2, <1>3 DEF queue

\* cancel_all_pending_actions starts nothing.
LEMMA CancelAllPendingActionsConsents ==
    ASSUME NEW E, PlacedState(E), NEW c \in Conversations, NEW reason \in Reasons,
           CancelAllPendingActions(c, reason)
    PROVE  ConsentStep
<1> DEFINE v == CancelPending(c, ViewOf(c), reason)
           execs == ExecutingOutside({c})
           F == FinishedIds(c) \cup Elems(pending[c])
<1>1. PICK listed \in Orderings(ExecutingIn(c)) :
          Commit(c, v, effects \o CancelledEvents(c, listed, reason), execs)
  BY DEF CancelAllPendingActions, CancelAll
<1>2. v \in FramedView(c, {}, running[c].ids, F)
  BY CancelPendingFramed DEF PlacedState, KnownState
<1>3. v \in ConsentedView({})
  BY <1>2 DEF FramedView, Framed, ConsentedView, Consented
<1> DEFINE queue == effects \o CancelledEvents(c, listed, reason)
<1>4. /\ queue \in Seq(E)
      /\ \A d \in Conversations : Waiting(d) \cap AnsweredFor(d, queue) = {}
      /\ \A a \in Waiting(c) : execs[a] = NoConv
  BY CancelledUnanswered
<1>5. Commit(c, v, queue, execs)
  BY <1>1
<1> HIDE DEF v, execs, F, queue
<1>6. PICK R : R = running[c].ids
  OBVIOUS
<1>7. PICK x : x = execs
  OBVIOUS
<1> QED BY <1>2, <1>3, <1>4, <1>5, <1>6, <1>7, CommitConsents

\* A new query cancels what runs and what is queued.
LEMMA CancelAndDrainConsents ==
    ASSUME NEW E, PlacedState(E), NEW c \in Conversations, NEW reason \in Reasons,
           CancelAndDrain(c, reason)
    PROVE  ConsentStep
<1> DEFINE v == CancelPending(c, ViewOf(c), reason)
           F == FinishedIds(c) \cup Elems(pending[c])
<1>1. PICK listed \in Orderings(ExecutingIn(c)) :
          effects' = effects \o CancelledEvents(c, listed, reason) \o v.events
  BY DEF CancelAndDrain
<1>2. v \in FramedView(c, {}, running[c].ids, F) /\ UNCHANGED running
  BY CancelPendingFramed DEF PlacedState, KnownState, CancelAndDrain
<1> DEFINE queue == effects \o CancelledEvents(c, listed, reason)
<1>3. /\ queue \in Seq(E)
      /\ \A d \in Conversations : Waiting(d) \cap AnsweredFor(d, queue) = {}
  BY CancelledUnanswered
<1>4. effects' = queue \o v.events
  BY <1>1
<1> HIDE DEF v, F, queue
<1>5. \A d : AnsweredFor(d, v.events) = {}
  BY <1>2, AnswersForView
<1>6. v.events \in Seq(E)
  <2>1. v.events \in Seq(Event)
    BY <1>2 DEF FramedView, View
  <2> QED BY <2>1, EventsAreEffects DEF PlacedState, KnownState
<1> DEFINE t == v.events
<1>7. t \in Seq(E) /\ (\A d : AnsweredFor(d, t) = {}) /\ effects' = queue \o t
  BY <1>4, <1>5, <1>6
<1> HIDE DEF t
<1>8. \A d : AnsweredFor(d, queue \o t) = AnsweredFor(d, queue) \cup AnsweredFor(d, t)
  BY <1>3, <1>7, AnswersForConcat
<1> QED BY <1>2, <1>3, <1>7, <1>8, QuietStepConsents

\* Delivering a result to the action model starts what may run by itself.
LEMMA DeliverExecutorFinishedConsents ==
    ASSUME NEW E, PlacedState(E), DeliverExecutorFinished
    PROVE  ConsentStep
<1> DEFINE e == Head(effects)
<1>1. PICK c, a : c = e.conv /\ a = e.id
  OBVIOUS
<1> DEFINE w == ViewOf(c)
           v == HandleResult(c, w, a, e.res, e.reason)
           Q == Elems(pending[c])
           F == FinishedIds(c) \cup {a}
<1>2. /\ ModelTypeOK /\ effects \in Seq(E) /\ effects # <<>> /\ Extends(E)
      /\ e.type = "ExecutorFinished"
      /\ Commit(c, v, Tail(effects), executing)
  BY <1>1 DEF PlacedState, KnownState, DeliverExecutorFinished, Idle
<1>3. /\ c \in Conversations /\ a \in ActionIds /\ e.res \in Results
      /\ e.reason \in Reasons \cup {NoReason}
  BY <1>1, <1>2, HeadIsAnswer
<1>4. /\ w \in FramedView(c, Q, running[c].ids, FinishedIds(c)) /\ w.started = {}
      /\ w \in View /\ w.events = <<>>
  BY <1>2, <1>3, ViewOfFramed, ViewOfType DEF ViewOf
<1>5. w \in FramedView(c, Q, running[c].ids, F) /\ a \in F \cup Q
  BY <1>4 DEF FramedView, Framed
<1>6. PICK res, reason, R : res = e.res /\ reason = e.reason /\ R = running[c].ids
  OBVIOUS
<1>7. res \in Results /\ reason \in Reasons \cup {NoReason}
      /\ Commit(c, HandleResult(c, w, a, res, reason), Tail(effects), executing)
  BY <1>2, <1>3, <1>6
<1> HIDE DEF w, Q, F, v
<1> DEFINE u == HandleResult(c, w, a, res, reason)
<1>8. u \in FramedView(c, Q, R \ {a}, F)
  BY <1>2, <1>3, <1>4, <1>5, <1>6, <1>7, HandleResultFramed
<1>9. u \in ConsentedView({})
  BY <1>2, <1>3, <1>4, <1>7, QuietConsents, HandleResultConsents
<1>10. Commit(c, u, Tail(effects), executing)
  BY <1>7
<1> HIDE DEF u
<1>11. PICK queue, S, execs : queue = Tail(effects) /\ S = R \ {a} /\ execs = executing
  OBVIOUS
<1>12. queue \in Seq(E) /\ \A d \in Conversations : Waiting(d) \cap AnsweredFor(d, queue) = {}
  <2>1. Tail(effects) \in Seq(E)
    BY <1>2
  <2>2. \A d : AnsweredFor(d, Tail(effects)) \subseteq AnsweredFor(d, effects)
    BY <1>2, AnswersForTail
  <2> QED BY <1>11, <2>1, <2>2, WaitingUnanswered
<1>13. /\ S \subseteq running[c].ids /\ u \in FramedView(c, Q, S, F)
       /\ Commit(c, u, queue, execs) /\ \A x \in Waiting(c) : execs[x] = NoConv
  BY <1>3, <1>6, <1>8, <1>10, <1>11, WaitingUnanswered
<1>14. {} \subseteq approved'
  OBVIOUS
<1> QED BY <1>3, <1>9, <1>12, <1>13, <1>14, CommitConsents

\* The controller's reaction to a finished action starts nothing.
LEMMA DeliverFinishedConsents ==
    ASSUME NEW E, PlacedState(E), DeliverFinished
    PROVE  ConsentStep
<1>1. effects # <<>> /\ effects' = Tail(effects) /\ UNCHANGED running
  BY DEF DeliverFinished, Idle
<1>2. \A d : AnsweredFor(d, effects') \subseteq AnsweredFor(d, effects)
  BY <1>1, WaitingUnanswered, AnswersForTail
<1> QED BY <1>1, <1>2, WaitingUnanswered, QuietStepConsents

\* The steps of a conversation: one case per action.
LEMMA ConversationConsents ==
    ASSUME NEW E, PlacedState(E), NEW c \in Conversations, ConversationNext(c)
    PROVE  ConsentStep
<1>1. ASSUME NEW output \in Outputs[c], QueueActions(c, output) PROVE ConsentStep
  BY <1>1, WaitingUnanswered, QuietStepConsents DEF QueueActions
<1>2. CASE ExecuteNextActionForUser(c)
  BY <1>2, ExecuteActionConsents DEF ExecuteNextActionForUser
<1>3. ASSUME NEW reason \in Reasons,
             CancelAllPendingActions(c, reason) \/ CancelAndDrain(c, reason)
      PROVE  ConsentStep
  BY <1>3, CancelAllPendingActionsConsents, CancelAndDrainConsents
<1>4. CASE ClearFinished(c)
  BY <1>4, WaitingUnanswered, QuietStepConsents DEF ClearFinished
<1>5. ASSUME NEW a \in ActionIds, DenyRunAgents(c, a) PROVE ConsentStep
  <2>1. /\ a \in Elems(pending[c])
        /\ Commit(c, HandleResult(c, WithoutPending(c, a), a, "Completed", NoReason),
                  effects, executing)
    BY <1>5 DEF DenyRunAgents
  <2> QED BY <2>1, HandlePendingConsents DEF Results
<1>6. ASSUME NEW a \in ActionIds,
             \/ PreprocessActionsResults(c, a)
             \/ ExecuteAction(c, a)
             \/ \E reason \in Reasons : CancelActionWithId(c, a, reason)
             \/ CompleteAsync(c, a)
      PROVE  ConsentStep
  BY <1>6, PreprocessActionsResultsConsents, ExecuteActionConsents,
     CancelActionWithIdConsents, CompleteAsyncConsents
<1> QED
  BY <1>1, <1>2, <1>3, <1>4, <1>5, <1>6 DEF ConversationNext

\* An action starts, or is answered, only with the user's consent or where the
\* permissions let it run by itself, except for the refusal of an autonomous agent's
\* command (NothingRunsWithoutConsent); for any settings, which may change at any
\* time, and any outputs in which no identifier is used in two conversations.
THEOREM RunsWithConsent == DistinctIdentifiers => (Spec => NothingRunsWithoutConsent)
<1>1. SUFFICES ASSUME DistinctIdentifiers PROVE Spec => NothingRunsWithoutConsent
  OBVIOUS
<1>2. TypeOK /\ KnownInv /\ SinglesInv /\ IdentifiersInv /\ [Next]_vars
          => SinglesInv' /\ IdentifiersInv'
  BY <1>1, SinglesStep
<1>3. TypeOK /\ KnownInv /\ SinglesInv /\ IdentifiersInv /\ [Next]_vars => [ConsentStep]_vars
  <2>1. SUFFICES ASSUME TypeOK, KnownInv, SinglesInv, IdentifiersInv, Next
                 PROVE  ConsentStep
    OBVIOUS
  <2>2. PlacedState(Event)
    BY <1>1, <2>1 DEF PlacedState, KnownState, Extends, TypeOK
  <2>3. CASE ChangeSettings
    BY <2>2, <2>3, WaitingUnanswered, QuietStepConsents DEF ChangeSettings
  <2> QED
    BY <2>1, <2>2, <2>3, ConversationConsents, DeliverExecutorFinishedConsents,
       DeliverFinishedConsents DEF Next
<1> QED
  BY <1>2, <1>3, SinglesInit, KnownInit, KnownStep, TypeCorrect, PTL
     DEF Spec, NothingRunsWithoutConsent, ConsentStep
=============================================================================
