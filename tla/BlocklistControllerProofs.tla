---------------------- MODULE BlocklistControllerProofs ----------------------
(***************************************************************************)
(* Proofs about the turns of a conversation: what is true of the queue of  *)
(* actions is true under the controller, a failure is final, a streaming   *)
(* answer counts as progress, and no result is left behind.                *)
(***************************************************************************)
EXTENDS BlocklistController, ActionModelProofs

-----------------------------------------------------------------------------
(* Types.                                                                  *)

ControllerEvent ==
    Event \cup [type : {"StreamCancelled"}, conv : Conversations, reason : Reasons,
                resumes : BOOLEAN]

StreamPhases == {"None", "Open", "Waiting", "Completed", "Failed"}

Streams == [phase : StreamPhases, output : Seq(ActionIds), resumes : BOOLEAN]

TurnTypeOK ==
    /\ stream \in [Conversations -> Streams]
    /\ \A c \in Conversations : stream[c].output \in Outputs[c] \cup {<<>>}
    /\ selected \in Conversations \cup {NoConv}
    /\ active \in Conversations \cup {NoConv}
    /\ selected \in Conversations => active \in Conversations
    /\ resume \in [Conversations -> BOOLEAN]
    /\ stopped \in [Conversations -> BOOLEAN]
    /\ queries \in [Conversations -> Nat]

ControllerTypeOK == ModelTypeOK /\ effects \in Seq(ControllerEvent) /\ TurnTypeOK

\* The reasons include those of the queries, as CancellationReason does.
ReasonsComplete == {"Cancelled", "KeepInProgress"} \subseteq Reasons

\* The events of the action model are events of the controller.
LEMMA ControllerExtends == Extends(ControllerEvent)
BY DEF Extends, ControllerEvent, Event

-----------------------------------------------------------------------------
(* The events of a handler, and what it does where nothing is queued.      *)

\* The event speaks of c, and is not the result of a cancelled action but one that
\* the executor has at once.
Voices(c, e) ==
    /\ e.conv = c
    /\ e.type = "ExecutorFinished" => e.reason = NoReason /\ e.id \in SyncActions(FALSE)

\* The views of c with such events only, and without a failure.
VoicedView(c) ==
    {v \in View : v.status # "Error" /\ \A e \in Elems(v.events) : Voices(c, e)}

(***************************************************************************)
(* The views of c in which nothing is queued or started: r is the phase,   *)
(* S are the statuses, and actions are finished for one reason.            *)
(***************************************************************************)
ClosedView(c, reason, S, r) ==
    {v \in View : /\ v.pending = <<>> /\ v.started = {} /\ v.running = r
                  /\ v.status \in S
                  /\ \A e \in Elems(v.events) :
                         e.type = "Finished" /\ e.conv = c /\ e.reason = reason}

\* Cancelling for the reason leaves the statuses S.
Kept(reason, S) == reason = "Cancelled" => {"Cancelled", "InProgress"} \subseteq S

LEMMA TryExecuteAvailableVoiced ==
    ASSUME NEW c \in Conversations, NEW v \in VoicedView(c)
    PROVE  TryExecuteAvailable(c, v) \in VoicedView(c)
<1> DEFINE w == TryExecuteAvailable(c, v)
<1>1. v \in View /\ w \in View /\ v.pending \in Seq(ActionIds) /\ v.events \in Seq(Event)
  BY TryExecuteAvailableType DEF VoicedView, View
<1>2. PICK n \in 0..Len(v.pending) : Executed(c, v, w, n)
  BY <1>1, TryExecuteAvailableExecutes
<1> DEFINE evs == AnswersOf(c, v.pending, n)
<1>3. evs \in Seq(Event) /\ \A i \in DOMAIN evs : Voices(c, evs[i])
  <2> DEFINE q == v.pending
  <2>1. /\ DOMAIN AnswersOf(c, q, n) = DOMAIN AnsweredOf(q, n)
        /\ \A i \in DOMAIN AnsweredOf(q, n) :
               /\ AnswersOf(c, q, n)[i].reason = NoReason
               /\ AnswersOf(c, q, n)[i].type = "ExecutorFinished"
    BY DEF AnswersOf, ExecutorFinished
  <2>2. q \in Seq(ActionIds) /\ n \in 0..Len(q)
    BY <1>1, <1>2
  <2> HIDE DEF q
  <2>3. /\ AnswersOf(c, q, n) \in Seq(Event)
        /\ \A i \in DOMAIN AnsweredOf(q, n) : AnswersOf(c, q, n)[i].conv = c
        /\ AnsweredIds(AnswersOf(c, q, n)) = {q[i] : i \in 1..n} \cap SyncActions(FALSE)
    BY <2>2, AnswersOfProperties
  <2>4. \A i \in DOMAIN AnsweredOf(q, n) : AnswersOf(c, q, n)[i].id \in SyncActions(FALSE)
    BY <2>1, <2>3 DEF AnsweredIds, AnswersIn
  <2> QED BY <2>1, <2>3, <2>4 DEF q, Voices
<1>4. w.events = v.events \o evs
  BY <1>2 DEF Executed
<1> HIDE DEF evs
<1>5. \A e \in Elems(w.events) : Voices(c, e)
  <2>1. Elems(w.events) = Elems(v.events) \cup Elems(evs)
    BY <1>1, <1>3, <1>4, ConcatElems
  <2> QED BY <1>3, <2>1 DEF VoicedView, Elems
<1>6. w.status \in {v.status, "Blocked", "InProgress"}
  BY DEF TryExecuteAvailable
<1> HIDE DEF w
<1>7. w \in VoicedView(c)
  BY <1>1, <1>5, <1>6 DEF VoicedView
<1> QED BY <1>7 DEF w

\* The event of a recorded result.
LEMMA PushedEvents ==
    ASSUME NEW c \in Conversations, NEW v \in View, NEW a \in ActionIds,
           NEW res \in Results, NEW reason \in Reasons \cup {NoReason}
    PROVE  LET w == Pushed(c, v, a, res, reason)
               x == Sorted(c, w)
           IN  /\ Elems(w.events) = Elems(v.events) \cup {Finished(c, a, reason)}
               /\ x.events = w.events
               /\ w.status = v.status /\ w.pending = v.pending /\ w.running = v.running
               /\ w.started = v.started
               /\ x.status = v.status /\ x.pending = v.pending /\ x.running = v.running
               /\ x.started = v.started
<1> DEFINE evs == Append(v.events, Finished(c, a, reason))
           f == Append(v.finished, [id |-> a, res |-> res])
           w == Pushed(c, v, a, res, reason)
           x == Sorted(c, w)
           g == SortFinished(c, w.finished)
<1>1. Elems(evs) = Elems(v.events) \cup {Finished(c, a, reason)} /\ evs \in Seq(Event)
  BY AppendElems, FinishedType DEF View
<1>2. w = [v EXCEPT !.finished = f, !.events = evs]
  BY DEF Pushed
<1>3. x = [w EXCEPT !.finished = g]
  BY DEF Sorted
<1> HIDE DEF evs, f, w, x, g
<1>4. /\ w.events = evs /\ w.status = v.status /\ w.pending = v.pending
      /\ w.running = v.running /\ w.started = v.started
      /\ DOMAIN w = DOMAIN v
  BY <1>2 DEF View
<1>5. /\ x.events = w.events /\ x.status = w.status /\ x.pending = w.pending
      /\ x.running = w.running /\ x.started = w.started
  BY <1>3
<1> QED
  BY <1>1, <1>4, <1>5 DEF w, x

\* Recording a result changes the status only when nothing is queued or running, and
\* the result is one of a cancellation.
LEMMA RecordResultStatus ==
    ASSUME ModelTypeOK, NEW c \in Conversations, NEW v \in View, NEW a \in ActionIds,
           NEW res \in Results, NEW reason \in Reasons \cup {NoReason}, v.pending = <<>>
    PROVE  LET r == RecordResult(c, v, a, res, reason)
           IN  \/ r.status = v.status
               \/ reason = "Cancelled" /\ r.status \in {"Cancelled", "InProgress"}
<1> DEFINE w == Pushed(c, v, a, res, reason)
           x == Sorted(c, w)
           r == RecordResult(c, v, a, res, reason)
           pushed == Append(v.finished, [id |-> a, res |-> res])
           s == IF AllCancelled(pushed) THEN "Cancelled" ELSE "InProgress"
<1>1. /\ w.status = v.status /\ x.status = v.status
  BY PushedEvents
<1>2. w \in View /\ x \in View
  BY RecordResultForms
<1>3. r \in {w, x, [x EXCEPT !.status = s]} /\ (reason # "Cancelled" => r \in {w, x})
  <2>1. r = IF v.running.ids # {} THEN w
            ELSE IF v.pending # <<>> THEN TryExecuteAvailable(c, x)
            ELSE IF reason # "Cancelled" THEN x
            ELSE [x EXCEPT !.status = s]
    <3>1. w.finished = pushed
      BY DEF Pushed, View
    <3>2. r = LET y == [w EXCEPT !.finished = SortFinished(c, pushed)]
              IN  IF v.running.ids # {} THEN w
                  ELSE IF v.pending # <<>> THEN TryExecuteAvailable(c, y)
                  ELSE IF reason # "Cancelled" THEN y
                  ELSE [y EXCEPT !.status = s]
      BY DEF RecordResult, Pushed
    <3>3. x = [w EXCEPT !.finished = SortFinished(c, w.finished)]
      BY DEF Sorted
    <3> HIDE DEF r, w, pushed, x, s
    <3> QED BY <3>1, <3>2, <3>3
  <2> HIDE DEF r, w, x, s
  <2> QED BY <2>1
<1>4. s \in {"Cancelled", "InProgress"}
  OBVIOUS
<1> HIDE DEF r, w, x, s, pushed
<1>5. [x EXCEPT !.status = s].status = s
  BY <1>2 DEF View
<1>6. r.status = v.status \/ (reason = "Cancelled" /\ r.status \in {"Cancelled", "InProgress"})
  BY <1>1, <1>3, <1>4, <1>5
<1> QED BY <1>6 DEF r

\* Recording a result speaks of its conversation, and not of a failure.
LEMMA RecordResultVoiced ==
    ASSUME ModelTypeOK, NEW c \in Conversations, NEW v \in VoicedView(c), NEW a \in ActionIds,
           NEW res \in Results, NEW reason \in Reasons \cup {NoReason}
    PROVE  RecordResult(c, v, a, res, reason) \in VoicedView(c)
<1> DEFINE w == Pushed(c, v, a, res, reason)
           x == Sorted(c, w)
           r == RecordResult(c, v, a, res, reason)
<1>1. v \in View /\ v.status # "Error"
  BY DEF VoicedView
<1>2. w \in View /\ x \in View
  BY <1>1, RecordResultForms
<1>3. Elems(w.events) = Elems(v.events) \cup {Finished(c, a, reason)}
  BY <1>1, PushedEvents, SMTT(30)
<1>4. x.events = w.events /\ w.status = v.status /\ x.status = v.status
  BY <1>1, PushedEvents, ZenonT(30)
<1>5. \/ r \in {w, TryExecuteAvailable(c, x)}
      \/ v.pending = <<>> /\ \E st \in Statuses : r = [x EXCEPT !.status = st]
  <2>1. /\ w \in View /\ x \in View
        /\ \/ v.running.ids # {} /\ r = w
           \/ v.running.ids = {} /\ v.pending # <<>> /\ r = TryExecuteAvailable(c, x)
           \/ /\ v.running.ids = {} /\ v.pending = <<>>
              /\ \E st \in Statuses : r = [x EXCEPT !.status = st]
    BY <1>1, RecordResultForms
  <2> HIDE DEF w, x, r
  <2> QED BY <2>1
<1>6. v.pending = <<>> => r.status \in {v.status, "Cancelled", "InProgress"}
  <2> SUFFICES ASSUME v.pending = <<>> PROVE r.status \in {v.status, "Cancelled", "InProgress"}
    OBVIOUS
  <2>1. \/ r.status = v.status
        \/ reason = "Cancelled" /\ r.status \in {"Cancelled", "InProgress"}
    BY <1>1, RecordResultStatus
  <2> HIDE DEF r
  <2> QED BY <2>1
<1> HIDE DEF w, x, r
<1>7. \A e \in Elems(w.events) : Voices(c, e)
  <2>1. Voices(c, Finished(c, a, reason))
    BY DEF Voices, Finished
  <2>2. \A e \in Elems(v.events) : Voices(c, e)
    BY DEF VoicedView
  <2> QED BY <1>3, <2>1, <2>2
<1>8. w \in VoicedView(c) /\ x \in VoicedView(c)
  BY <1>1, <1>2, <1>4, <1>7 DEF VoicedView
<1>9. TryExecuteAvailable(c, x) \in VoicedView(c)
  BY <1>8, TryExecuteAvailableVoiced
<1>10. \A st \in Statuses : /\ [x EXCEPT !.status = st].status = st
                            /\ st # "Error" => [x EXCEPT !.status = st] \in VoicedView(c)
  BY <1>8 DEF VoicedView, View
<1>11. r \in VoicedView(c)
  BY <1>1, <1>5, <1>6, <1>8, <1>9, <1>10
<1> QED BY <1>11 DEF r

\* Cancelling actions does so too.
LEMMA CancelEachVoiced ==
    ASSUME ModelTypeOK, NEW c \in Conversations, NEW v \in VoicedView(c),
           NEW ids \in Seq(ActionIds), NEW reason \in Reasons \cup {NoReason}
    PROVE  CancelEach(c, v, ids, reason) \in VoicedView(c)
<1>1. \A w \in VoicedView(c), a \in ActionIds :
          RecordResult(c, w, a, "Cancelled", reason) \in VoicedView(c)
  BY RecordResultVoiced DEF Results
<1> QED
  BY <1>1, CancelEachStaysIn

\* So does draining the queued commands.
LEMMA CancelOtherCommandsVoiced ==
    ASSUME ModelTypeOK, NEW c \in Conversations, NEW v \in VoicedView(c),
           NEW reason \in Reasons \cup {NoReason}
    PROVE  CancelOtherCommands(c, v, reason) \in VoicedView(c)
<1> DEFINE rest == Filter(v.pending, ActionIds \ Commands)
           ids == Filter(v.pending, Commands)
           w == [v EXCEPT !.pending = rest]
<1>1. v \in View /\ v.pending \in Seq(ActionIds)
  BY DEF VoicedView, View
<1>2. rest \in Seq(ActionIds) /\ ids \in Seq(ActionIds)
  BY <1>1, FilterProperties
<1> HIDE DEF rest, ids
<1>3. w \in VoicedView(c)
  BY <1>1, <1>2 DEF VoicedView, View
<1> HIDE DEF w
<1> QED
  BY <1>2, <1>3, CancelEachVoiced DEF CancelOtherCommands, w, rest, ids

\* handle_action_result speaks of its conversation, and not of a failure.
LEMMA HandleResultVoiced ==
    ASSUME ModelTypeOK, NEW c \in Conversations, NEW v \in VoicedView(c), NEW a \in ActionIds,
           NEW res \in Results, NEW reason \in Reasons \cup {NoReason}
    PROVE  HandleResult(c, v, a, res, reason) \in VoicedView(c)
<1> DEFINE w == WithoutRunning(v, a)
           u == IF res = "Snapshot" THEN CancelOtherCommands(c, w, reason) ELSE w
<1>1. v \in View /\ w \in View
  BY WithoutRunningType DEF VoicedView
<1>2. w.status = v.status /\ w.events = v.events
  BY <1>1 DEF WithoutRunning, View
<1> HIDE DEF w
<1>3. w \in VoicedView(c)
  BY <1>1, <1>2 DEF VoicedView
<1>4. u \in VoicedView(c)
  BY <1>3, CancelOtherCommandsVoiced
<1> HIDE DEF u
<1> QED
  BY <1>4, RecordResultVoiced DEF HandleResult, u, w

\* The view a handler starts from has no events; c has not failed.
LEMMA ViewOfVoiced ==
    ASSUME ModelTypeOK, NEW c \in Conversations, status[c] # "Error"
    PROVE  ViewOf(c) \in VoicedView(c)
<1>1. ViewOf(c) \in View /\ ViewOf(c).status = status[c] /\ ViewOf(c).events = <<>>
  BY ViewOfType DEF ViewOf
<1> QED BY <1>1 DEF VoicedView, Elems

\* The same without a queued action.
LEMMA WithoutPendingVoiced ==
    ASSUME ModelTypeOK, NEW c \in Conversations, status[c] # "Error", NEW a \in Elems(pending[c])
    PROVE  WithoutPending(c, a) \in VoicedView(c) /\ a \in ActionIds
<1>1. WithoutPending(c, a) \in View /\ a \in ActionIds
  BY WithoutPendingType
<1>2. WithoutPending(c, a).status = status[c] /\ WithoutPending(c, a).events = <<>>
  BY DEF WithoutPending, ViewOf
<1> QED BY <1>1, <1>2 DEF VoicedView, Elems

\* Starting a queued action speaks of its conversation, and not of a failure.
LEMMA StartForUserVoiced ==
    ASSUME ModelTypeOK, NEW c \in Conversations, NEW a \in Elems(pending[c])
    PROVE  StartForUser(c, ViewOf(c), a) \in VoicedView(c)
<1> DEFINE v == WithoutPending(c, a)
           w == [v EXCEPT !.status = "InProgress"]
           e == ExecutorFinished(c, a, "Completed", NoReason)
           now == [w EXCEPT !.events = Append(@, e)]
           later == [w EXCEPT !.running = [phase |-> PhaseOf({a}), ids |-> @.ids \cup {a}],
                              !.started = {a}]
<1>1. v \in View /\ a \in ActionIds /\ v.events = <<>>
  BY WithoutPendingType DEF WithoutPending, ViewOf
<1>2. w \in View /\ w.status = "InProgress" /\ w.events = <<>>
  <2> HIDE DEF v
  <2> QED BY <1>1 DEF View, Statuses
<1>3. e \in Event /\ (a \in SyncActions(TRUE) => Voices(c, e))
  <2>1. a \in SyncActions(TRUE) => a \in SyncActions(FALSE)
    BY DEF SyncActions, Denylisted
  <2> QED BY <1>1, <2>1, ExecutorFinishedType DEF Results, ExecutorFinished, Voices
<1>4. w = [ViewOf(c) EXCEPT !.pending = RemoveIndex(@, PositionOf(a, @)),
                            !.status = "InProgress"]
  BY DEF WithoutPending, ViewOf
<1>5. \/ a \in SyncActions(TRUE) /\ StartForUser(c, ViewOf(c), a) = TryExecuteAvailable(c, now)
      \/ StartForUser(c, ViewOf(c), a) = later
  <2> HIDE DEF w
  <2> QED BY <1>4 DEF StartForUser
<1> HIDE DEF w, e
<1>6. a \in SyncActions(TRUE) => now \in VoicedView(c)
  <2>1. Append(w.events, e) = <<e>> /\ <<e>> \in Seq(Event) /\ Elems(<<e>>) = {e}
    BY <1>2, <1>3 DEF Elems
  <2>2. now = [w EXCEPT !.events = <<e>>]
    BY <2>1
  <2> DEFINE t == <<e>>
  <2>3. t \in Seq(Event) /\ Elems(t) = {e} /\ now = [w EXCEPT !.events = t]
    BY <2>1, <2>2
  <2> HIDE DEF t, now
  <2> QED BY <1>2, <1>3, <2>3 DEF VoicedView, View
<1>7. later \in VoicedView(c)
  <2>1. later \in View
    BY <1>1, <1>2, PhaseOfType DEF View, Running, Phases
  <2>2. later.status = "InProgress" /\ later.events = <<>>
    BY <1>2 DEF View
  <2> HIDE DEF later
  <2> QED BY <2>1, <2>2 DEF VoicedView, Elems
<1> HIDE DEF now, later
<1> QED
  BY <1>5, <1>6, <1>7, TryExecuteAvailableVoiced

\* So does serving a queue that released actions have joined.
LEMMA EnqueueVoiced ==
    ASSUME ModelTypeOK, NEW c \in Conversations, status[c] # "Error",
           NEW released \in Seq(ActionIds)
    PROVE  Enqueue(c, released) \in VoicedView(c)
<1> DEFINE v == ViewOf(c)
           more == Filter(released, ActionIds \ FinishedIds(c))
           w == [v EXCEPT !.pending = @ \o more]
<1>1. v \in VoicedView(c) /\ v \in View /\ more \in Seq(ActionIds)
  BY ViewOfVoiced, ViewOfType, FilterProperties
<1>2. w \in VoicedView(c)
  <2> HIDE DEF v, more
  <2>1. v.pending \o more \in Seq(ActionIds)
    BY <1>1 DEF View
  <2> QED BY <1>1, <2>1 DEF View, VoicedView
<1>3. TryExecuteAvailable(c, w) \in VoicedView(c)
  <2> HIDE DEF w
  <2> QED BY <1>2, TryExecuteAvailableVoiced
<1> QED
  BY <1>3 DEF Enqueue

\* Where nothing is queued, recording a result only finishes.
LEMMA RecordResultClosed ==
    ASSUME ModelTypeOK, NEW c \in Conversations, NEW reason \in Reasons \cup {NoReason},
           NEW S, Kept(reason, S), NEW p, NEW v \in ClosedView(c, reason, S, p),
           NEW a \in ActionIds, NEW res \in Results
    PROVE  RecordResult(c, v, a, res, reason) \in ClosedView(c, reason, S, p)
<1> DEFINE w == Pushed(c, v, a, res, reason)
           x == Sorted(c, w)
           r == RecordResult(c, v, a, res, reason)
<1>1. /\ v \in View /\ v.pending = <<>> /\ v.started = {} /\ v.running = p /\ v.status \in S
      /\ \A e \in Elems(v.events) : e.type = "Finished" /\ e.conv = c /\ e.reason = reason
  BY DEF ClosedView
<1>2. /\ w \in View /\ x \in View
      /\ \/ v.running.ids # {} /\ r = w
         \/ v.running.ids = {} /\ v.pending # <<>> /\ r = TryExecuteAvailable(c, x)
         \/ /\ v.running.ids = {} /\ v.pending = <<>>
            /\ \E st \in Statuses : r = [x EXCEPT !.status = st]
  BY <1>1, RecordResultForms
<1>3. Elems(w.events) = Elems(v.events) \cup {Finished(c, a, reason)}
  BY <1>1, PushedEvents, SMTT(30)
<1>4. /\ x.events = w.events
      /\ w.status = v.status /\ w.pending = v.pending /\ w.running = v.running
      /\ w.started = v.started
      /\ x.status = v.status /\ x.pending = v.pending /\ x.running = v.running
      /\ x.started = v.started
  BY <1>1, PushedEvents
<1>5. \/ r.status = v.status
      \/ reason = "Cancelled" /\ r.status \in {"Cancelled", "InProgress"}
  BY <1>1, RecordResultStatus
<1> HIDE DEF w, x, r
<1>6. r.status \in S
  BY <1>1, <1>5 DEF Kept
<1>7. \A e \in Elems(w.events) : e.type = "Finished" /\ e.conv = c /\ e.reason = reason
  BY <1>1, <1>3 DEF Finished
<1>8. \A st \in Statuses :
          /\ [x EXCEPT !.status = st] \in View /\ [x EXCEPT !.status = st].status = st
          /\ [x EXCEPT !.status = st].events = w.events
          /\ [x EXCEPT !.status = st].pending = v.pending
          /\ [x EXCEPT !.status = st].running = v.running
          /\ [x EXCEPT !.status = st].started = v.started
  BY <1>2, <1>4 DEF View
<1>9. /\ r \in View /\ r.events = w.events /\ r.pending = v.pending
      /\ r.running = v.running /\ r.started = v.started
  BY <1>1, <1>2, <1>4, <1>8
<1>10. r \in ClosedView(c, reason, S, p)
  BY <1>1, <1>6, <1>7, <1>9 DEF ClosedView
<1> QED BY <1>10 DEF r

\* So does cancelling actions.
LEMMA CancelEachClosed ==
    ASSUME ModelTypeOK, NEW c \in Conversations, NEW reason \in Reasons \cup {NoReason},
           NEW S, Kept(reason, S), NEW p, NEW v \in ClosedView(c, reason, S, p),
           NEW ids \in Seq(ActionIds)
    PROVE  CancelEach(c, v, ids, reason) \in ClosedView(c, reason, S, p)
<1>1. \A w \in ClosedView(c, reason, S, p), a \in ActionIds :
          RecordResult(c, w, a, "Cancelled", reason) \in ClosedView(c, reason, S, p)
  BY RecordResultClosed DEF Results
<1> DEFINE V == ClosedView(c, reason, S, p)
<1>2. v \in V /\ \A w \in V, a \in ActionIds : RecordResult(c, w, a, "Cancelled", reason) \in V
  BY <1>1
<1> HIDE DEF V
<1>3. CancelEach(c, v, ids, reason) \in V
  BY <1>2, CancelEachStaysIn
<1> QED BY <1>3 DEF V

\* Cancelling the whole queue only finishes, too.
LEMMA CancelPendingClosed ==
    ASSUME ModelTypeOK, NEW c \in Conversations, NEW reason \in Reasons \cup {NoReason},
           NEW S, Kept(reason, S), NEW v \in View,
           v.started = {}, v.events = <<>>, v.status \in S
    PROVE  CancelPending(c, v, reason) \in ClosedView(c, reason, S, v.running)
<1> DEFINE w == [v EXCEPT !.pending = <<>>]
           p == v.running
           ids == v.pending
<1>1. v.pending \in Seq(ActionIds) /\ <<>> \in Seq(ActionIds)
  BY DEF View
<1>2. /\ w \in View /\ w.pending = <<>> /\ w.started = {} /\ w.running = p /\ w.events = <<>>
      /\ w.status \in S
  BY <1>1 DEF View
<1> HIDE DEF w, p
<1>3. w \in ClosedView(c, reason, S, p) /\ ids \in Seq(ActionIds)
  BY <1>1, <1>2 DEF ClosedView, Elems
<1> HIDE DEF ids
<1>4. CancelEach(c, w, ids, reason) \in ClosedView(c, reason, S, p)
  BY <1>3, CancelEachClosed
<1> QED BY <1>4 DEF CancelPending, w, p, ids

\* So does handle_action_result where nothing is queued.
LEMMA HandleResultClosed ==
    ASSUME ModelTypeOK, NEW c \in Conversations, NEW reason \in Reasons \cup {NoReason},
           NEW S, Kept(reason, S), NEW v \in View, v.pending = <<>>,
           v.started = {}, v.events = <<>>, v.status \in S,
           NEW a \in ActionIds, NEW res \in Results
    PROVE  \E p : /\ HandleResult(c, v, a, res, reason) \in ClosedView(c, reason, S, p)
                  /\ p.ids = v.running.ids \ {a}
<1> DEFINE w == WithoutRunning(v, a)
           rest == Filter(w.pending, ActionIds \ Commands)
           ids == Filter(w.pending, Commands)
           x == [w EXCEPT !.pending = rest]
           u == IF res = "Snapshot" THEN CancelOtherCommands(c, w, reason) ELSE w
           p == w.running
<1>1. w \in View
  BY WithoutRunningType
<1>2. /\ w.running = IF v.running.ids \subseteq {a} THEN NotRunning
                     ELSE [phase |-> v.running.phase, ids |-> v.running.ids \ {a}]
      /\ w.pending = v.pending /\ w.started = v.started
      /\ w.events = v.events /\ w.status = v.status
  BY DEF WithoutRunning, View
<1> HIDE DEF w
<1>3. p.ids = v.running.ids \ {a}
  BY <1>2 DEF NotRunning
<1>4. /\ rest \in Seq(ActionIds) /\ Elems(rest) \subseteq Elems(w.pending)
      /\ ids \in Seq(ActionIds)
  <2>1. w.pending \in Seq(ActionIds)
    BY <1>1 DEF View
  <2> QED BY <2>1, FilterProperties, FilterElems
<1> HIDE DEF rest, ids
<1>5. rest = <<>>
  <2>1. w.pending = <<>> /\ Elems(<<>>) = {}
    BY <1>2 DEF Elems
  <2>2. \A i \in DOMAIN rest : FALSE
    BY <1>4, <2>1 DEF Elems
  <2>3. Len(rest) \in Nat /\ DOMAIN rest = 1..Len(rest)
    BY <1>4
  <2> QED BY <1>4, <2>2, <2>3
<1>6. x = w
  BY <1>1, <1>2, <1>5 DEF View
<1> HIDE DEF p
<1>7. w \in ClosedView(c, reason, S, p)
  BY <1>1, <1>2 DEF ClosedView, Elems, p
<1>8. CancelOtherCommands(c, w, reason) = CancelEach(c, x, ids, reason)
  BY DEF CancelOtherCommands, rest, ids
<1> HIDE DEF x
<1>9. u \in ClosedView(c, reason, S, p)
  BY <1>4, <1>6, <1>7, <1>8, CancelEachClosed
<1> HIDE DEF u
<1>10. RecordResult(c, u, a, res, reason) \in ClosedView(c, reason, S, p)
  BY <1>9, RecordResultClosed
<1>11. HandleResult(c, v, a, res, reason) = RecordResult(c, u, a, res, reason)
  BY DEF HandleResult, u, w
<1> QED BY <1>3, <1>10, <1>11

\* With an empty queue there is nothing to cancel.
LEMMA CancelPendingNothing ==
    ASSUME NEW c, NEW v \in View, v.pending = <<>>, NEW reason
    PROVE  CancelPending(c, v, reason) = v
<1> DEFINE w == [v EXCEPT !.pending = <<>>]
           ids == v.pending
           P == [i \in {0} |-> {v}]
<1>1. w = v
  BY DEF View
<1>2. ids = <<>> /\ ids \in Seq(ActionIds) /\ Len(ids) = 0
  OBVIOUS
<1>3. P[0] = {v} /\ v \in P[0]
  OBVIOUS
<1> HIDE DEF w, ids, P
<1>4. \A i \in 1..Len(ids) : \A x \in P[i - 1] :
          RecordResult(c, x, ids[i], "Cancelled", reason) \in P[i]
  BY <1>2
<1>5. CancelEach(c, v, ids, reason) \in P[Len(ids)]
  BY <1>2, <1>3, <1>4, CancelEachPasses
<1> QED BY <1>1, <1>2, <1>3, <1>5 DEF CancelPending, w, ids

-----------------------------------------------------------------------------
(* Turns: while the agent is asked, is about to be asked or was stopped,   *)
(* no action of the conversation is under way.                             *)

\* Nothing of c can start an action.
Asleep(c) == preprocessing[c] = <<>> /\ pending[c] = <<>> /\ ExecutingIn(c) = {}

\* The agent has been or will be asked, or the turn is over.
Awaits(c) == Streaming(c) \/ resume[c] \/ stopped[c] \/ status[c] = "Error"

\* The actions that are preprocessed are those of one output, and alone.
Fresh(c) ==
    /\ pending[c] = <<>> /\ running[c].ids = {} /\ ExecutingIn(c) = {}
    /\ \A e \in Elems(effects) : e.conv # c
    /\ \A i, j \in DOMAIN preprocessing[c] :
           preprocessing[c][i].batch = preprocessing[c][j].batch
    /\ \A i \in DOMAIN preprocessing[c] : ~preprocessing[c][i].done

TurnIn(c) ==
    /\ Awaits(c) => Asleep(c)
    /\ Streaming(c) => ~resume[c] /\ ~stopped[c]
    /\ stopped[c] => ~resume[c]
    /\ stream[c].output # <<>> => stream[c].phase = "Completed"
    /\ preprocessing[c] # <<>> => Fresh(c)
    /\ \A e \in Elems(effects) : (e.conv = c /\ e.type = "StreamCancelled") => ~e.resumes
    /\ status[c] = "Error" =>
           /\ stream[c].phase \in {"None", "Failed"} /\ ~SchedulesResume(c)
           /\ \A e \in Elems(effects) : e.conv = c => e.reason = "FinalizedExternally"

\* The inductive invariant; it needs the types, and that each action is in one place.
TurnInv == \A c \in Conversations : TurnIn(c)

TurnState ==
    PlacedState(ControllerEvent) /\ ControllerTypeOK /\ TurnInv /\ UserIsSlow

\* What a step that is about other conversations may do to d.
LeavesAlone(d) ==
    /\ preprocessing'[d] = preprocessing[d] /\ pending'[d] = pending[d]
    /\ running'[d].ids \subseteq running[d].ids
    /\ ExecutingIn(d)' \subseteq ExecutingIn(d)
    /\ status'[d] = status[d] /\ stream'[d] = stream[d]
    /\ resume'[d] = resume[d] /\ stopped'[d] = stopped[d]
    /\ \A e \in Elems(effects') : e.conv = d => e \in Elems(effects)

LEMMA LeftAlone ==
    ASSUME NEW d \in Conversations, TurnIn(d), LeavesAlone(d) PROVE TurnIn(d)'
<1>1. /\ Awaits(d)' = Awaits(d) /\ Streaming(d)' = Streaming(d)
      /\ SchedulesResume(d)' = SchedulesResume(d)
  BY DEF LeavesAlone, Awaits, Streaming, SchedulesResume
<1>2. Asleep(d) => Asleep(d)'
  BY DEF LeavesAlone, Asleep
<1>3. Fresh(d) => Fresh(d)'
  BY DEF LeavesAlone, Fresh
<1> QED BY <1>1, <1>2, <1>3 DEF LeavesAlone, TurnIn

\* What a step may do to the actions of d while nothing is asked of the agent.
WorksOn(d) ==
    /\ ~Awaits(d)
    /\ preprocessing'[d] = <<>>
    /\ status'[d] # "Error" /\ stream'[d] = stream[d]
    /\ resume'[d] = resume[d] /\ stopped'[d] = stopped[d]
    /\ \A e \in Elems(effects') :
           e.conv = d => e \in Elems(effects) \/ e.type # "StreamCancelled"

LEMMA WorkedOn ==
    ASSUME NEW d \in Conversations, TurnIn(d), WorksOn(d) PROVE TurnIn(d)'
<1>1. ~Awaits(d)' /\ ~Streaming(d)'
  BY DEF WorksOn, Awaits, Streaming
<1> QED BY <1>1 DEF WorksOn, TurnIn, Awaits, Streaming

\* What the delivery of a late result may do to d, where nothing is under way.
Settles(d) ==
    /\ Asleep(d) /\ Asleep(d)'
    /\ status'[d] = status[d] \/ (status[d] # "Error" /\ status'[d] # "Error")
    /\ stream'[d] = stream[d]
    /\ resume'[d] = resume[d] /\ stopped'[d] = stopped[d]
    /\ \A e \in Elems(effects') : e.conv = d =>
           \/ e \in Elems(effects)
           \/ /\ e.type # "StreamCancelled"
              /\ status[d] = "Error" => e.reason = "FinalizedExternally"

LEMMA Settled ==
    ASSUME NEW d \in Conversations, TurnIn(d), Settles(d) PROVE TurnIn(d)'
<1>1. Streaming(d)' = Streaming(d) /\ SchedulesResume(d)' = SchedulesResume(d)
  BY DEF Settles, Streaming, SchedulesResume
<1>2. preprocessing'[d] = <<>>
  BY DEF Settles, Asleep
<1> QED BY <1>1, <1>2 DEF Settles, TurnIn

\* A handler's view of c is committed, with a part of the effects: others are left alone.
LEMMA CommitLeavesAlone ==
    ASSUME NEW c \in Conversations, NEW v \in View, \A e \in Elems(v.events) : e.conv = c,
           ModelTypeOK, effects \in Seq(ControllerEvent),
           NEW queue \in Seq(ControllerEvent), Elems(queue) \subseteq Elems(effects),
           Commit(c, v, queue, executing), UNCHANGED <<stream, resume, stopped>>,
           NEW d \in Conversations, d # c, preprocessing'[d] = preprocessing[d]
    PROVE  LeavesAlone(d)
<1>1. /\ pending'[d] = pending[d] /\ running'[d] = running[d] /\ status'[d] = status[d]
  BY DEF Commit, ModelTypeOK
<1>2. ExecutingIn(d)' \subseteq ExecutingIn(d)
  BY DEF Commit, ExecutingIn
<1>3. v.events \in Seq(ControllerEvent)
  BY ControllerExtends, EventsAreEffects DEF View
<1>4. Elems(effects') = Elems(queue) \cup Elems(v.events)
  BY <1>3, ConcatElems DEF Commit
<1> QED BY <1>1, <1>2, <1>4 DEF LeavesAlone

\* A queued or executing action of c: the agent is not being asked, nothing of c is
\* preprocessed, and c has not failed.
LEMMA BusyIn ==
    ASSUME TurnState, NEW c \in Conversations, pending[c] # <<>> \/ ExecutingIn(c) # {}
    PROVE  ~Awaits(c) /\ preprocessing[c] = <<>> /\ status[c] # "Error"
<1>1. TurnIn(c)
  BY DEF TurnState, TurnInv
<1> QED BY <1>1 DEF TurnIn, Asleep, Fresh, Awaits

\* Committing a view of c while nothing is asked of the agent in c.
LEMMA CommitWorks ==
    ASSUME TurnState, NEW c \in Conversations, ~Awaits(c),
           NEW v \in VoicedView(c),
           NEW queue \in Seq(ControllerEvent), Elems(queue) \subseteq Elems(effects),
           Commit(c, v, queue, executing), UNCHANGED <<stream, resume, stopped>>,
           preprocessing'[c] = <<>>,
           \A d \in Conversations : d # c => preprocessing'[d] = preprocessing[d]
    PROVE  TurnInv'
<1>1. ModelTypeOK /\ effects \in Seq(ControllerEvent)
  BY DEF TurnState, ControllerTypeOK
<1>2. v \in View /\ v.status # "Error" /\ \A e \in Elems(v.events) : e.conv = c
  BY DEF VoicedView, Voices
<1>3. \A d \in Conversations : TurnIn(d)
  BY DEF TurnState, TurnInv
<1>4. \A d \in Conversations : d # c => LeavesAlone(d)
  BY <1>1, <1>2, CommitLeavesAlone
<1>5. WorksOn(c)
  <2>1. v.events \in Seq(Event) /\ v.events \in Seq(ControllerEvent)
    BY <1>2, ControllerExtends, EventsAreEffects DEF View
  <2>2. Elems(effects') = Elems(queue) \cup Elems(v.events)
    BY <2>1, ConcatElems DEF Commit
  <2>3. \A e \in Elems(v.events) : e.type # "StreamCancelled"
    <3>1. Elems(v.events) \subseteq Event
      BY <2>1 DEF Elems
    <3> QED BY <3>1 DEF Event
  <2>4. status'[c] = v.status
    BY <1>1 DEF Commit, ModelTypeOK
  <2> QED BY <1>2, <2>2, <2>3, <2>4 DEF WorksOn
<1>6. \A d \in Conversations : TurnIn(d)'
  BY <1>3, <1>4, <1>5, LeftAlone, WorkedOn
<1> QED BY <1>6 DEF TurnInv

\* Taking an action from the queue of c.
LEMMA CommitPendingTurn ==
    ASSUME TurnState, NEW c \in Conversations, pending[c] # <<>>, NEW v \in VoicedView(c),
           Commit(c, v, effects, executing), UNCHANGED <<preprocessing, stream, resume, stopped>>
    PROVE  TurnInv'
<1>1. effects \in Seq(ControllerEvent)
  BY DEF TurnState, ControllerTypeOK
<1> QED BY <1>1, BusyIn, CommitWorks

\* handle_preprocess_actions_results: one output is preprocessed, so that all is released.
LEMMA PreprocessActionsResultsTurn ==
    ASSUME TurnState, NEW c \in Conversations, NEW b \in ActionIds,
           PreprocessActionsResults(c, b), UNCHANGED <<stream, resume, stopped>>
    PROVE  TurnInv'
<1> DEFINE es == Completed(c, b)
           n == Releasable(es)
           released == [i \in 1..n |-> es[i].id]
           v == Enqueue(c, released)
<1>1. ModelTypeOK /\ effects \in Seq(ControllerEvent) /\ TurnIn(c)
  BY DEF TurnState, ControllerTypeOK, TurnInv
<1>2. BatchResolves(c, b) /\ Commit(c, v, effects, executing)
  BY DEF PreprocessActionsResults
<1>3. PICK first \in DOMAIN preprocessing[c] :
          preprocessing[c][first].batch = b /\ ~preprocessing[c][first].done
  BY <1>2 DEF BatchResolves
<1>4. preprocessing[c] # <<>> /\ preprocessing[c] \in Seq(Entry)
  BY <1>1, <1>3 DEF ModelTypeOK
<1>5. ~Awaits(c) /\ status[c] # "Error" /\ Fresh(c)
  BY <1>1, <1>4 DEF TurnIn, Asleep, Awaits
<1>6. \A j \in DOMAIN preprocessing[c] : preprocessing[c][j].batch = b
  BY <1>3, <1>5 DEF Fresh
<1>7. /\ DOMAIN es = DOMAIN preprocessing[c] /\ Len(es) = Len(preprocessing[c])
      /\ es \in Seq(Entry) /\ \A j \in DOMAIN es : es[j].done
  <2>1. \A j \in DOMAIN preprocessing[c] : preprocessing[c][j] \in Entry
    BY <1>4
  <2>2. \A j \in DOMAIN preprocessing[c] :
            /\ [preprocessing[c][j] EXCEPT !.done = @ \/ preprocessing[c][j].batch = b] \in Entry
            /\ [preprocessing[c][j] EXCEPT !.done = @ \/ preprocessing[c][j].batch = b].done
    BY <1>6, <2>1 DEF Entry
  <2> DEFINE p == preprocessing[c]
             g(j) == [p[j] EXCEPT !.done = @ \/ p[j].batch = b]
  <2>3. es = [j \in DOMAIN p |-> g(j)] /\ p \in Seq(Entry)
    BY <1>4 DEF Completed
  <2>4. \A j \in DOMAIN p : g(j) \in Entry /\ g(j).done
    BY <2>2
  <2> HIDE DEF es, p, g
  <2>5. Len(p) \in Nat /\ DOMAIN p = 1..Len(p)
    BY <2>3
  <2>6. es \in [1..Len(p) -> Entry] /\ DOMAIN es = DOMAIN p
    BY <2>3, <2>4, <2>5
  <2>7. es \in Seq(Entry) /\ Len(es) = Len(p)
    BY <2>5, <2>6
  <2>8. \A j \in DOMAIN es : es[j].done
    BY <2>3, <2>4
  <2> QED BY <2>6, <2>7, <2>8 DEF p
<1> HIDE DEF es
<1>8. n = Len(es)
  <2> DEFINE T == {j \in DOMAIN es : es[j].done}
             m == PrefixLen(T, Len(es))
  <2>1. Len(es) \in Nat /\ DOMAIN es = 1..Len(es) /\ T = DOMAIN es
    BY <1>7
  <2>2. m \in 0..Len(es) /\ (m < Len(es) => (m + 1) \notin T)
    <3> HIDE DEF T
    <3> QED BY <2>1, PrefixLenProperties
  <2>3. n = m
    BY DEF Releasable
  <2> HIDE DEF m, n
  <2>4. m = Len(es)
    <3> DEFINE k == Len(es)
               D == DOMAIN es
    <3>1. k \in Nat /\ D = 1..k /\ m \in 0..k /\ (m < k => (m + 1) \notin D)
      BY <2>1, <2>2, Zenon
    <3> HIDE DEF k, D
    <3>2. m = k
      BY <3>1
    <3> QED BY <3>2 DEF k
  <2> QED BY <2>3, <2>4
<1>9. preprocessing' = [preprocessing EXCEPT ![c] = DropFirst(es, n)]
  BY <1>2 DEF BatchResolves, es
<1> HIDE DEF n
<1>10. DropFirst(es, n) = <<>>
  BY <1>7, <1>8 DEF DropFirst
<1>11. preprocessing'[c] = <<>> /\ \A d \in Conversations : d # c => preprocessing'[d] = preprocessing[d]
  BY <1>1, <1>9, <1>10 DEF ModelTypeOK
<1>12. released \in Seq(ActionIds)
  <2>1. [i \in 1..Releasable(Completed(c, b)) |-> Completed(c, b)[i].id] \in Seq(ActionIds)
    BY <1>1, ReleasedType
  <2> QED BY <2>1 DEF n, es
<1> HIDE DEF released
<1>13. v \in VoicedView(c)
  BY <1>1, <1>5, <1>12, EnqueueVoiced
<1> HIDE DEF v
<1> QED BY <1>1, <1>2, <1>5, <1>11, <1>13, CommitWorks

\* An executing action is answered: its conversation, found with it, was at work.
LEMMA ResolvesTurn ==
    ASSUME TurnState, NEW a \in ActionIds, executing[a] # NoConv,
           NEW res, NEW reason,
           executing' = [executing EXCEPT ![a] = NoConv],
           effects' = Append(effects, ExecutorFinished(executing[a], a, res, reason)),
           UNCHANGED <<preprocessing, pending, running, status, stream, resume, stopped>>
    PROVE  TurnInv'
<1> DEFINE e == executing[a]
           ev == ExecutorFinished(e, a, res, reason)
<1>1. ModelTypeOK /\ effects \in Seq(ControllerEvent) /\ \A d \in Conversations : TurnIn(d)
  BY DEF TurnState, ControllerTypeOK, TurnInv
<1>2. e \in Conversations /\ a \in ExecutingIn(e)
  BY <1>1 DEF ModelTypeOK, ExecutingIn
<1>3. ~Awaits(e) /\ preprocessing[e] = <<>> /\ status[e] # "Error"
  BY <1>2, BusyIn
<1>4. ev.conv = e /\ ev.type = "ExecutorFinished"
  BY DEF ExecutorFinished
<1>5. effects' = Append(effects, ev)
  OBVIOUS
<1>6. Elems(effects') = Elems(effects) \cup {ev}
  <2> HIDE DEF ev
  <2> QED BY <1>1, <1>5 DEF Elems
<1> HIDE DEF ev
<1>7. \A d \in Conversations : ExecutingIn(d)' \subseteq ExecutingIn(d)
  BY <1>1, NoConvAssumption DEF ExecutingIn, ModelTypeOK
<1> HIDE DEF e
<1>8. WorksOn(e)
  BY <1>2, <1>3, <1>4, <1>6 DEF WorksOn
<1>9. \A d \in Conversations : d # e => LeavesAlone(d)
  BY <1>4, <1>6, <1>7 DEF LeavesAlone
<1>10. \A d \in Conversations : TurnIn(d)'
  BY <1>1, <1>2, <1>8, <1>9, LeftAlone, WorkedOn
<1> QED BY <1>10 DEF TurnInv

\* A step that moves nothing.
LEMMA NothingTurns ==
    ASSUME TurnInv, UNCHANGED <<preprocessing, pending, running, executing, status, effects,
                                stream, resume, stopped>>
    PROVE  TurnInv'
<1>1. \A d \in Conversations : TurnIn(d) /\ LeavesAlone(d)
  BY DEF TurnInv, LeavesAlone, ExecutingIn
<1> QED BY <1>1, LeftAlone DEF TurnInv

\* What the user and the executor do to the actions of c.
LEMMA ActionStepTurn ==
    ASSUME TurnState, NEW c \in Conversations, ActionStep(c)
    PROVE  TurnInv'
<1>1. ModelTypeOK /\ TurnInv /\ UNCHANGED streamVars
  BY DEF TurnState, ControllerTypeOK, ActionStep
<1>2. UNCHANGED <<stream, resume, stopped>>
  BY <1>1 DEF streamVars
<1>3. ASSUME NEW a, ExecuteAction(c, a) PROVE TurnInv'
  <2>1. a \in Elems(pending[c])
    BY <1>3 DEF ExecuteAction, MayStartForUser
  <2>2. pending[c] # <<>>
    BY <2>1 DEF Elems
  <2> DEFINE v == StartForUser(c, ViewOf(c), a)
  <2>3. v \in VoicedView(c)
    BY <1>1, <2>1, StartForUserVoiced
  <2>4. Commit(c, v, effects, executing) /\ UNCHANGED preprocessing
    BY <1>3 DEF ExecuteAction
  <2> HIDE DEF v
  <2> QED BY <1>2, <2>2, <2>3, <2>4, CommitPendingTurn
<1>4. ASSUME NEW a, a \in Elems(pending[c]), NEW res \in Results,
             NEW reason \in Reasons \cup {NoReason}, UNCHANGED preprocessing,
             Commit(c, HandleResult(c, WithoutPending(c, a), a, res, reason),
                    effects, executing)
      PROVE  TurnInv'
  <2>1. pending[c] # <<>>
    BY <1>4 DEF Elems
  <2>2. status[c] # "Error"
    BY <2>1, BusyIn
  <2> DEFINE w == WithoutPending(c, a)
             v == HandleResult(c, w, a, res, reason)
  <2>3. w \in VoicedView(c) /\ a \in ActionIds
    BY <1>1, <1>4, <2>2, WithoutPendingVoiced
  <2>4. v \in VoicedView(c)
    <3> HIDE DEF w
    <3> QED BY <1>1, <2>3, HandleResultVoiced
  <2>5. Commit(c, v, effects, executing)
    BY <1>4
  <2> HIDE DEF v
  <2> QED BY <1>2, <1>4, <2>1, <2>4, <2>5, CommitPendingTurn
<1>5. CASE ExecuteNextActionForUser(c)
  BY <1>3, <1>5 DEF ExecuteNextActionForUser
<1>6. CASE ClearFinished(c)
  BY <1>1, <1>2, <1>6, NothingTurns DEF ClearFinished
<1>7. ASSUME NEW a \in ActionIds, PreprocessActionsResults(c, a) PROVE TurnInv'
  BY <1>2, <1>7, PreprocessActionsResultsTurn
<1>8. ASSUME NEW a \in ActionIds, DenyRunAgents(c, a) PROVE TurnInv'
  BY <1>4, <1>8 DEF DenyRunAgents, Results
<1>9. ASSUME NEW a \in ActionIds, NEW reason \in UserReasons, CancelActionWithId(c, a, reason)
      PROVE  TurnInv'
  <2>1. UNCHANGED preprocessing /\ reason \in Reasons
    BY <1>9 DEF CancelActionWithId, UserReasons
  <2>2. CASE /\ CancelRunning(c, a, reason)
             /\ UNCHANGED <<pending, running, finished, status, futures>>
    BY <1>2, <2>1, <2>2, ResolvesTurn DEF CancelRunning
  <2>3. CASE /\ a \in Elems(pending[c])
             /\ Commit(c, HandleResult(c, WithoutPending(c, a), a, "Cancelled", reason),
                       effects, executing)
    BY <1>4, <2>1, <2>3 DEF Results
  <2> QED BY <1>9, <2>2, <2>3 DEF CancelActionWithId
<1>10. ASSUME NEW a \in ActionIds, CompleteAsync(c, a) PROVE TurnInv'
  <2>1. PICK res : FutureResolves(c, a, res)
    BY <1>10 DEF CompleteAsync
  <2>2. UNCHANGED <<preprocessing, pending, running, status>>
    BY <1>10 DEF CompleteAsync
  <2>3. CASE executing[a] = NoConv
    BY <1>1, <1>2, <2>1, <2>2, <2>3, NothingTurns DEF FutureResolves
  <2>4. CASE executing[a] # NoConv
    BY <1>2, <2>1, <2>2, <2>4, ResolvesTurn DEF FutureResolves
  <2> QED BY <2>3, <2>4
<1> QED
  BY <1>3, <1>5, <1>6, <1>7, <1>8, <1>9, <1>10 DEF ActionStep

\* The first event, and what is left when it is delivered.
LEMMA HeadOfEffects ==
    ASSUME effects \in Seq(ControllerEvent), ~Idle
    PROVE  /\ Head(effects) \in ControllerEvent /\ Head(effects) \in Elems(effects)
           /\ Tail(effects) \in Seq(ControllerEvent)
           /\ Elems(Tail(effects)) \subseteq Elems(effects)
<1>1. Len(effects) \in Nat /\ Len(effects) > 0 /\ Head(effects) = effects[1]
      /\ 1 \in DOMAIN effects
  BY DEF Idle
<1>2. \A i \in DOMAIN Tail(effects) : i + 1 \in DOMAIN effects /\ Tail(effects)[i] = effects[i + 1]
  BY <1>1
<1> QED BY <1>1, <1>2 DEF Elems, Idle

\* An event of c that awaits delivery: nothing of c is preprocessed.
LEMMA HeadTurn ==
    ASSUME TurnState, ~Idle
    PROVE  /\ Head(effects).conv \in Conversations
           /\ preprocessing[Head(effects).conv] = <<>>
           /\ TurnIn(Head(effects).conv)
           /\ status[Head(effects).conv] = "Error" => Head(effects).reason = "FinalizedExternally"
           /\ Head(effects).type = "StreamCancelled" => ~Head(effects).resumes
<1> DEFINE e == Head(effects)
           c == e.conv
<1>1. e \in ControllerEvent /\ e \in Elems(effects)
  BY HeadOfEffects DEF TurnState, ControllerTypeOK
<1>2. c \in Conversations
  BY <1>1 DEF ControllerEvent, Event
<1>3. TurnIn(c)
  BY <1>2 DEF TurnState, TurnInv
<1>4. c = e.conv
  OBVIOUS
<1> HIDE DEF e, c
<1>5. ~Fresh(c)
  BY <1>1, <1>4 DEF Fresh
<1> QED BY <1>1, <1>2, <1>3, <1>4, <1>5 DEF TurnIn, e, c

\* A result of the executor is handled: queued actions may start if nothing is asked
\* of the agent, and nothing starts otherwise.
LEMMA DeliverExecutorFinishedTurn ==
    ASSUME TurnState, DeliverExecutorFinished, UNCHANGED <<stream, resume, stopped>>
    PROVE  TurnInv'
<1>e. PICK e : e = Head(effects)
  OBVIOUS
<1>c. PICK c : c = e.conv
  OBVIOUS
<1> DEFINE v == HandleResult(c, ViewOf(c), e.id, e.res, e.reason)
           queue == Tail(effects)
<1>1. ModelTypeOK /\ effects \in Seq(ControllerEvent) /\ \A d \in Conversations : TurnIn(d)
  BY DEF TurnState, ControllerTypeOK, TurnInv
<1>2. /\ ~Idle /\ e.type = "ExecutorFinished" /\ Commit(c, v, queue, executing)
      /\ UNCHANGED preprocessing
  BY <1>e, <1>c DEF DeliverExecutorFinished
<1>3. e.id \in ActionIds /\ e.res \in Results /\ e.reason \in Reasons \cup {NoReason}
  <2>1. e \in ControllerEvent
    BY <1>1, <1>2, <1>e, HeadOfEffects
  <2> QED BY <1>2, <2>1 DEF ControllerEvent, Event
<1>4. /\ c \in Conversations /\ preprocessing[c] = <<>>
      /\ status[c] = "Error" => e.reason = "FinalizedExternally"
  BY <1>2, <1>e, <1>c, HeadTurn
<1>5. queue \in Seq(ControllerEvent) /\ Elems(queue) \subseteq Elems(effects)
  BY <1>1, <1>2, HeadOfEffects
<1> HIDE DEF queue
<1>6. CASE ~Awaits(c)
  <2>1. ViewOf(c) \in VoicedView(c)
    BY <1>1, <1>4, <1>6, ViewOfVoiced DEF Awaits
  <2>2. v \in VoicedView(c)
    BY <1>1, <1>3, <1>4, <2>1, HandleResultVoiced
  <2> HIDE DEF v
  <2> QED BY <1>2, <1>4, <1>5, <1>6, <2>2, CommitWorks
<1>7. CASE Awaits(c)
  <2> DEFINE S == IF status[c] = "Error" THEN {"Error"} ELSE Statuses \ {"Error"}
             w == ViewOf(c)
  <2>1. Asleep(c)
    BY <1>1, <1>4, <1>7 DEF TurnIn
  <2>2. /\ w \in View /\ w.pending = <<>> /\ w.started = {} /\ w.events = <<>>
        /\ w.status \in S
    BY <1>1, <1>4, <2>1, ViewOfType DEF ViewOf, Asleep, ModelTypeOK
  <2>3. Kept(e.reason, S)
    BY <1>4 DEF Kept, Statuses
  <2> HIDE DEF w, S
  <2>4. PICK p : HandleResult(c, w, e.id, e.res, e.reason) \in ClosedView(c, e.reason, S, p)
    BY <1>1, <1>3, <1>4, <2>2, <2>3, HandleResultClosed
  <2>5. v \in ClosedView(c, e.reason, S, p)
    BY <2>4 DEF w
  <2> HIDE DEF v
  <2>6. /\ v \in View /\ v.pending = <<>> /\ v.started = {} /\ v.status \in S
        /\ \A x \in Elems(v.events) :
               x.type = "Finished" /\ x.conv = c /\ x.reason = e.reason
    BY <2>5 DEF ClosedView
  <2>7. \A d \in Conversations : d # c => LeavesAlone(d)
    BY <1>1, <1>2, <1>4, <1>5, <2>6, CommitLeavesAlone
  <2>8. Settles(c)
    <3>1. v.events \in Seq(ControllerEvent)
      BY <2>6, ControllerExtends, EventsAreEffects DEF View
    <3>2. Elems(effects') = Elems(queue) \cup Elems(v.events)
      BY <1>2, <1>5, <3>1, ConcatElems DEF Commit
    <3>3. pending'[c] = <<>> /\ status'[c] = v.status
      BY <1>1, <1>2, <1>4, <2>6 DEF Commit, ModelTypeOK
    <3>4. ExecutingIn(c)' = ExecutingIn(c)
      BY <1>2, <2>6 DEF Commit, ExecutingIn
    <3>5. Asleep(c)'
      BY <1>2, <1>4, <2>1, <3>3, <3>4 DEF Asleep
    <3> QED
      BY <1>4, <1>5, <2>1, <2>6, <3>2, <3>3, <3>5 DEF Settles, S
  <2> QED BY <1>1, <1>4, <2>7, <2>8, LeftAlone, Settled DEF TurnInv
<1> QED BY <1>6, <1>7

\* The exchange of a cancelled stream is marked; it is never the failed one of a resume.
LEMMA DeliverStreamCancelledTurn ==
    ASSUME TurnState, DeliverStreamCancelled
    PROVE  TurnInv'
<1>e. PICK e : e = Head(effects)
  OBVIOUS
<1>c. PICK c : c = e.conv
  OBVIOUS
<1>1. ModelTypeOK /\ effects \in Seq(ControllerEvent) /\ TurnTypeOK
      /\ \A d \in Conversations : TurnIn(d)
  BY DEF TurnState, ControllerTypeOK, TurnInv
<1>2. /\ ~Idle
      /\ status' = [status EXCEPT ![c] = IF e.reason = "Cancelled" THEN "Cancelled"
                                         ELSE IF e.reason = "Succeeded" THEN "Success" ELSE @]
      /\ resume' = [resume EXCEPT ![c] = @ \/ e.resumes]
      /\ effects' = Tail(effects)
      /\ UNCHANGED <<preprocessing, pending, running, executing, stream, stopped>>
      /\ e.type = "StreamCancelled"
  BY <1>e, <1>c DEF DeliverStreamCancelled
<1>3. /\ c \in Conversations /\ preprocessing[c] = <<>>
      /\ status[c] = "Error" => e.reason = "FinalizedExternally"
      /\ ~e.resumes
  BY <1>2, <1>e, <1>c, HeadTurn
<1>4. Elems(effects') \subseteq Elems(effects)
  BY <1>1, <1>2, HeadOfEffects
<1>5. /\ status \in [Conversations -> Statuses] /\ resume \in [Conversations -> BOOLEAN]
  BY <1>1 DEF ModelTypeOK, TurnTypeOK
<1>6. resume'[c] = resume[c]
  <2>1. resume'[c] = (resume[c] \/ e.resumes)
    BY <1>2, <1>3, <1>5
  <2>2. resume[c] \in BOOLEAN
    BY <1>3, <1>5
  <2> QED BY <1>3, <2>1, <2>2
<1>7. \A d \in Conversations : d # c => resume'[d] = resume[d] /\ status'[d] = status[d]
  BY <1>2, <1>5
<1>8. status'[c] = status[c] \/ (status[c] # "Error" /\ status'[c] # "Error")
  BY <1>2, <1>3, <1>5
<1>9. \A d \in Conversations : d # c => LeavesAlone(d)
  BY <1>2, <1>4, <1>7 DEF LeavesAlone, ExecutingIn
<1>10. TurnIn(c)'
  <2>1. CASE status'[c] = status[c]
    <3>1. LeavesAlone(c)
      BY <1>2, <1>3, <1>4, <1>6, <2>1 DEF LeavesAlone, ExecutingIn
    <3> QED BY <1>1, <1>3, <3>1, LeftAlone
  <2>2. CASE status[c] # "Error" /\ status'[c] # "Error"
    <3>1. CASE Awaits(c)
      <4>1. Asleep(c)
        BY <1>1, <1>3, <3>1 DEF TurnIn
      <4>2. Asleep(c)'
        BY <1>2, <4>1 DEF Asleep, ExecutingIn
      <4>3. Settles(c)
        BY <1>2, <1>4, <1>6, <2>2, <4>1, <4>2 DEF Settles
      <4> QED BY <1>1, <1>3, <4>3, Settled
    <3>2. CASE ~Awaits(c)
      <4>1. WorksOn(c)
        BY <1>2, <1>3, <1>4, <1>6, <2>2, <3>2 DEF WorksOn
      <4> QED BY <1>1, <1>3, <4>1, WorkedOn
    <3> QED BY <3>1, <3>2
  <2> QED BY <1>8, <2>1, <2>2
<1> QED BY <1>1, <1>9, <1>10, LeftAlone DEF TurnInv

\* The controller's reaction to a finished action: it sends the results only when no
\* action of the conversation is queued or running.
LEMMA DeliverFinishedActionTurn ==
    ASSUME TurnState, DeliverFinishedAction
    PROVE  TurnInv'
<1>e. PICK e : e = Head(effects)
  OBVIOUS
<1>c. PICK c : c = e.conv
  OBVIOUS
<1> DEFINE quiet == Quiet(c, e.reason)
           sends == ~quiet /\ WantsFollowUp(c, e.reason) /\ ~Streaming(c)
<1>1. ModelTypeOK /\ effects \in Seq(ControllerEvent) /\ TurnTypeOK
      /\ \A d \in Conversations : TurnIn(d)
  BY DEF TurnState, ControllerTypeOK, TurnInv
<1>2. /\ ~Idle
      /\ IF sends THEN FollowUp(c)
         ELSE /\ status' = [status EXCEPT ![c] =
                     IF quiet \/ WantsFollowUp(c, e.reason) THEN @ ELSE EndedStatus(c, e.reason)]
              /\ UNCHANGED <<finished, order, past, stream, active, resume, stopped>>
      /\ effects' = Tail(effects)
      /\ UNCHANGED <<preprocessing, pending, running, executing>>
  BY <1>e, <1>c DEF DeliverFinishedAction
<1>3. /\ c \in Conversations /\ preprocessing[c] = <<>>
      /\ status[c] = "Error" => e.reason = "FinalizedExternally"
  BY <1>2, <1>e, <1>c, HeadTurn
<1>4. Elems(effects') \subseteq Elems(effects)
  BY <1>1, <1>2, HeadOfEffects
<1>5. /\ status \in [Conversations -> Statuses] /\ resume \in [Conversations -> BOOLEAN]
      /\ stream \in [Conversations -> Streams] /\ stopped \in [Conversations -> BOOLEAN]
  BY <1>1 DEF ModelTypeOK, TurnTypeOK
<1>6. status[c] = "Error" => quiet
  BY <1>3 DEF Quiet
<1>7. \A d \in Conversations : d # c => LeavesAlone(d)
  <2>1. \A d \in Conversations : d # c =>
            /\ status'[d] = status[d] /\ stream'[d] = stream[d]
            /\ resume'[d] = resume[d] /\ stopped'[d] = stopped[d]
    BY <1>2, <1>5 DEF FollowUp, Request, ResumeAborted
  <2> QED BY <1>2, <1>4, <2>1 DEF LeavesAlone, ExecutingIn
<1>8. CASE sends
  <2>1. pending[c] = <<>> /\ running[c].ids = {} /\ status[c] # "Error"
    BY <1>6, <1>8 DEF Quiet, HasUnfinished
  <2>2. ExecutingIn(c) = {}
    <3>1. SingleIn(c)
      BY <1>3 DEF TurnState, PlacedState, SinglesInv
    <3> QED BY <2>1, <3>1 DEF SingleIn, Apart
  <2>3. /\ stream'[c] = Opened(TRUE) /\ ~resume'[c] /\ ~stopped'[c]
        /\ status'[c] = "InProgress"
    BY <1>2, <1>3, <1>5, <1>8 DEF FollowUp, Request, ResumeAborted
  <2>4. Asleep(c)'
    BY <1>2, <1>3, <2>1, <2>2 DEF Asleep, ExecutingIn
  <2>5. TurnIn(c)
    BY <1>1, <1>3
  <2>6. TurnIn(c)'
    BY <1>4, <2>3, <2>4, <2>5 DEF TurnIn, Asleep, Opened
  <2> QED BY <1>1, <1>7, <2>6, LeftAlone DEF TurnInv
<1>9. CASE ~sends
  <2>1. /\ stream'[c] = stream[c] /\ resume'[c] = resume[c] /\ stopped'[c] = stopped[c]
        /\ status'[c] = IF quiet \/ WantsFollowUp(c, e.reason) THEN status[c]
                        ELSE EndedStatus(c, e.reason)
    BY <1>2, <1>3, <1>5, <1>9
  <2>2. status'[c] = status[c] \/ (status[c] # "Error" /\ status'[c] # "Error")
    BY <1>6, <2>1 DEF EndedStatus
  <2>3. TurnIn(c)
    BY <1>1, <1>3
  <2>4. CASE status'[c] = status[c]
    <3>1. LeavesAlone(c)
      BY <1>2, <1>4, <2>1, <2>4 DEF LeavesAlone, ExecutingIn
    <3> QED BY <1>1, <1>3, <1>7, <3>1, LeftAlone DEF TurnInv
  <2>5. CASE Awaits(c) /\ status[c] # "Error" /\ status'[c] # "Error"
    <3>1. Asleep(c)
      BY <2>3, <2>5 DEF TurnIn
    <3>2. Asleep(c)'
      BY <1>2, <3>1 DEF Asleep, ExecutingIn
    <3>3. Settles(c)
      BY <1>4, <2>1, <2>5, <3>1, <3>2 DEF Settles
    <3> QED BY <1>1, <1>3, <1>7, <3>3, LeftAlone, Settled DEF TurnInv
  <2>6. CASE ~Awaits(c) /\ status'[c] # "Error"
    <3>1. WorksOn(c)
      BY <1>2, <1>3, <1>4, <2>1, <2>6 DEF WorksOn
    <3> QED BY <1>1, <1>3, <1>7, <3>1, LeftAlone, WorkedOn DEF TurnInv
  <2> QED BY <2>2, <2>4, <2>5, <2>6
<1> QED BY <1>8, <1>9

-----------------------------------------------------------------------------
(* Turns: what arrives on a stream, and the requests.                      *)

\* While nothing awaits delivery, what is in the phase of c is executing.
LEMMA IdleRunning ==
    ASSUME TurnState, Idle, NEW c \in Conversations, ExecutingIn(c) = {}
    PROVE  running[c].ids = {}
<1>1. SingleIn(c)
  BY DEF TurnState, PlacedState, SinglesInv
<1>2. AnsweredFor(c, effects) = {}
  BY AnswersForNone DEF Idle
<1> QED BY <1>1, <1>2 DEF SingleIn, Apart

\* The stream and the status of c change while the agent is asked.
LEMMA StreamedTurn ==
    ASSUME TurnState, NEW c \in Conversations, Idle, Streaming(c),
           NEW next \in Streams, NEW newStatus \in Statuses, Streamed(c, next, newStatus),
           next.phase # "None", next.output # <<>> => next.phase = "Completed",
           newStatus = "Error" => next.phase = "Failed" /\ ~next.resumes
    PROVE  TurnInv'
<1>1. ModelTypeOK /\ TurnTypeOK /\ \A d \in Conversations : TurnIn(d)
  BY DEF TurnState, ControllerTypeOK, TurnInv
<1>2. /\ stream' = [stream EXCEPT ![c] = next] /\ status' = [status EXCEPT ![c] = newStatus]
      /\ UNCHANGED <<preprocessing, pending, running, executing, effects, resume, stopped>>
  BY DEF Streamed
<1>3. /\ stream'[c] = next /\ status'[c] = newStatus
      /\ \A d \in Conversations : d # c => stream'[d] = stream[d] /\ status'[d] = status[d]
  BY <1>1, <1>2 DEF ModelTypeOK, TurnTypeOK
<1>4. \A d \in Conversations : d # c => LeavesAlone(d)
  BY <1>2, <1>3 DEF LeavesAlone, ExecutingIn
<1>5. Asleep(c) /\ ~resume[c] /\ ~stopped[c]
  BY <1>1 DEF TurnIn, Awaits
<1>6. Asleep(c)'
  BY <1>2, <1>5 DEF Asleep, ExecutingIn
<1>7. Elems(effects') = {}
  BY <1>2 DEF Idle, Elems
<1>8. TurnIn(c)'
  BY <1>2, <1>3, <1>5, <1>6, <1>7 DEF TurnIn, Asleep, SchedulesResume
<1> QED BY <1>1, <1>4, <1>8, LeftAlone DEF TurnInv

\* AfterStreamFinished without a cancellation: the actions of the output are alone in c.
LEMMA StreamEndsTurn ==
    ASSUME TurnState, NEW c \in Conversations, StreamEnds(c)
    PROVE  TurnInv'
<1>1. ModelTypeOK /\ TurnTypeOK /\ \A d \in Conversations : TurnIn(d)
  BY DEF TurnState, ControllerTypeOK, TurnInv
<1>2. /\ Idle /\ stream[c].phase \in {"Completed", "Failed"}
      /\ stream' = [stream EXCEPT ![c] = NoStream]
      /\ resume' = [resume EXCEPT ![c] = @ \/ SchedulesResume(c)]
      /\ UNCHANGED stopped
  BY DEF StreamEnds
<1>3. Asleep(c) /\ ~resume[c] /\ ~stopped[c] /\ TurnIn(c)
  BY <1>1, <1>2 DEF TurnIn, Awaits, Streaming
<1>4. /\ stream'[c] = NoStream
      /\ \A d \in Conversations : d # c => stream'[d] = stream[d] /\ resume'[d] = resume[d]
  BY <1>1, <1>2 DEF TurnTypeOK
<1>5. resume'[c] <=> SchedulesResume(c)
  <2>1. resume'[c] = (resume[c] \/ SchedulesResume(c))
    BY <1>1, <1>2 DEF TurnTypeOK
  <2> QED BY <1>3, <2>1
<1>6. CASE stream[c].output = <<>>
  <2>1. UNCHANGED <<preprocessing, pending, running, executing, status, effects>>
    BY <1>6 DEF StreamEnds, vars
  <2>2. \A d \in Conversations : d # c => LeavesAlone(d)
    BY <1>2, <1>4, <2>1 DEF LeavesAlone, ExecutingIn
  <2>3. Asleep(c)'
    BY <1>3, <2>1 DEF Asleep, ExecutingIn
  <2>4. Elems(effects') = {}
    BY <1>2, <2>1 DEF Idle, Elems
  <2>5. TurnIn(c)'
    BY <1>2, <1>3, <1>4, <2>3, <2>4 DEF TurnIn, Asleep, Streaming, SchedulesResume, NoStream
  <2> QED BY <1>1, <2>2, <2>5, LeftAlone DEF TurnInv
<1>7. CASE stream[c].output # <<>>
  <2> DEFINE output == stream[c].output
             tagged == Tagged(output)
  <2>1. QueueActions(c, output) /\ output \in Outputs[c]
    BY <1>1, <1>7 DEF StreamEnds, TurnTypeOK
  <2>2. /\ preprocessing' = [preprocessing EXCEPT ![c] = @ \o tagged]
        /\ UNCHANGED <<pending, running, executing, status, effects>>
    BY <2>1 DEF QueueActions
  <2>3. /\ tagged \in Seq(Entry) /\ \A i \in DOMAIN tagged : ~tagged[i].done
        /\ \A i, j \in DOMAIN tagged : tagged[i].batch = tagged[j].batch
    <3>1. output \in Seq(ActionIds) /\ output # <<>> /\ Injective(output)
      BY <2>1, OutputsAssumption
    <3> HIDE DEF output
    <3>2. Tagged(output) \in Seq(Entry)
      BY <3>1, TaggedOnce
    <3> QED BY <3>2 DEF Tagged
  <2>4. stream[c].phase = "Completed"
    BY <1>3, <1>7 DEF TurnIn
  <2>5. status[c] # "Error" /\ ~SchedulesResume(c)
    BY <1>3, <2>4 DEF TurnIn, SchedulesResume
  <2> HIDE DEF tagged
  <2>6. preprocessing'[c] = tagged /\ \A d \in Conversations : d # c => preprocessing'[d] = preprocessing[d]
    BY <1>1, <1>3, <2>2, <2>3 DEF ModelTypeOK, Asleep
  <2>7. \A d \in Conversations : d # c => LeavesAlone(d)
    BY <1>2, <1>4, <2>2, <2>6 DEF LeavesAlone, ExecutingIn
  <2>8. running[c].ids = {}
    BY <1>2, <1>3, IdleRunning DEF Asleep
  <2>9. Elems(effects') = {}
    BY <1>2, <2>2 DEF Idle, Elems
  <2>10. Fresh(c)'
    BY <1>3, <2>2, <2>3, <2>6, <2>8, <2>9 DEF Fresh, Asleep, ExecutingIn
  <2>11. ~Awaits(c)'
    BY <1>2, <1>3, <1>4, <1>5, <2>2, <2>5 DEF Awaits, Streaming, NoStream
  <2>12. TurnIn(c)'
    BY <1>4, <2>9, <2>10, <2>11 DEF TurnIn, Awaits, NoStream
  <2> QED BY <1>1, <2>7, <2>12, LeftAlone DEF TurnInv
<1> QED BY <1>6, <1>7

\* What arrives on the stream of c.
LEMMA StreamStepTurn ==
    ASSUME TurnState, NEW c \in Conversations, StreamStep(c)
    PROVE  TurnInv'
<1>1. ModelTypeOK /\ TurnTypeOK /\ stream[c] \in Streams /\ status[c] \in Statuses /\ TurnIn(c)
  BY DEF TurnState, ControllerTypeOK, TurnInv, ModelTypeOK, TurnTypeOK
<1>2. CASE StreamSucceeds(c)
  <2>1. PICK output \in Outputs[c] \cup {<<>>} :
            Streamed(c, [stream[c] EXCEPT !.phase = "Completed", !.output = output],
                     IF output = <<>> THEN "Success" ELSE status[c])
    BY <1>2 DEF StreamSucceeds
  <2> DEFINE next == [stream[c] EXCEPT !.phase = "Completed", !.output = output]
             st == IF output = <<>> THEN "Success" ELSE status[c]
  <2>2. Idle /\ stream[c].phase = "Open"
    BY <1>2 DEF StreamSucceeds
  <2>3. output \in Seq(ActionIds)
    <3>1. <<>> \in Seq(ActionIds)
      OBVIOUS
    <3>2. \A o \in Outputs[c] : o \in Seq(ActionIds)
      BY OutputsAssumption
    <3> QED BY <2>1, <3>1, <3>2
  <2>4. next \in Streams /\ next.phase = "Completed"
    BY <1>1, <2>3 DEF Streams, StreamPhases
  <2>5. st \in Statuses /\ st # "Error"
    BY <1>1, <2>2 DEF TurnIn, Statuses
  <2>6. Streamed(c, next, st)
    BY <2>1
  <2> HIDE DEF next, st
  <2> QED BY <2>2, <2>4, <2>5, <2>6, StreamedTurn DEF Streaming
<1>3. CASE StreamFails(c)
  <2>1. PICK resumes \in {FALSE, stream[c].resumes} :
            Streamed(c, [stream[c] EXCEPT !.phase = "Failed", !.resumes = resumes],
                     IF resumes THEN "TransientError" ELSE "Error")
    BY <1>3 DEF StreamFails
  <2> DEFINE next == [stream[c] EXCEPT !.phase = "Failed", !.resumes = resumes]
             st == IF resumes THEN "TransientError" ELSE "Error"
  <2>2. Idle /\ stream[c].phase = "Open"
    BY <1>3 DEF StreamFails
  <2>3. resumes \in BOOLEAN
    BY <1>1, <2>1 DEF Streams
  <2>4. /\ next \in Streams /\ next.phase = "Failed" /\ next.output = stream[c].output
        /\ next.resumes = resumes
    BY <1>1, <2>3 DEF Streams, StreamPhases
  <2>5. st \in Statuses /\ (st = "Error" => ~resumes)
    BY DEF Statuses
  <2>6. next.output = <<>>
    BY <1>1, <2>2, <2>4 DEF TurnIn
  <2>7. Streamed(c, next, st)
    BY <2>1
  <2> HIDE DEF next, st
  <2> QED BY <2>2, <2>4, <2>5, <2>6, <2>7, StreamedTurn DEF Streaming
<1>4. CASE NetworkIsLost(c)
  <2> DEFINE next == [stream[c] EXCEPT !.phase = "Waiting"]
  <2>1. Idle /\ stream[c].phase = "Open" /\ Streamed(c, next, "TransientError")
    BY <1>4 DEF NetworkIsLost
  <2>2. next \in Streams /\ next.phase = "Waiting" /\ next.output = stream[c].output
    BY <1>1 DEF Streams, StreamPhases
  <2>3. next.output = <<>>
    BY <1>1, <2>1, <2>2 DEF TurnIn
  <2>4. "TransientError" \in Statuses
    BY DEF Statuses
  <2> HIDE DEF next
  <2> QED BY <2>1, <2>2, <2>3, <2>4, StreamedTurn DEF Streaming
<1>5. CASE NetworkReturns(c)
  <2> DEFINE next == [stream[c] EXCEPT !.phase = "Open"]
  <2>1. Idle /\ stream[c].phase = "Waiting" /\ Streamed(c, next, "InProgress")
    BY <1>5 DEF NetworkReturns
  <2>2. next \in Streams /\ next.phase = "Open" /\ next.output = stream[c].output
    BY <1>1 DEF Streams, StreamPhases
  <2>3. next.output = <<>>
    BY <1>1, <2>1, <2>2 DEF TurnIn
  <2>4. "InProgress" \in Statuses
    BY DEF Statuses
  <2> HIDE DEF next
  <2> QED BY <2>1, <2>2, <2>3, <2>4, StreamedTurn DEF Streaming
<1> QED
  BY <1>2, <1>3, <1>4, <1>5, StreamEndsTurn DEF StreamStep

\* The scheduled resume asks the agent, and is no longer scheduled.
LEMMA AutoResumeTurn ==
    ASSUME TurnState, NEW c \in Conversations, AutoResume(c)
    PROVE  TurnInv'
<1>1. ModelTypeOK /\ TurnTypeOK /\ \A d \in Conversations : TurnIn(d)
  BY DEF TurnState, ControllerTypeOK, TurnInv
<1>2. /\ Idle /\ resume[c]
      /\ UNCHANGED <<preprocessing, pending, running, executing, effects>>
  BY DEF AutoResume
<1>3. Asleep(c) /\ ~Streaming(c)
  BY <1>1, <1>2 DEF TurnIn, Awaits
<1>4. Request(c, FALSE) /\ status' = [status EXCEPT ![c] = "InProgress"]
  BY <1>3 DEF AutoResume
<1>5. /\ stream'[c] = Opened(FALSE) /\ ~resume'[c] /\ ~stopped'[c] /\ status'[c] = "InProgress"
      /\ \A d \in Conversations : d # c =>
            /\ status'[d] = status[d] /\ stream'[d] = stream[d]
            /\ resume'[d] = resume[d] /\ stopped'[d] = stopped[d]
  BY <1>1, <1>4 DEF Request, ResumeAborted, ModelTypeOK, TurnTypeOK
<1>6. \A d \in Conversations : d # c => LeavesAlone(d)
  BY <1>2, <1>5 DEF LeavesAlone, ExecutingIn
<1>7. Asleep(c)'
  BY <1>2, <1>3 DEF Asleep, ExecutingIn
<1>8. Elems(effects') = {}
  BY <1>2 DEF Idle, Elems
<1>9. TurnIn(c)'
  BY <1>5, <1>7, <1>8 DEF TurnIn, Asleep, Opened
<1> QED BY <1>1, <1>6, <1>9, LeftAlone DEF TurnInv

-----------------------------------------------------------------------------
(* Turns: what cancels the actions of a conversation.                      *)

(***************************************************************************)
(* The views of c after its actions were cancelled for the reason: nothing *)
(* is queued or started, the phase is untouched, what was queued is        *)
(* finished.  A conversation that had failed still has, without events.    *)
(***************************************************************************)
Ceased(c, reason) ==
    {v \in View :
        /\ v.pending = <<>> /\ v.started = {} /\ v.running = running[c]
        /\ (v.status = "Error") = (status[c] = "Error")
        /\ IdsOf(v.finished) \subseteq FinishedIds(c) \cup Elems(pending[c])
        /\ ResultedOnce(v.finished)
        /\ \A e \in Elems(v.events) :
               e.type = "Finished" /\ e.conv = c /\ e.reason = reason
        /\ status[c] = "Error" => v.events = <<>>}

\* The view v of c differs from that a handler starts from in the status only.
StartsFrom(c, v) ==
    /\ v \in View /\ v.pending = pending[c] /\ v.running = running[c]
    /\ v.finished = finished[c] /\ v.started = {} /\ v.events = <<>>
    /\ (v.status = "Error") = (status[c] = "Error")

\* Cancelling the queue of c finishes what was queued and does nothing else.
LEMMA CancelPendingCeases ==
    ASSUME TurnState, NEW c \in Conversations, NEW reason \in Reasons \cup {NoReason},
           NEW v, StartsFrom(c, v)
    PROVE  CancelPending(c, v, reason) \in Ceased(c, reason)
<1> DEFINE w == CancelPending(c, v, reason)
           F == FinishedIds(c) \cup Elems(pending[c])
           S == Statuses \ {"Error"}
<1>1. /\ ModelTypeOK /\ CleanIn(c) /\ TurnIn(c) /\ SingleIn(c)
      /\ v \in View /\ v.started = {} /\ v.events = <<>>
      /\ v.pending = pending[c] /\ v.running = running[c] /\ v.finished = finished[c]
  BY SingleIsClean DEF TurnState, ControllerTypeOK, TurnInv, StartsFrom
<1>2. w \in PlacedView(c, {}, running[c].ids, F, {})
  BY <1>1, CancelPendingPlaced
<1>3. IdsOf(w.finished) \subseteq F /\ ResultedOnce(w.finished) /\ w \in View
  <2> HIDE DEF w, F
  <2> QED BY <1>2 DEF PlacedView, FramedView, Framed, Placed
<1>4. CASE status[c] = "Error"
  <2>1. v.pending = <<>> /\ v.status = "Error"
    BY <1>1, <1>4 DEF TurnIn, Asleep, Awaits, StartsFrom
  <2>2. w = v
    BY <1>1, <2>1, CancelPendingNothing
  <2> HIDE DEF w, F
  <2> QED BY <1>1, <1>3, <1>4, <2>1, <2>2 DEF Ceased, Elems, F, w
<1>5. CASE status[c] # "Error"
  <2>1. v.status \in S
    BY <1>1, <1>5 DEF StartsFrom, View
  <2>2. Kept(reason, S)
    BY DEF Kept, Statuses
  <2> HIDE DEF S
  <2>3. w \in ClosedView(c, reason, S, v.running)
    BY <1>1, <2>1, <2>2, CancelPendingClosed
  <2> HIDE DEF w, F
  <2> QED BY <1>1, <1>3, <1>5, <2>3 DEF Ceased, ClosedView, S, F, w
<1> QED BY <1>4, <1>5

\* So does cancel_conversation_progress, which leaves a failed conversation failed.
LEMMA InterruptedCeases ==
    ASSUME TurnState, NEW c \in Conversations, NEW reason \in Reasons
    PROVE  Interrupted(c, reason) \in Ceased(c, reason)
<1>1. ModelTypeOK /\ TurnIn(c) /\ SingleIn(c)
  BY DEF TurnState, ControllerTypeOK, TurnInv, PlacedState, SinglesInv
<1> DEFINE o == ViewOf(c)
           s == RecoveryCancelled(status[c], reason)
           v == [o EXCEPT !.status = s]
<1>2. /\ o \in View /\ o.pending = pending[c] /\ o.running = running[c]
      /\ o.finished = finished[c] /\ o.started = {} /\ o.events = <<>> /\ o.status = status[c]
  BY <1>1, ViewOfType DEF ViewOf
<1>3. s \in Statuses /\ (s = "Error") = (status[c] = "Error")
  BY <1>1 DEF RecoveryCancelled, Statuses, ModelTypeOK
<1>4. v = [ViewOf(c) EXCEPT !.status = RecoveryCancelled(@, reason)]
  BY <1>2
<1> HIDE DEF o, s
<1>5. CASE Streaming(c)
  <2>1. pending[c] = <<>>
    BY <1>1, <1>5 DEF TurnIn, Asleep, Awaits
  <2>2. IdsOf(finished[c]) = FinishedIds(c) /\ ResultedOnce(finished[c])
    BY <1>1 DEF SingleIn, IdsOf, FinishedIds
  <2>3. o \in Ceased(c, reason)
    BY <1>2, <2>1, <2>2 DEF Ceased, Elems
  <2> QED BY <1>5, <2>3 DEF Interrupted, o
<1>6. CASE ~Streaming(c)
  <2>1. StartsFrom(c, v)
    BY <1>2, <1>3 DEF StartsFrom, View
  <2> HIDE DEF v
  <2>2. CancelPending(c, v, reason) \in Ceased(c, reason)
    BY <2>1, CancelPendingCeases
  <2> QED BY <1>4, <1>6, <2>2 DEF Interrupted
<1> QED BY <1>5, <1>6

\* The event sequences that speak of c only, for the reason, and answer the actions A.
SpeaksOf(c, A, reason) ==
    {t \in Seq(ControllerEvent) :
        /\ \A e \in Elems(t) :
               /\ e.conv = c /\ e.reason = reason
               /\ e.type = "StreamCancelled" => ~e.resumes
        /\ AnsweredFor(c, t) = A
        /\ AnsweredOnce(c, t)}

\* Of other conversations they do not speak.
LEMMA SpeaksOfOthers ==
    ASSUME NEW c, NEW A, NEW reason, NEW t \in SpeaksOf(c, A, reason), NEW d, d # c
    PROVE  AnsweredFor(d, t) = {} /\ AnsweredOnce(d, t)
<1>1. \A i \in DOMAIN t : t[i].conv = c
  BY DEF SpeaksOf, Elems
<1> QED BY <1>1 DEF AnsweredFor, AnsweredOnce, AnswersFor

\* No events.
LEMMA SpeaksNothing ==
    ASSUME NEW c, NEW reason PROVE <<>> \in SpeaksOf(c, {}, reason)
<1>1. <<>> \in Seq(ControllerEvent) /\ Elems(<<>>) = {}
  BY DEF Elems
<1> QED BY <1>1, AnswersForNone DEF SpeaksOf

\* One sequence after the other.
LEMMA SpeaksOfConcat ==
    ASSUME NEW c, NEW A, NEW B, A \cap B = {}, NEW reason,
           NEW s \in SpeaksOf(c, A, reason), NEW t \in SpeaksOf(c, B, reason)
    PROVE  s \o t \in SpeaksOf(c, A \cup B, reason)
<1>1. /\ s \in Seq(ControllerEvent) /\ t \in Seq(ControllerEvent)
      /\ AnsweredFor(c, s) = A /\ AnsweredFor(c, t) = B
      /\ AnsweredOnce(c, s) /\ AnsweredOnce(c, t)
  BY DEF SpeaksOf
<1> DEFINE u == s \o t
<1>2. u \in Seq(ControllerEvent) /\ Elems(u) = Elems(s) \cup Elems(t)
  BY <1>1, ConcatElems
<1>3. AnsweredFor(c, u) = A \cup B /\ AnsweredOnce(c, u)
  BY <1>1, AnswersForConcat
<1> HIDE DEF u
<1>4. u \in SpeaksOf(c, A \cup B, reason)
  BY <1>2, <1>3 DEF SpeaksOf
<1> QED BY <1>4 DEF u

\* The events of a view whose actions were cancelled.
LEMMA CeasedSpeaks ==
    ASSUME NEW c \in Conversations, NEW reason, NEW v \in Ceased(c, reason)
    PROVE  v.events \in SpeaksOf(c, {}, reason)
<1> DEFINE t == v.events
<1>1. t \in Seq(Event) /\ t \in Seq(ControllerEvent)
  BY ControllerExtends, EventsAreEffects DEF Ceased, View
<1>2. \A e \in Elems(t) : e.type = "Finished" /\ e.conv = c /\ e.reason = reason
  BY DEF Ceased
<1> HIDE DEF t
<1>3. AnsweredFor(c, t) = {} /\ AnsweredOnce(c, t)
  <2>1. AnswersFor(c, t) = {}
    BY <1>2 DEF AnswersFor, Elems
  <2> QED BY <2>1 DEF AnsweredFor, AnsweredOnce
<1>4. t \in SpeaksOf(c, {}, reason)
  BY <1>1, <1>2, <1>3 DEF SpeaksOf
<1> QED BY <1>4 DEF t

\* The cancelled results of the running actions of c.
LEMMA CancelledSpeaks ==
    ASSUME NEW c \in Conversations, NEW reason \in Reasons, NEW S \in SUBSET ActionIds,
           NEW listed \in Orderings(S)
    PROVE  CancelledEvents(c, listed, reason) \in SpeaksOf(c, S, reason)
<1> DEFINE t == CancelledEvents(c, listed, reason)
<1>1. listed \in Seq(ActionIds) /\ Elems(listed) = S /\ Injective(listed)
  <2>1. IsFiniteSet(S)
    BY ActionIdsAssumption, FS_Subset
  <2> QED BY <2>1, OrderingsComplete, OrderingsType
<1>2. t \in Seq(ControllerEvent)
  <2>1. t \in Seq(Event)
    BY <1>1, CancelledEventsType
  <2> HIDE DEF t
  <2> QED BY <2>1, ControllerExtends, EventsAreEffects
<1>3. AnsweredFor(c, t) = S /\ AnsweredOnce(c, t)
  BY <1>1, AnswersForCancelled
<1>4. \A e \in Elems(t) : e.conv = c /\ e.reason = reason /\ e.type = "ExecutorFinished"
  BY DEF CancelledEvents, Elems, ExecutorFinished
<1> HIDE DEF t
<1>5. t \in SpeaksOf(c, S, reason)
  BY <1>2, <1>3, <1>4 DEF SpeaksOf
<1> QED BY <1>5 DEF t

\* The event of a stream that is cancelled before it has failed.
LEMMA StreamCancelledSpeaks ==
    ASSUME NEW c \in Conversations, NEW reason \in Reasons, stream[c].phase # "Failed"
    PROVE  <<StreamCancelled(c, reason)>> \in SpeaksOf(c, {}, reason)
<1> DEFINE e == StreamCancelled(c, reason)
           t == <<e>>
<1>1. /\ e \in ControllerEvent /\ e.conv = c /\ e.reason = reason
      /\ e.type = "StreamCancelled" /\ ~e.resumes
  BY DEF StreamCancelled, SchedulesResume, ControllerEvent
<1> HIDE DEF e
<1>2. t \in Seq(ControllerEvent) /\ Elems(t) = {e} /\ DOMAIN t = {1} /\ t[1] = e
  BY <1>1 DEF Elems
<1> HIDE DEF t
<1>3. AnswersFor(c, t) = {}
  BY <1>1, <1>2 DEF AnswersFor
<1>4. t \in SpeaksOf(c, {}, reason)
  BY <1>1, <1>2, <1>3 DEF SpeaksOf, AnsweredFor, AnsweredOnce
<1> QED BY <1>4 DEF t, e

\* In d everything is cancelled by a step that appends the events evs.
CeasesIn(d, evs) ==
    /\ pending'[d] = <<>>
    /\ IdsOf(finished'[d]) \subseteq FinishedIds(d) \cup Elems(pending[d])
    /\ ResultedOnce(finished'[d])
    /\ ExecutingIn(d)' = {}
    /\ AnsweredFor(d, evs) = ExecutingIn(d) /\ AnsweredOnce(d, evs)

\* In d nothing is.
Spares(d, evs) ==
    /\ pending'[d] = pending[d] /\ finished'[d] = finished[d]
    /\ ExecutingIn(d)' = ExecutingIn(d)
    /\ AnsweredFor(d, evs) = {} /\ AnsweredOnce(d, evs)

\* The results of c are drained, or none are.
DrainsOnly(c) ==
    \/ past' = past
    \/ past' \subseteq past \cup FinishedIds(c) \cup Elems(pending[c]) /\ finished'[c] = <<>>

\* Cancelling all that is queued or runs in some conversations, and draining the results
\* of one of them, leaves each action in one place.
LEMMA CeasesPlaced ==
    ASSUME NEW E, PlacedState(E), NEW evs \in Seq(E), effects' = effects \o evs,
           UNCHANGED <<preprocessing, running, received>>,
           NEW D, executing' = ExecutingOutside(D),
           NEW c \in Conversations, DrainsOnly(c), CeasesIn(c, evs),
           \A d \in Conversations : CeasesIn(d, evs) \/ Spares(d, evs)
    PROVE  KnownInv' /\ SinglesInv' /\ IdentifiersInv'
<1>1. /\ effects \in Seq(E) /\ KnownState(E) /\ IdentifiersInv
      /\ \A d \in Conversations :
             /\ SingleIn(d)
             /\ Elems(pending[d]) \cup FinishedIds(d) \cup PreprocessingIds(d) \cup running[d].ids
                    \cup AnsweredFor(d, effects) \subseteq received[d]
  BY SingleIsClean DEF PlacedState, KnownState
<1>2. \A d \in Conversations :
          /\ PreprocessingIds(d)' = PreprocessingIds(d)
          /\ PreprocessedOnce(preprocessing'[d])
          /\ running'[d] = running[d]
  BY <1>1 DEF PreprocessingIds, SingleIn
<1>3. \A d : FinishedIds(d)' = IdsOf(finished'[d]) /\ FinishedIds(d) = IdsOf(finished[d])
  BY DEF FinishedIds, IdsOf
<1>4. \A d : /\ AnsweredFor(d, effects') = AnsweredFor(d, effects) \cup AnsweredFor(d, evs)
             /\ (/\ AnsweredOnce(d, effects) /\ AnsweredOnce(d, evs)
                 /\ AnsweredFor(d, effects) \cap AnsweredFor(d, evs) = {})
                    => AnsweredOnce(d, effects')
  BY <1>1, AnswersForConcat
<1>5. \A d \in Conversations : ExecutingIn(d) \subseteq running[d].ids
  BY <1>1 DEF SingleIn, Apart
<1>6. ASSUME NEW d \in Conversations, CeasesIn(d, evs)
      PROVE  /\ AnsweredFor(d, effects') = AnsweredFor(d, effects) \cup ExecutingIn(d)
             /\ AnsweredOnce(d, effects')
  <2>1. ExecutingIn(d) \cap AnsweredFor(d, effects) = {}
    BY <1>1 DEF SingleIn, Apart
  <2> QED BY <1>1, <1>4, <1>6, <2>1 DEF CeasesIn, SingleIn
<1>7. ASSUME NEW d \in Conversations, Spares(d, evs)
      PROVE  /\ AnsweredFor(d, effects') = AnsweredFor(d, effects)
             /\ AnsweredOnce(d, effects')
  BY <1>1, <1>4, <1>7 DEF Spares, SingleIn
<1>8. /\ past' \subseteq past \cup received[c]
      /\ past' \subseteq past \cup FinishedIds(c) \cup Elems(pending[c])
      /\ past' # past => finished'[c] = <<>>
  BY <1>1 DEF DrainsOnly
<1>9. KnownInv'
  <2>1. \A d \in Conversations : /\ Elems(pending[d])' \subseteq Elems(pending[d])
                                 /\ FinishedIds(d)' \subseteq FinishedIds(d) \cup Elems(pending[d])
    <3>1. Elems(<<>>) = {}
      BY DEF Elems
    <3> QED BY <1>3, <3>1 DEF CeasesIn, Spares
  <2>2. EventsKnown(effects')
    BY <1>1, <1>5, <1>6, <1>7 DEF EventsKnown
  <2>3. ExecsKnown(executing')
    BY <1>1, ExecutingOutsideKnown DEF KnownState, KnownInv
  <2> QED BY <1>1, <2>1, <2>2, <2>3, FewerKnown
<1>10. ASSUME NEW d \in Conversations, CeasesIn(d, evs), past' = past \/ d = c PROVE SingleIn(d)'
  <2> DEFINE P == PreprocessingIds(d)
             R == running[d].ids
             F == FinishedIds(d) \cup Elems(pending[d])
             A == AnsweredFor(d, effects) \cup ExecutingIn(d)
  <2>1. Apart(P, {}, R, F, A, {}, past)
    BY <1>1, CancelledApart DEF SingleIn
  <2>2. Elems(pending'[d]) = {} /\ Injective(pending'[d])
    BY <1>10 DEF CeasesIn, Elems, Injective
  <2>3. FinishedIds(d)' \subseteq F /\ (past' # past => FinishedIds(d)' = {})
    BY <1>3, <1>8, <1>10, NoneFinished DEF CeasesIn
  <2>4. past' \subseteq past \cup F
    BY <1>8, <1>10
  <2> HIDE DEF P, R, F, A
  <2>5. Apart(P, {}, R, FinishedIds(d)', A, {}, past')
    BY <2>1, <2>3, <2>4 DEF Apart
  <2> QED BY <1>2, <1>6, <1>10, <2>2, <2>5 DEF SingleIn, CeasesIn, P, R, A
<1>11. ASSUME NEW d \in Conversations, CeasesIn(d, evs), d # c PROVE SingleIn(d)'
  <2> DEFINE P == PreprocessingIds(d)
             R == running[d].ids
             F == FinishedIds(d) \cup Elems(pending[d])
             A == AnsweredFor(d, effects) \cup ExecutingIn(d)
  <2>1. Apart(P, {}, R, F, A, {}, past)
    BY <1>1, CancelledApart DEF SingleIn
  <2>2. Elems(pending'[d]) = {} /\ Injective(pending'[d])
    BY <1>11 DEF CeasesIn, Elems, Injective
  <2>3. FinishedIds(d)' \subseteq F
    BY <1>3, <1>11 DEF CeasesIn
  <2>4. received[c] \cap received[d] = {}
    BY <1>1, <1>11, ReceivedApart DEF PlacedState
  <2>5. P \cup R \cup A \subseteq received[d]
    BY <1>1, <1>5
  <2> HIDE DEF P, R, F, A
  <2>6. Apart(P, {}, R, FinishedIds(d)', A, {}, past')
    BY <1>8, <2>1, <2>3, <2>4, <2>5 DEF Apart
  <2> QED BY <1>2, <1>6, <1>11, <2>2, <2>6 DEF SingleIn, CeasesIn, P, R, A
<1>12. ASSUME NEW d \in Conversations, Spares(d, evs), d # c PROVE SingleIn(d)'
  <2>1. /\ preprocessing'[d] = preprocessing[d] /\ pending'[d] = pending[d]
        /\ running'[d].ids = running[d].ids /\ finished'[d] = finished[d]
        /\ AnsweredFor(d, effects') = AnsweredFor(d, effects) /\ AnsweredOnce(d, effects')
        /\ ExecutingIn(d)' = ExecutingIn(d) /\ past' \subseteq past \cup received[c]
    BY <1>7, <1>8, <1>12 DEF Spares
  <2> QED BY <1>12, <2>1, OtherSingle
<1>13. SinglesInv'
  BY <1>10, <1>11, <1>12 DEF SinglesInv
<1>14. IdentifiersInv'
  BY <1>1, <1>8, IdentifiersKept
<1> QED BY <1>9, <1>13, <1>14

\* Where everything of d is cancelled, its turn is in order if its stream is.
LEMMA CeasesTurn ==
    ASSUME TurnState, NEW d \in Conversations, Idle, NEW evs \in Seq(ControllerEvent),
           effects' = effects \o evs, CeasesIn(d, evs), preprocessing'[d] = <<>>,
           stream'[d].output # <<>> => stream'[d].phase = "Completed",
           Streaming(d)' => ~resume'[d] /\ ~stopped'[d],
           stopped'[d] => ~resume'[d],
           \A e \in Elems(evs) : (e.conv = d /\ e.type = "StreamCancelled") => ~e.resumes,
           status'[d] = "Error" =>
               /\ ~Streaming(d)'
               /\ \A e \in Elems(evs) : e.conv = d => e.reason = "FinalizedExternally"
    PROVE  TurnIn(d)'
<1>1. effects' = evs
  BY DEF Idle
<1> QED BY <1>1 DEF TurnIn, Asleep, CeasesIn, Streaming, SchedulesResume

\* What a slow user waits for.
LEMMA UserActs ==
    ASSUME TurnState, NEW c \in Conversations, MayAct(c)
    PROVE  /\ Idle /\ preprocessing[c] = <<>> /\ stream[c].phase \notin {"Completed", "Failed"}
           /\ Streaming(c) => ExecutingIn(c) = {} /\ pending[c] = <<>> /\ status[c] # "Error"
           /\ status[c] = "Error" => ExecutingIn(c) = {} /\ pending[c] = <<>>
           /\ stream[c].output = <<>>
<1>1. TurnIn(c) /\ UserIsSlow
  BY DEF TurnState, TurnInv
<1>2. Idle /\ preprocessing[c] = <<>> /\ stream[c].phase \notin {"Completed", "Failed"}
  BY <1>1 DEF MayAct
<1> QED BY <1>1, <1>2 DEF TurnIn, Asleep, Awaits, Streaming

\* The next state has the view of d in which its actions are cancelled.
LEMMA CeasedCeases ==
    ASSUME TurnState, NEW d \in Conversations, NEW reason, NEW v \in Ceased(d, reason),
           pending'[d] = v.pending, finished'[d] \in {v.finished, <<>>},
           NEW D, executing' = ExecutingOutside(D), d \in D \/ ExecutingIn(d) = {},
           NEW evs, AnsweredFor(d, evs) = ExecutingIn(d), AnsweredOnce(d, evs)
    PROVE  CeasesIn(d, evs)
<1>1. ExecutingIn(d)' = {}
  BY NoConvAssumption DEF ExecutingIn, ExecutingOutside
<1>2. IdsOf(<<>>) = {} /\ ResultedOnce(<<>>)
  BY DEF IdsOf, ResultedOnce
<1> QED BY <1>1, <1>2 DEF CeasesIn, Ceased

\* A conversation in which nothing is cancelled.
LEMMA OthersSpared ==
    ASSUME TurnState, NEW d \in Conversations,
           pending'[d] = pending[d], finished'[d] = finished[d],
           NEW D, executing' = ExecutingOutside(D), d \notin D,
           NEW evs, AnsweredFor(d, evs) = {}, AnsweredOnce(d, evs)
    PROVE  Spares(d, evs)
<1>1. ExecutingIn(d)' = ExecutingIn(d)
  BY NoConvAssumption DEF ExecutingIn, ExecutingOutside
<1> QED BY <1>1 DEF Spares

\* The events of cancel_conversation_progress; there are none if c has failed.
LEMMA InterruptedSpeaks ==
    ASSUME TurnState, NEW c \in Conversations, MayAct(c), NEW reason \in Reasons,
           NEW listed \in Orderings(InterruptedActions(c))
    PROVE  LET evs == InterruptedEvents(c, listed, reason) \o Interrupted(c, reason).events
           IN  /\ evs \in SpeaksOf(c, ExecutingIn(c), reason)
               /\ status[c] = "Error" => Elems(evs) = {}
               /\ InterruptedEvents(c, listed, reason) \in Seq(ControllerEvent)
<1> DEFINE first == InterruptedEvents(c, listed, reason)
           v == Interrupted(c, reason)
           last == v.events
           evs == first \o last
<1>1. v \in Ceased(c, reason)
  BY InterruptedCeases
<1>2. last \in SpeaksOf(c, {}, reason) /\ (status[c] = "Error" => last = <<>>)
  <2> HIDE DEF v
  <2> QED BY <1>1, CeasedSpeaks DEF Ceased
<1>3. first \in SpeaksOf(c, ExecutingIn(c), reason)
  <2>1. CASE Streaming(c)
    BY <2>1, UserActs, StreamCancelledSpeaks DEF InterruptedEvents
  <2>2. CASE ~Streaming(c)
    <3>1. ExecutingIn(c) \in SUBSET ActionIds /\ listed \in Orderings(ExecutingIn(c))
      BY <2>2 DEF ExecutingIn, InterruptedActions
    <3>2. CancelledEvents(c, listed, reason) \in SpeaksOf(c, ExecutingIn(c), reason)
      BY <3>1, CancelledSpeaks
    <3> QED BY <2>2, <3>2 DEF InterruptedEvents
  <2> QED BY <2>1, <2>2
<1>4. status[c] = "Error" => Elems(first) = {}
  <2>1. SUFFICES ASSUME status[c] = "Error" PROVE Elems(first) = {}
    OBVIOUS
  <2>2. ~Streaming(c) /\ ExecutingIn(c) = {}
    BY <2>1, UserActs
  <2>3. listed \in Orderings({}) /\ first = CancelledEvents(c, listed, reason)
    BY <2>2 DEF InterruptedActions, InterruptedEvents
  <2>4. Elems(listed) = {}
    <3>1. IsFiniteSet({})
      BY FS_EmptySet
    <3> QED BY <2>3, <3>1, OrderingsComplete
  <2> HIDE DEF first
  <2> QED BY <2>3, <2>4 DEF Elems, CancelledEvents
<1> HIDE DEF first, v
<1>5. evs \in SpeaksOf(c, ExecutingIn(c), reason)
  <2> HIDE DEF last
  <2>1. first \o last \in SpeaksOf(c, ExecutingIn(c) \cup {}, reason)
    BY <1>2, <1>3, SpeaksOfConcat
  <2>2. ExecutingIn(c) \cup {} = ExecutingIn(c)
    OBVIOUS
  <2> QED BY <2>1, <2>2
<1>6. status[c] = "Error" => Elems(evs) = {}
  <2>1. first \in Seq(ControllerEvent) /\ last \in Seq(ControllerEvent) /\ Elems(<<>>) = {}
    BY <1>2, <1>3 DEF SpeaksOf, Elems
  <2> HIDE DEF last
  <2> QED BY <1>2, <1>4, <2>1, ConcatElems
<1>7. first \in Seq(ControllerEvent)
  BY <1>3 DEF SpeaksOf
<1> QED BY <1>5, <1>6, <1>7 DEF first, v

-----------------------------------------------------------------------------
(* Every step leaves the state in order.                                   *)

\* What a step from a TurnState is to establish.
InOrderNext ==
    /\ ModelTypeOK' /\ effects' \in Seq(ControllerEvent) /\ TurnTypeOK'
    /\ KnownInv' /\ SinglesInv' /\ IdentifiersInv' /\ TurnInv'

\* What a step that only cancels does to the actions.
Hushes ==
    /\ Idle /\ UNCHANGED <<preprocessing, running>>
    /\ \A d \in Conversations : /\ pending'[d] \in {<<>>, pending[d]}
                               /\ AnsweredFor(d, effects') \subseteq ExecutingIn(d)

\* It is one that appends the results of what it has cancelled.
LEMMA CeasesHush ==
    ASSUME Idle, UNCHANGED <<preprocessing, running>>, NEW evs \in Seq(ControllerEvent),
           effects' = effects \o evs,
           \A d \in Conversations : CeasesIn(d, evs) \/ Spares(d, evs)
    PROVE  Hushes
<1>1. effects' = evs
  BY DEF Idle
<1> QED BY <1>1 DEF Hushes, CeasesIn, Spares

\* A conversation whose actions and whose turn a step that only appends leaves alone.
LEMMA OthersLeftAlone ==
    ASSUME NEW d \in Conversations, NEW evs \in Seq(ControllerEvent),
           effects \in Seq(ControllerEvent), effects' = effects \o evs,
           \A e \in Elems(evs) : e.conv # d,
           UNCHANGED <<preprocessing, running>>, NEW D, executing' = ExecutingOutside(D),
           pending'[d] = pending[d], status'[d] = status[d], stream'[d] = stream[d],
           resume'[d] = resume[d], stopped'[d] = stopped[d]
    PROVE  LeavesAlone(d)
<1>1. ExecutingIn(d)' \subseteq ExecutingIn(d)
  BY NoConvAssumption DEF ExecutingIn, ExecutingOutside
<1>2. Elems(effects') = Elems(effects) \cup Elems(evs)
  BY ConcatElems
<1> QED BY <1>1, <1>2 DEF LeavesAlone

\* cancel_conversation_progress.
LEMMA CancelConversationProgressTurn ==
    ASSUME TurnState, NEW c \in Conversations, NEW reason \in UserReasons,
           CancelConversationProgress(c, reason)
    PROVE  InOrderNext /\ Hushes
<1> DEFINE D == IF Streaming(c) THEN {} ELSE {c}
           v == Interrupted(c, reason)
           last == v.events
<1>1. /\ MayAct(c) /\ reason \in Reasons /\ ModelTypeOK /\ effects \in Seq(ControllerEvent)
      /\ TurnTypeOK /\ \A d \in Conversations : TurnIn(d)
      /\ PlacedState(ControllerEvent)
  BY DEF CancelConversationProgress, UserReasons, TurnState, ControllerTypeOK, TurnInv
<1>2. PICK listed \in Orderings(InterruptedActions(c)) :
          Commit(c, v, effects \o InterruptedEvents(c, listed, reason), ExecutingOutside(D))
  BY DEF CancelConversationProgress
<1> DEFINE first == InterruptedEvents(c, listed, reason)
           evs == first \o last
<1>3. /\ UNCHANGED <<settings, preprocessing, order, past, received, approved,
                     selected, active, queries>>
      /\ stream' = [stream EXCEPT ![c] = NoStream] /\ resume' = [resume EXCEPT ![c] = FALSE]
      /\ stopped' = [stopped EXCEPT ![c] = @ \/ reason = "Cancelled"]
  BY DEF CancelConversationProgress, ResumeAborted
<1>4. v \in Ceased(c, reason)
  BY <1>1, InterruptedCeases
<1>5. /\ evs \in SpeaksOf(c, ExecutingIn(c), reason)
      /\ status[c] = "Error" => Elems(evs) = {}
      /\ first \in Seq(ControllerEvent)
  BY <1>1, InterruptedSpeaks
<1>6. Commit(c, v, effects \o first, ExecutingOutside(D))
  BY <1>2
<1>7. last \in Seq(ControllerEvent) /\ v \in View
  <2> HIDE DEF v
  <2>1. last \in SpeaksOf(c, {}, reason)
    BY <1>4, CeasedSpeaks
  <2> HIDE DEF last
  <2> QED BY <1>4, <2>1 DEF Ceased, SpeaksOf
<1> HIDE DEF first, v
<1>8. evs \in Seq(ControllerEvent) /\ effects' = effects \o evs
  <2>1. effects' = (effects \o first) \o last
    BY <1>6 DEF Commit
  <2> HIDE DEF last
  <2> QED BY <1>1, <1>5, <1>7, <2>1
<1> HIDE DEF last, evs
<1>9. /\ pending' = [pending EXCEPT ![c] = v.pending]
      /\ running' = [running EXCEPT ![c] = v.running]
      /\ finished' = [finished EXCEPT ![c] = v.finished]
      /\ status' = [status EXCEPT ![c] = v.status]
      /\ executing' = ExecutingOutside(D)
  BY <1>4, <1>6 DEF Commit, Ceased, ExecutingOutside
<1>10. ModelTypeOK' /\ effects' \in Seq(ControllerEvent)
  <2>1. effects \o first \in Seq(ControllerEvent)
    BY <1>1, <1>5
  <2>2. ExecutingOutside(D) \in [ActionIds -> Conversations \cup {NoConv}]
    BY <1>1 DEF ModelTypeOK, ExecutingOutside
  <2>3. /\ preprocessing' \in [Conversations -> Seq(Entry)]
        /\ received' \in [Conversations -> SUBSET ActionIds] /\ approved' \subseteq ActionIds
    BY <1>1, <1>3 DEF ModelTypeOK
  <2> QED BY <1>1, <1>3, <1>6, <1>7, <2>1, <2>2, <2>3, ControllerExtends, CommitType
<1>11. TurnTypeOK'
  BY <1>1, <1>3 DEF TurnTypeOK, NoStream, Streams, StreamPhases
<1>12. /\ AnsweredFor(c, evs) = ExecutingIn(c) /\ AnsweredOnce(c, evs)
       /\ \A e \in Elems(evs) : e.conv = c /\ (e.type = "StreamCancelled" => ~e.resumes)
       /\ \A d : d # c => AnsweredFor(d, evs) = {} /\ AnsweredOnce(d, evs)
  BY <1>5, SpeaksOfOthers DEF SpeaksOf
<1>13. /\ running' = running
       /\ pending'[c] = v.pending /\ finished'[c] = v.finished /\ status'[c] = v.status
       /\ \A d \in Conversations : d # c =>
             pending'[d] = pending[d] /\ finished'[d] = finished[d] /\ status'[d] = status[d]
  <2>1. v.running = running[c]
    BY <1>4 DEF Ceased
  <2> QED BY <1>1, <1>9, <2>1 DEF ModelTypeOK
<1>14. CeasesIn(c, evs)
  <2>1. c \in D \/ ExecutingIn(c) = {}
    BY <1>1, UserActs
  <2> QED BY <1>4, <1>9, <1>12, <1>13, <2>1, CeasedCeases
<1>15. \A d \in Conversations : d # c => Spares(d, evs)
  <2>1. \A d \in Conversations : d # c => d \notin D
    OBVIOUS
  <2> HIDE DEF D
  <2> QED BY <1>9, <1>12, <1>13, <2>1, OthersSpared
<1>16. KnownInv' /\ SinglesInv' /\ IdentifiersInv'
  <2>1. DrainsOnly(c) /\ UNCHANGED <<preprocessing, running, received>>
    BY <1>3, <1>13 DEF DrainsOnly
  <2>2. \A d \in Conversations : CeasesIn(d, evs) \/ Spares(d, evs)
    BY <1>14, <1>15
  <2> HIDE DEF D
  <2> QED BY <1>1, <1>8, <1>9, <1>14, <2>1, <2>2, CeasesPlaced
<1>17. TurnIn(c)'
  <2>1. /\ stream'[c] = NoStream /\ resume'[c] = FALSE /\ preprocessing'[c] = <<>>
        /\ stream'[c].output = <<>> /\ ~Streaming(c)'
    BY <1>1, <1>3, UserActs DEF TurnTypeOK, NoStream, Streaming
  <2>2. status'[c] = "Error" => Elems(evs) = {}
    BY <1>4, <1>5, <1>13 DEF Ceased
  <2>3. Idle
    BY <1>1, UserActs
  <2> QED BY <1>8, <1>12, <1>14, <2>1, <2>2, <2>3, CeasesTurn
<1>18. \A d \in Conversations : d # c => LeavesAlone(d)
  <2>1. \A d \in Conversations : d # c =>
            stream'[d] = stream[d] /\ resume'[d] = resume[d] /\ stopped'[d] = stopped[d]
    BY <1>1, <1>3 DEF TurnTypeOK
  <2>2. UNCHANGED <<preprocessing, running>>
    BY <1>3, <1>13
  <2> HIDE DEF D
  <2> QED BY <1>1, <1>8, <1>9, <1>12, <1>13, <2>1, <2>2, OthersLeftAlone
<1>19. TurnInv'
  BY <1>1, <1>17, <1>18, LeftAlone DEF TurnInv
<1>20. Hushes
  <2>1. Idle /\ \A d \in Conversations : CeasesIn(d, evs) \/ Spares(d, evs)
    BY <1>1, <1>14, <1>15, UserActs
  <2>2. UNCHANGED <<preprocessing, running>>
    BY <1>3, <1>13
  <2> QED BY <1>8, <2>1, <2>2, CeasesHush
<1> QED BY <1>10, <1>11, <1>16, <1>19, <1>20 DEF InOrderNext

\* What is said of c when its stream, its running and its queued actions are cancelled.
LEMMA CancelledAllSpeaks ==
    ASSUME TurnState, NEW c \in Conversations, NEW reason \in Reasons,
           NEW listed \in Orderings(ExecutingIn(c)), NEW v \in Ceased(c, reason),
           NEW own \in SpeaksOf(c, {}, reason)
    PROVE  LET evs == own \o (CancelledEvents(c, listed, reason) \o v.events)
           IN  /\ evs \in SpeaksOf(c, ExecutingIn(c), reason)
               /\ own \in Seq(ControllerEvent) /\ v.events \in Seq(ControllerEvent)
               /\ CancelledEvents(c, listed, reason) \in Seq(ControllerEvent)
<1> DEFINE X == ExecutingIn(c)
           mid == CancelledEvents(c, listed, reason)
           last == v.events
           rest == mid \o last
           evs == own \o rest
<1>1. last \in SpeaksOf(c, {}, reason)
  BY CeasedSpeaks
<1>2. mid \in SpeaksOf(c, X, reason)
  <2>1. X \in SUBSET ActionIds
    BY DEF ExecutingIn
  <2> QED BY <2>1, CancelledSpeaks
<1> HIDE DEF mid, last, X
<1>3. rest \in SpeaksOf(c, X \cup {}, reason)
  BY <1>1, <1>2, SpeaksOfConcat
<1>4. X \cup {} = X /\ {} \cup X = X
  OBVIOUS
<1> HIDE DEF rest
<1>5. evs \in SpeaksOf(c, {} \cup X, reason)
  BY <1>3, <1>4, SpeaksOfConcat
<1>6. own \in Seq(ControllerEvent) /\ last \in Seq(ControllerEvent) /\ mid \in Seq(ControllerEvent)
  BY <1>1, <1>2 DEF SpeaksOf
<1> QED BY <1>4, <1>5, <1>6 DEF rest, mid, last, X

\* The view of the other conversation, or of c, that a query starts to cancel.
LEMMA ViewCeases ==
    ASSUME TurnState, NEW c \in Conversations, NEW reason \in Reasons
    PROVE  CancelPending(c, ViewOf(c), reason) \in Ceased(c, reason)
<1> DEFINE o == ViewOf(c)
<1>1. ModelTypeOK
  BY DEF TurnState, ControllerTypeOK
<1>2. /\ o \in View /\ o.pending = pending[c] /\ o.running = running[c]
      /\ o.finished = finished[c] /\ o.started = {} /\ o.events = <<>> /\ o.status = status[c]
  BY <1>1, ViewOfType DEF ViewOf
<1> HIDE DEF o
<1>3. StartsFrom(c, o)
  BY <1>2 DEF StartsFrom
<1>4. CancelPending(c, o, reason) \in Ceased(c, reason)
  BY <1>3, CancelPendingCeases
<1> QED BY <1>4 DEF o

\* fail_conversation_due_to_shell_exit.
LEMMA ShellExitsTurn ==
    ASSUME TurnState, NEW c \in Conversations, ShellExits(c)
    PROVE  InOrderNext /\ Hushes
<1>r. PICK reason : reason = "FinalizedExternally"
  OBVIOUS
<1> DEFINE D == {c}
           u == CancelPending(c, ViewOf(c), reason)
           v == [u EXCEPT !.status = "Error"]
           own == IF Streaming(c) THEN <<StreamCancelled(c, reason)>> ELSE <<>>
           last == u.events
<1>1. /\ MayAct(c) /\ reason \in Reasons /\ status[c] = "InProgress"
      /\ ModelTypeOK /\ effects \in Seq(ControllerEvent)
      /\ TurnTypeOK /\ (\A d \in Conversations : TurnIn(d))
      /\ PlacedState(ControllerEvent)
  BY <1>r DEF ShellExits, TurnState, ControllerTypeOK, TurnInv
<1>2. PICK listed \in Orderings(ExecutingIn(c)) :
          Commit(c, v, effects \o own \o CancelledEvents(c, listed, reason), ExecutingOutside(D))
  <2>1. stream[c].phase # "Completed"
    BY <1>1, UserActs
  <2> QED BY <1>r, <2>1 DEF ShellExits
<1> DEFINE mid == CancelledEvents(c, listed, reason)
           first == own \o mid
           evs == own \o (mid \o last)
<1>3. /\ UNCHANGED <<settings, preprocessing, order, past, received, approved,
                     selected, active, resume, stopped, queries>>
      /\ stream' = [stream EXCEPT ![c] = NoStream]
  BY DEF ShellExits
<1>4. u \in Ceased(c, reason)
  BY <1>1, ViewCeases
<1>5. own \in SpeaksOf(c, {}, reason)
  BY <1>1, UserActs, StreamCancelledSpeaks, SpeaksNothing
<1> HIDE DEF own, u
<1>6. /\ evs \in SpeaksOf(c, ExecutingIn(c), reason)
      /\ own \in Seq(ControllerEvent) /\ u.events \in Seq(ControllerEvent)
      /\ mid \in Seq(ControllerEvent)
  BY <1>1, <1>4, <1>5, CancelledAllSpeaks
<1>7. Commit(c, v, effects \o own \o mid, ExecutingOutside(D))
  BY <1>2
<1>8. /\ u \in View /\ v \in View /\ v.pending = u.pending /\ v.running = running[c]
      /\ v.finished = u.finished /\ v.started = {} /\ v.events = last /\ v.status = "Error"
  BY <1>4 DEF Ceased, View, Statuses
<1> HIDE DEF mid, v
<1>9. /\ evs \in Seq(ControllerEvent) /\ effects' = effects \o evs
      /\ effects \o own \o mid \in Seq(ControllerEvent)
  <2>1. effects' = ((effects \o own) \o mid) \o last
    BY <1>7, <1>8 DEF Commit
  <2>2. last \in Seq(ControllerEvent)
    BY <1>6
  <2> HIDE DEF last, v, D
  <2>3. /\ effects \o own \in Seq(ControllerEvent)
        /\ effects \o own \o mid = effects \o (own \o mid)
        /\ effects \o own \o mid \in Seq(ControllerEvent)
    BY <1>1, <1>6
  <2>4. evs \in Seq(ControllerEvent)
    BY <1>6, <2>2
  <2>5. ((effects \o own) \o mid) \o last = effects \o evs
    BY <1>1, <1>6, <2>2, SMTT(30)
  <2> QED BY <2>1, <2>3, <2>4, <2>5
<1> HIDE DEF last, evs
<1>10. /\ pending' = [pending EXCEPT ![c] = v.pending]
       /\ running' = [running EXCEPT ![c] = v.running]
       /\ finished' = [finished EXCEPT ![c] = v.finished]
       /\ status' = [status EXCEPT ![c] = v.status]
       /\ executing' = ExecutingOutside(D)
  BY <1>7, <1>8 DEF Commit, ExecutingOutside
<1>11. ModelTypeOK' /\ effects' \in Seq(ControllerEvent)
  <2>1. ExecutingOutside(D) \in [ActionIds -> Conversations \cup {NoConv}]
    BY <1>1 DEF ModelTypeOK, ExecutingOutside
  <2>2. /\ preprocessing' \in [Conversations -> Seq(Entry)]
        /\ received' \in [Conversations -> SUBSET ActionIds] /\ approved' \subseteq ActionIds
    BY <1>1, <1>3 DEF ModelTypeOK
  <2> QED BY <1>1, <1>3, <1>7, <1>8, <1>9, <2>1, <2>2, ControllerExtends, CommitType
<1>12. TurnTypeOK'
  BY <1>1, <1>3 DEF TurnTypeOK, NoStream, Streams, StreamPhases
<1>13. /\ AnsweredFor(c, evs) = ExecutingIn(c) /\ AnsweredOnce(c, evs)
       /\ \A e \in Elems(evs) :
              e.conv = c /\ e.reason = reason /\ (e.type = "StreamCancelled" => ~e.resumes)
       /\ \A d : d # c => AnsweredFor(d, evs) = {} /\ AnsweredOnce(d, evs)
  BY <1>6, SpeaksOfOthers DEF SpeaksOf
<1>14. /\ running' = running
       /\ pending'[c] = u.pending /\ finished'[c] = u.finished
       /\ \A d \in Conversations : d # c =>
             pending'[d] = pending[d] /\ finished'[d] = finished[d] /\ status'[d] = status[d]
  BY <1>1, <1>8, <1>10 DEF ModelTypeOK
<1>15. CeasesIn(c, evs)
  BY <1>4, <1>10, <1>13, <1>14, CeasedCeases
<1>16. \A d \in Conversations : d # c => Spares(d, evs)
  <2>1. \A d \in Conversations : d # c => d \notin D
    OBVIOUS
  <2> HIDE DEF D
  <2> QED BY <1>10, <1>13, <1>14, <2>1, OthersSpared
<1>17. KnownInv' /\ SinglesInv' /\ IdentifiersInv'
  <2>1. DrainsOnly(c) /\ UNCHANGED <<preprocessing, running, received>>
    BY <1>3, <1>14 DEF DrainsOnly
  <2>2. \A d \in Conversations : CeasesIn(d, evs) \/ Spares(d, evs)
    BY <1>15, <1>16
  <2> HIDE DEF D
  <2> QED BY <1>1, <1>9, <1>10, <1>15, <2>1, <2>2, CeasesPlaced
<1>18. TurnIn(c)'
  <2>1. /\ stream'[c].output = <<>> /\ ~Streaming(c)' /\ preprocessing'[c] = <<>>
    BY <1>1, <1>3, UserActs DEF TurnTypeOK, NoStream, Streaming
  <2>2. stopped'[c] => ~resume'[c]
    BY <1>1, <1>3 DEF TurnIn
  <2>3. Idle
    BY <1>1, UserActs
  <2> QED BY <1>r, <1>9, <1>13, <1>15, <2>1, <2>2, <2>3, CeasesTurn
<1>19. \A d \in Conversations : d # c => LeavesAlone(d)
  <2>1. \A d \in Conversations : d # c =>
            stream'[d] = stream[d] /\ resume'[d] = resume[d] /\ stopped'[d] = stopped[d]
    BY <1>1, <1>3 DEF TurnTypeOK
  <2>2. UNCHANGED <<preprocessing, running>>
    BY <1>3, <1>14
  <2> HIDE DEF D
  <2> QED BY <1>1, <1>9, <1>10, <1>13, <1>14, <2>1, <2>2, OthersLeftAlone
<1>20. TurnInv'
  BY <1>1, <1>18, <1>19, LeftAlone DEF TurnInv
<1>21. Hushes
  <2>1. Idle /\ \A d \in Conversations : CeasesIn(d, evs) \/ Spares(d, evs)
    BY <1>1, <1>15, <1>16, UserActs
  <2>2. UNCHANGED <<preprocessing, running>>
    BY <1>3, <1>14
  <2> QED BY <1>9, <2>1, <2>2, CeasesHush
<1> QED BY <1>11, <1>12, <1>17, <1>20, <1>21 DEF InOrderNext

\* What is said of the conversation p that a query leaves; nothing if the query is for it.
LEMMA SupersededSpeaks ==
    ASSUME TurnState, NEW c, NEW p \in Conversations, NEW reason \in Reasons,
           p # c => MayAct(p), NEW other,
           p # c => other \in Orderings(InterruptedActions(p)), NEW before,
           before = IF p = c THEN <<>>
                    ELSE InterruptedEvents(p, other, reason) \o Interrupted(p, reason).events
    PROVE  /\ before \in SpeaksOf(p, IF p = c THEN {} ELSE ExecutingIn(p), reason)
           /\ status[p] = "Error" => Elems(before) = {}
<1>1. CASE p = c
  <2>1. Elems(<<>>) = {}
    BY DEF Elems
  <2> QED BY <1>1, <2>1, SpeaksNothing
<1>2. CASE p # c
  BY <1>2, InterruptedSpeaks
<1> QED BY <1>1, <1>2

\* What is said of two conversations, one after the other.
LEMMA TwoSpeak ==
    ASSUME NEW c, NEW p, NEW A, NEW B, NEW reason,
           NEW s \in SpeaksOf(p, A, reason), NEW t \in SpeaksOf(c, B, reason),
           p = c => A = {}
    PROVE  /\ s \o t \in Seq(ControllerEvent)
           /\ AnsweredFor(c, s \o t) = B /\ AnsweredOnce(c, s \o t)
           /\ p # c => AnsweredFor(p, s \o t) = A /\ AnsweredOnce(p, s \o t)
           /\ \A d : d \notin {p, c} => AnsweredFor(d, s \o t) = {} /\ AnsweredOnce(d, s \o t)
           /\ \A e \in Elems(s \o t) :
                  /\ e.conv \in {p, c} /\ (e.type = "StreamCancelled" => ~e.resumes)
                  /\ e.conv # c => e \in Elems(s)
<1>1. /\ s \in Seq(ControllerEvent) /\ t \in Seq(ControllerEvent)
      /\ AnsweredFor(p, s) = A /\ AnsweredFor(c, t) = B
      /\ AnsweredOnce(p, s) /\ AnsweredOnce(c, t)
  BY DEF SpeaksOf
<1>2. /\ \A d : d # p => AnsweredFor(d, s) = {} /\ AnsweredOnce(d, s)
      /\ \A d : d # c => AnsweredFor(d, t) = {} /\ AnsweredOnce(d, t)
  BY SpeaksOfOthers
<1> DEFINE u == s \o t
<1>3. u \in Seq(ControllerEvent) /\ Elems(u) = Elems(s) \cup Elems(t)
  BY <1>1, ConcatElems
<1>4. \A d : AnsweredFor(d, u) = AnsweredFor(d, s) \cup AnsweredFor(d, t)
  BY <1>1, AnswersForConcat
<1>5. \A d : (/\ AnsweredOnce(d, s) /\ AnsweredOnce(d, t)
              /\ AnsweredFor(d, s) \cap AnsweredFor(d, t) = {}) => AnsweredOnce(d, u)
  BY <1>1, AnswersForConcat
<1> HIDE DEF u
<1>6. AnsweredFor(c, u) = B /\ AnsweredOnce(c, u)
  <2>1. AnsweredFor(c, s) = {} /\ AnsweredOnce(c, s)
    BY <1>1, <1>2
  <2> QED BY <1>1, <1>4, <1>5, <2>1
<1>7. p # c => AnsweredFor(p, u) = A /\ AnsweredOnce(p, u)
  <2>1. p # c => AnsweredFor(p, t) = {} /\ AnsweredOnce(p, t)
    BY <1>2
  <2> QED BY <1>1, <1>4, <1>5, <2>1
<1>8. \A d : d \notin {p, c} => AnsweredFor(d, u) = {} /\ AnsweredOnce(d, u)
  BY <1>2, <1>4, <1>5
<1>9. \A e \in Elems(u) :
          /\ e.conv \in {p, c} /\ (e.type = "StreamCancelled" => ~e.resumes)
          /\ e.conv # c => e \in Elems(s)
  BY <1>3 DEF SpeaksOf
<1> QED BY <1>3, <1>6, <1>7, <1>8, <1>9 DEF u

(***************************************************************************)
(* What send_query to c does to the state, when p is active: v is the view *)
(* of c, w that of p.                                                      *)
(***************************************************************************)
Sends(c, p, refused, v, w, D) ==
    /\ selected = c /\ MayAct(c) /\ (p # c => MayAct(p))
    /\ pending' = [d \in Conversations |->
           IF d = c THEN v.pending ELSE IF d = p THEN w.pending ELSE pending[d]]
    /\ executing' = ExecutingOutside(D)
    /\ finished' = [d \in Conversations |->
           IF d = c THEN <<>> ELSE IF d = p THEN w.finished ELSE finished[d]]
    /\ past' = past \cup IdsOf(v.finished)
    /\ order' = [order EXCEPT ![c] = <<>>]
    /\ status' = [d \in Conversations |->
           IF d = c THEN IF refused THEN v.status ELSE "InProgress"
           ELSE IF d = p THEN w.status ELSE status[d]]
    /\ stream' = [d \in Conversations |->
           IF d = c THEN IF refused THEN stream[c] ELSE Opened(TRUE)
           ELSE IF d = p THEN NoStream ELSE stream[d]]
    /\ resume' = [d \in Conversations |-> resume[d] /\ d \notin {c, p}]
    /\ active' = IF refused THEN p ELSE c
    /\ stopped' = [d \in Conversations |->
           IF d = c THEN stopped[c] /\ refused ELSE stopped[d] \/ d = p]
    /\ queries' = [queries EXCEPT ![c] = @ + 1]
    /\ UNCHANGED <<settings, preprocessing, running, futures, received, approved, selected>>

\* The events it emits: those of p, the end of the stream of c and those of its actions.
Emits(c, p, reason, own, v, w) ==
    \E listed \in Orderings(ExecutingIn(c)) : \E other, before :
        /\ p # c => other \in Orderings(InterruptedActions(p))
        /\ before = IF p = c THEN <<>>
                    ELSE InterruptedEvents(p, other, reason) \o w.events
        /\ effects' = effects \o before \o own \o CancelledEvents(c, listed, reason) \o v.events

\* send_query by its parts.
LEMMA SendQueryForm ==
    ASSUME NEW c \in Conversations, SendQuery(c), NEW p, p = active, NEW reason,
           reason = QueryReason(c), NEW refused \in BOOLEAN,
           refused = (Streaming(c) /\ p # c), NEW own,
           own = IF Streaming(c) /\ ~refused THEN <<StreamCancelled(c, reason)>> ELSE <<>>,
           NEW v, v = CancelPending(c, ViewOf(c), reason),
           NEW w, w = Interrupted(p, reason),
           NEW D, D = {c} \cup {d \in {p} \ {c} : ~Streaming(d)}
    PROVE  Sends(c, p, refused, v, w, D) /\ Emits(c, p, reason, own, v, w)
<1> DEFINE others == {p} \ {c}
           view == [d \in {c} \cup others |->
                       IF d = c THEN CancelPending(c, ViewOf(c), reason)
                                ELSE Interrupted(d, reason)]
<1>1. /\ DOMAIN view = {c, p} /\ view[c] = v /\ (p # c => view[p] = w)
      /\ \A d : d \in others <=> d = p /\ d # c
  OBVIOUS
<1>2. /\ selected = c /\ \A d \in {c} \cup others : MayAct(d)
      /\ \E listed \in Orderings(ExecutingIn(c)),
            other \in {<<>>} \cup UNION {Orderings(InterruptedActions(d)) : d \in others} :
          /\ Elems(other) = UNION {InterruptedActions(d) : d \in others}
          /\ effects' = effects \o (IF others = {} THEN <<>>
                                    ELSE InterruptedEvents(p, other, reason) \o view[p].events)
                                \o own \o CancelledEvents(c, listed, reason) \o view[c].events
  BY DEF SendQuery
<1>3. /\ pending' = [d \in Conversations |->
                        IF d \in DOMAIN view THEN view[d].pending ELSE pending[d]]
      /\ executing' = ExecutingOutside({c} \cup {d \in others : ~Streaming(d)})
      /\ finished' = [d \in Conversations |->
                         IF d = c THEN <<>>
                         ELSE IF d \in others THEN view[d].finished ELSE finished[d]]
      /\ past' = past \cup {view[c].finished[i].id : i \in DOMAIN view[c].finished}
      /\ order' = [order EXCEPT ![c] = <<>>]
      /\ status' = [d \in Conversations |->
                       IF d \notin DOMAIN view THEN status[d]
                       ELSE IF d = c /\ ~refused THEN "InProgress" ELSE view[d].status]
      /\ stream' = [d \in Conversations |->
                       IF d \in others THEN NoStream
                       ELSE IF d = c /\ ~refused THEN Opened(TRUE) ELSE stream[d]]
  BY DEF SendQuery
<1>4. /\ resume' = [d \in Conversations |-> resume[d] /\ d \notin DOMAIN view]
      /\ active' = IF refused THEN p ELSE c
      /\ stopped' = [d \in Conversations |->
                        IF d = c THEN stopped[c] /\ refused ELSE stopped[d] \/ d \in others]
      /\ queries' = [queries EXCEPT ![c] = @ + 1]
      /\ UNCHANGED <<settings, preprocessing, running, futures, received, approved, selected>>
  BY DEF SendQuery
<1> HIDE DEF view
<1>5. Emits(c, p, reason, own, v, w)
  <2>1. PICK listed \in Orderings(ExecutingIn(c)),
             other \in {<<>>} \cup UNION {Orderings(InterruptedActions(d)) : d \in others} :
          /\ Elems(other) = UNION {InterruptedActions(d) : d \in others}
          /\ effects' = effects \o (IF others = {} THEN <<>>
                                    ELSE InterruptedEvents(p, other, reason) \o view[p].events)
                                \o own \o CancelledEvents(c, listed, reason) \o view[c].events
    BY <1>2
  <2>2. p # c => other \in Orderings(InterruptedActions(p))
    <3>1. SUFFICES ASSUME p # c PROVE other \in Orderings(InterruptedActions(p))
      OBVIOUS
    <3>2. others = {p}
      BY <3>1
    <3>3. Elems(other) = InterruptedActions(p)
      BY <2>1, <3>2
    <3>4. CASE other = <<>>
      <4>1. InterruptedActions(p) = {}
        BY <3>3, <3>4 DEF Elems
      <4>2. Cardinality({}) = 0 /\ Injective(<<>>) /\ <<>> \in [1..0 -> {}]
        BY FS_EmptySet DEF Injective
      <4> QED BY <3>4, <4>1, <4>2 DEF Orderings
    <3> QED BY <2>1, <3>2, <3>4
  <2> DEFINE before == IF p = c THEN <<>> ELSE InterruptedEvents(p, other, reason) \o w.events
  <2>3. effects' = effects \o before \o own \o CancelledEvents(c, listed, reason) \o v.events
    BY <1>1, <2>1
  <2> QED BY <2>2, <2>3 DEF Emits
<1>6. past' = past \cup IdsOf(v.finished)
  BY <1>1, <1>3 DEF IdsOf
<1>7. /\ pending' = [d \in Conversations |->
             IF d = c THEN v.pending ELSE IF d = p THEN w.pending ELSE pending[d]]
      /\ finished' = [d \in Conversations |->
             IF d = c THEN <<>> ELSE IF d = p THEN w.finished ELSE finished[d]]
      /\ status' = [d \in Conversations |->
             IF d = c THEN IF refused THEN v.status ELSE "InProgress"
             ELSE IF d = p THEN w.status ELSE status[d]]
  BY <1>1, <1>3
<1>8. /\ stream' = [d \in Conversations |->
             IF d = c THEN IF refused THEN stream[c] ELSE Opened(TRUE)
             ELSE IF d = p THEN NoStream ELSE stream[d]]
      /\ resume' = [d \in Conversations |-> resume[d] /\ d \notin {c, p}]
      /\ stopped' = [d \in Conversations |->
             IF d = c THEN stopped[c] /\ refused ELSE stopped[d] \/ d = p]
  BY <1>1, <1>3, <1>4
<1>9. MayAct(c) /\ (p # c => MayAct(p)) /\ selected = c
  BY <1>2
<1>10. D = {c} \cup {d \in others : ~Streaming(d)}
  OBVIOUS
<1> HIDE DEF others
<1> QED BY <1>3, <1>4, <1>5, <1>6, <1>7, <1>8, <1>9, <1>10 DEF Sends

\* send_query leaves the types right.
LEMMA SendQueryType ==
    ASSUME TurnState, NEW c \in Conversations, SendQuery(c), ReasonsComplete,
           effects' \in Seq(ControllerEvent)
    PROVE  ModelTypeOK' /\ TurnTypeOK'
<1>r. PICK reason, p : reason = QueryReason(c) /\ p = active
  OBVIOUS
<1>d. PICK refused \in BOOLEAN : refused = (Streaming(c) /\ p # c)
  OBVIOUS
<1>v. PICK v, w : v = CancelPending(c, ViewOf(c), reason) /\ w = Interrupted(p, reason)
  OBVIOUS
<1>D. PICK D : D = {c} \cup {d \in {p} \ {c} : ~Streaming(d)}
  OBVIOUS
<1>o. PICK own : own = IF Streaming(c) /\ ~refused THEN <<StreamCancelled(c, reason)>> ELSE <<>>
  OBVIOUS
<1>1. ModelTypeOK /\ TurnTypeOK /\ reason \in Reasons
  BY <1>r DEF TurnState, ControllerTypeOK, QueryReason, ReasonsComplete
<1>2. Sends(c, p, refused, v, w, D)
  BY <1>r, <1>d, <1>v, <1>D, <1>o, SendQueryForm
<1>3. p \in Conversations
  BY <1>1, <1>2, <1>r DEF Sends, TurnTypeOK
<1>4. v \in View /\ w \in View
  <2>1. v \in Ceased(c, reason) /\ w \in Ceased(p, reason)
    BY <1>1, <1>3, <1>v, ViewCeases, InterruptedCeases
  <2> QED BY <2>1 DEF Ceased
<1>5. ModelTypeOK'
  <2>1. /\ pending' \in [Conversations -> Seq(ActionIds)]
        /\ finished' \in [Conversations -> Seq(Result)]
        /\ status' \in [Conversations -> Statuses]
    <3>1. <<>> \in Seq(Result) /\ "InProgress" \in Statuses
      BY DEF Statuses
    <3> QED BY <1>1, <1>2, <1>4, <3>1 DEF Sends, ModelTypeOK, View
  <2>2. executing' \in [ActionIds -> Conversations \cup {NoConv}]
    BY <1>1, <1>2 DEF Sends, ModelTypeOK, ExecutingOutside
  <2>3. past' \subseteq ActionIds
    <3>1. v.finished \in Seq(Result)
      BY <1>4 DEF View
    <3>2. \A i \in DOMAIN v.finished : v.finished[i] \in Result
      BY <3>1
    <3>3. \A i \in DOMAIN v.finished : v.finished[i].id \in ActionIds
      BY <3>2 DEF Result
    <3> QED BY <1>1, <1>2, <3>3 DEF Sends, ModelTypeOK, IdsOf
  <2>4. order' \in [Conversations -> Seq(ActionIds)]
    <3>1. <<>> \in Seq(ActionIds)
      OBVIOUS
    <3> QED BY <1>1, <1>2, <3>1 DEF Sends, ModelTypeOK
  <2> QED BY <1>1, <1>2, <2>1, <2>2, <2>3, <2>4 DEF Sends, ModelTypeOK
<1>6. TurnTypeOK'
  <2>1. NoStream \in Streams /\ Opened(TRUE) \in Streams
        /\ NoStream.output = <<>> /\ Opened(TRUE).output = <<>>
    BY DEF NoStream, Opened, Streams, StreamPhases
  <2>2. /\ stream' \in [Conversations -> Streams]
        /\ \A d \in Conversations : stream'[d].output \in Outputs[d] \cup {<<>>}
    BY <1>1, <1>2, <2>1 DEF Sends, TurnTypeOK
  <2>3. resume' \in [Conversations -> BOOLEAN] /\ stopped' \in [Conversations -> BOOLEAN]
    <3>1. \A d \in Conversations :
              /\ (resume[d] /\ d \notin {c, p}) \in BOOLEAN
              /\ (IF d = c THEN stopped[c] /\ refused ELSE stopped[d] \/ d = p) \in BOOLEAN
      BY <1>1, <1>d DEF TurnTypeOK
    <3> QED BY <1>2, <3>1 DEF Sends
  <2>4. queries' \in [Conversations -> Nat]
    BY <1>1, <1>2 DEF Sends, TurnTypeOK
  <2> QED BY <1>1, <1>2, <1>3, <2>2, <2>3, <2>4 DEF Sends, TurnTypeOK
<1> QED BY <1>5, <1>6

\* send_query: the conversation that is left and c cease, others are left alone.
LEMMA SendQueryTurn ==
    ASSUME TurnState, NEW c \in Conversations, SendQuery(c), ReasonsComplete
    PROVE  InOrderNext /\ Hushes
<1>r. PICK reason, p : reason = QueryReason(c) /\ p = active
  OBVIOUS
<1>d. PICK refused \in BOOLEAN : refused = (Streaming(c) /\ p # c)
  OBVIOUS
<1>v. PICK v, w : v = CancelPending(c, ViewOf(c), reason) /\ w = Interrupted(p, reason)
  OBVIOUS
<1>D. PICK D : D = {c} \cup {d \in {p} \ {c} : ~Streaming(d)}
  OBVIOUS
<1>o. PICK own : own = IF Streaming(c) /\ ~refused THEN <<StreamCancelled(c, reason)>> ELSE <<>>
  OBVIOUS
<1>1. /\ ModelTypeOK /\ TurnTypeOK /\ effects \in Seq(ControllerEvent) /\ reason \in Reasons
      /\ (\A d \in Conversations : TurnIn(d)) /\ PlacedState(ControllerEvent)
  BY <1>r DEF TurnState, ControllerTypeOK, TurnInv, QueryReason, ReasonsComplete
<1>2. Sends(c, p, refused, v, w, D) /\ Emits(c, p, reason, own, v, w)
  BY <1>r, <1>d, <1>v, <1>D, <1>o, SendQueryForm
<1>3. p \in Conversations /\ MayAct(c) /\ (p # c => MayAct(p))
  BY <1>1, <1>2, <1>r DEF TurnTypeOK, Sends
<1>4. v \in Ceased(c, reason) /\ w \in Ceased(p, reason)
  BY <1>1, <1>3, <1>v, ViewCeases, InterruptedCeases
<1>l. PICK listed \in Orderings(ExecutingIn(c)) : \E other, before :
          /\ p # c => other \in Orderings(InterruptedActions(p))
          /\ before = IF p = c THEN <<>>
                      ELSE InterruptedEvents(p, other, reason) \o w.events
          /\ effects' = effects \o before \o own \o CancelledEvents(c, listed, reason)
                            \o v.events
  BY <1>2 DEF Emits
<1>5. PICK other, before :
          /\ p # c => other \in Orderings(InterruptedActions(p))
          /\ before = IF p = c THEN <<>>
                      ELSE InterruptedEvents(p, other, reason) \o w.events
          /\ effects' = effects \o before \o own \o CancelledEvents(c, listed, reason)
                            \o v.events
  BY <1>l
<1> DEFINE mid == CancelledEvents(c, listed, reason)
           last == v.events
           rest == own \o (mid \o last)
           A == IF p = c THEN {} ELSE ExecutingIn(p)
           evs == before \o rest
<1>6. own \in SpeaksOf(c, {}, reason)
  BY <1>1, <1>3, <1>o, UserActs, StreamCancelledSpeaks, SpeaksNothing
<1>7. /\ before \in SpeaksOf(p, A, reason)
      /\ status[p] = "Error" => Elems(before) = {}
  BY <1>1, <1>3, <1>5, <1>v, SupersededSpeaks
<1>8. /\ rest \in SpeaksOf(c, ExecutingIn(c), reason)
      /\ own \in Seq(ControllerEvent) /\ v.events \in Seq(ControllerEvent)
      /\ CancelledEvents(c, listed, reason) \in Seq(ControllerEvent)
  BY <1>1, <1>4, <1>6, CancelledAllSpeaks
<1>9. before \in Seq(ControllerEvent)
  BY <1>7 DEF SpeaksOf
<1>10. effects' = effects \o evs
  <2>1. effects' = (((effects \o before) \o own) \o mid) \o last
    BY <1>5
  <2>2. last \in Seq(ControllerEvent) /\ mid \in Seq(ControllerEvent)
    BY <1>8
  <2> HIDE DEF mid, last
  <2>3. (((effects \o before) \o own) \o mid) \o last = ((effects \o before) \o own) \o (mid \o last)
    BY <1>1, <1>8, <1>9, <2>2, SMTT(30)
  <2> DEFINE more == mid \o last
  <2>4. more \in Seq(ControllerEvent)
    BY <2>2
  <2> HIDE DEF more
  <2>5. ((effects \o before) \o own) \o more = effects \o (before \o (own \o more))
    BY <1>1, <1>8, <1>9, <2>4, SMTT(30)
  <2> QED BY <2>1, <2>3, <2>5 DEF more
<1> HIDE DEF rest, A
<1>11. /\ evs \in Seq(ControllerEvent)
       /\ AnsweredFor(c, evs) = ExecutingIn(c) /\ AnsweredOnce(c, evs)
       /\ p # c => AnsweredFor(p, evs) = A /\ AnsweredOnce(p, evs)
       /\ \A d : d \notin {p, c} => AnsweredFor(d, evs) = {} /\ AnsweredOnce(d, evs)
       /\ \A e \in Elems(evs) :
              /\ e.conv \in {p, c} /\ (e.type = "StreamCancelled" => ~e.resumes)
              /\ e.conv # c => e \in Elems(before)
  <2>1. p = c => A = {}
    BY DEF A
  <2> QED BY <1>7, <1>8, <2>1, TwoSpeak
<1> HIDE DEF evs
<1>12. effects' \in Seq(ControllerEvent)
  BY <1>1, <1>10, <1>11
<1>13. ModelTypeOK' /\ TurnTypeOK'
  BY <1>12, SendQueryType
<1>14. /\ pending'[c] = v.pending /\ finished'[c] = <<>>
       /\ p # c => pending'[p] = w.pending /\ finished'[p] = w.finished
       /\ \A d \in Conversations : d \notin {p, c} =>
             /\ pending'[d] = pending[d] /\ finished'[d] = finished[d]
             /\ status'[d] = status[d] /\ stream'[d] = stream[d]
             /\ resume'[d] = resume[d] /\ stopped'[d] = stopped[d]
       /\ executing' = ExecutingOutside(D)
       /\ UNCHANGED <<preprocessing, running, received>>
  <2>1. \A d \in Conversations : d \notin {p, c} => resume'[d] = resume[d] /\ stopped'[d] = stopped[d]
    <3>1. \A d \in Conversations : resume[d] \in BOOLEAN /\ stopped[d] \in BOOLEAN
      BY <1>1 DEF TurnTypeOK
    <3>2. \A d \in Conversations : d \notin {p, c} =>
              resume'[d] = (resume[d] /\ TRUE) /\ stopped'[d] = (stopped[d] \/ FALSE)
      BY <1>2 DEF Sends
    <3> QED BY <3>1, <3>2
  <2> QED BY <1>2, <1>3, <2>1 DEF Sends
<1>15. CeasesIn(c, evs)
  <2>1. c \in D
    BY <1>D
  <2> QED BY <1>4, <1>11, <1>14, <2>1, CeasedCeases
<1>16. p # c => CeasesIn(p, evs)
  <2>1. SUFFICES ASSUME p # c PROVE CeasesIn(p, evs)
    OBVIOUS
  <2>2. p \in D \/ ExecutingIn(p) = {}
    BY <1>3, <1>D, <2>1, UserActs
  <2>3. AnsweredFor(p, evs) = ExecutingIn(p)
    BY <1>11, <2>1 DEF A
  <2> QED BY <1>3, <1>4, <1>11, <1>14, <2>1, <2>2, <2>3, CeasedCeases
<1>17. \A d \in Conversations : d \notin {p, c} => Spares(d, evs)
  <2>1. \A d \in Conversations : d \notin {p, c} => d \notin D
    BY <1>D
  <2> QED BY <1>11, <1>14, <2>1, OthersSpared
<1>18. KnownInv' /\ SinglesInv' /\ IdentifiersInv'
  <2>1. DrainsOnly(c)
    BY <1>2, <1>4, <1>14 DEF DrainsOnly, Sends, Ceased
  <2>2. \A d \in Conversations : CeasesIn(d, evs) \/ Spares(d, evs)
    BY <1>15, <1>16, <1>17
  <2> QED BY <1>1, <1>10, <1>11, <1>14, <1>15, <2>1, <2>2, CeasesPlaced
<1>19. Idle
  BY <1>3, UserActs
<1>20. TurnIn(c)'
  <2>1. /\ stream'[c] = IF refused THEN stream[c] ELSE Opened(TRUE)
        /\ status'[c] = IF refused THEN v.status ELSE "InProgress"
        /\ ~resume'[c] /\ (stopped'[c] => stopped[c] /\ refused)
    BY <1>2 DEF Sends
  <2>2. refused => Streaming(c)
    BY <1>d
  <2>3. Streaming(c) => status[c] # "Error" /\ ~stopped[c]
    BY <1>1, <1>3, UserActs DEF TurnIn
  <2>4. ~stopped'[c] /\ status'[c] # "Error"
    BY <1>4, <2>1, <2>2, <2>3 DEF Ceased
  <2>5. stream'[c].output = <<>>
    BY <1>3, <2>1, UserActs DEF Opened
  <2>6. preprocessing'[c] = <<>>
    BY <1>3, <1>14, UserActs
  <2> QED BY <1>10, <1>11, <1>15, <1>19, <2>1, <2>4, <2>5, <2>6, CeasesTurn
<1>21. p # c => TurnIn(p)'
  <2>1. SUFFICES ASSUME p # c PROVE TurnIn(p)'
    OBVIOUS
  <2>2. stream'[p] = NoStream /\ status'[p] = w.status /\ ~resume'[p]
    BY <1>2, <1>3, <2>1 DEF Sends
  <2>3. stream'[p].output = <<>> /\ ~Streaming(p)'
    BY <2>2 DEF NoStream, Streaming
  <2>4. preprocessing'[p] = <<>>
    BY <1>3, <1>14, <2>1, UserActs
  <2>5. status'[p] = "Error" => \A e \in Elems(evs) : e.conv # p
    BY <1>4, <1>7, <1>11, <2>1, <2>2 DEF Ceased
  <2>6. CeasesIn(p, evs)
    BY <1>16, <2>1
  <2> QED BY <1>3, <1>10, <1>11, <1>19, <2>2, <2>3, <2>4, <2>5, <2>6, CeasesTurn
<1>22. \A d \in Conversations : d \notin {p, c} => LeavesAlone(d)
  <2>1. \A d \in Conversations : d \notin {p, c} => \A e \in Elems(evs) : e.conv # d
    BY <1>11
  <2> QED BY <1>1, <1>10, <1>11, <1>14, <2>1, OthersLeftAlone
<1>23. TurnInv'
  <2>1. \A d \in Conversations : TurnIn(d)'
    BY <1>1, <1>3, <1>20, <1>21, <1>22, LeftAlone
  <2> QED BY <2>1 DEF TurnInv
<1>24. Hushes
  <2>1. \A d \in Conversations : CeasesIn(d, evs) \/ Spares(d, evs)
    BY <1>15, <1>16, <1>17
  <2> QED BY <1>10, <1>11, <1>14, <1>19, <2>1, CeasesHush
<1> QED BY <1>12, <1>13, <1>18, <1>23, <1>24 DEF InOrderNext

\* What holds in a TurnState, by its parts.
LEMMA TurnStateParts ==
    ASSUME TurnState
    PROVE  /\ ModelTypeOK /\ effects \in Seq(ControllerEvent) /\ TurnTypeOK
           /\ KnownState(ControllerEvent) /\ PlacedState(ControllerEvent)
           /\ KnownInv /\ SinglesInv /\ IdentifiersInv /\ TurnInv
           /\ \A c \in Conversations : TurnIn(c)
           /\ \A d \in Conversations : AnsweredOnce(d, effects)
BY DEF TurnState, ControllerTypeOK, PlacedState, KnownState, TurnInv, SinglesInv, SingleIn

\* The types of the controller's own variables, when they are not touched.
LEMMA StreamVarsType ==
    ASSUME TurnTypeOK, UNCHANGED streamVars PROVE TurnTypeOK'
BY DEF TurnTypeOK, streamVars

\* What the user and the executor do to the actions of c is a step of the action model.
LEMMA ActionStepInOrder ==
    ASSUME TurnState, NEW c \in Conversations, ActionStep(c)
    PROVE  InOrderNext
<1>1. ConversationNext(c)
  BY DEF ActionStep, ConversationNext, UserReasons
<1>2. UNCHANGED streamVars
  BY DEF ActionStep
<1>3. TurnTypeOK'
  BY <1>2, TurnStateParts, StreamVarsType
<1>4. ModelTypeOK' /\ effects' \in Seq(ControllerEvent)
  BY <1>1, TurnStateParts, ControllerExtends, ConversationType
<1>5. KnownInv'
  BY <1>1, TurnStateParts, ConversationKnown
<1>6. SinglesInv' /\ IdentifiersInv'
  BY <1>1, TurnStateParts, ConversationSingles
<1>7. TurnInv'
  BY ActionStepTurn
<1> QED BY <1>3, <1>4, <1>5, <1>6, <1>7 DEF InOrderNext

\* Steps of the controller that move no action.
LEMMA ActionsUnmoved ==
    ASSUME TurnState,
           UNCHANGED <<preprocessing, pending, running, executing, finished, past, effects, received>>
    PROVE  KnownInv' /\ SinglesInv' /\ IdentifiersInv' /\ effects' \in Seq(ControllerEvent)
BY TurnStateParts, UnchangedKnown, UnchangedSingles

\* What arrives on a stream moves no action.
LEMMA StreamedInOrder ==
    ASSUME TurnState, NEW c \in Conversations, NEW next \in Streams, NEW newStatus \in Statuses,
           next.output \in Outputs[c] \cup {<<>>}, Streamed(c, next, newStatus), TurnInv'
    PROVE  InOrderNext
<1>1. /\ stream' = [stream EXCEPT ![c] = next] /\ status' = [status EXCEPT ![c] = newStatus]
      /\ UNCHANGED <<settings, preprocessing, pending, running, executing, futures,
                     finished, order, past, effects, received, approved,
                     selected, active, resume, stopped, queries>>
  BY DEF Streamed
<1>2. ModelTypeOK'
  BY <1>1, TurnStateParts DEF ModelTypeOK
<1>3. TurnTypeOK'
  BY <1>1, TurnStateParts DEF TurnTypeOK
<1>4. KnownInv' /\ SinglesInv' /\ IdentifiersInv' /\ effects' \in Seq(ControllerEvent)
  BY <1>1, ActionsUnmoved
<1> QED BY <1>2, <1>3, <1>4 DEF InOrderNext

\* A finished stream queues the actions of its output.
LEMMA StreamEndsInOrder ==
    ASSUME TurnState, NEW c \in Conversations, StreamEnds(c)
    PROVE  InOrderNext
<1> DEFINE output == stream[c].output
<1>1. TurnTypeOK'
  <2>1. /\ stream' = [stream EXCEPT ![c] = NoStream]
        /\ resume' = [resume EXCEPT ![c] = @ \/ SchedulesResume(c)]
        /\ UNCHANGED <<selected, active, stopped, queries>>
    BY DEF StreamEnds
  <2>2. NoStream \in Streams /\ NoStream.output = <<>>
    BY DEF NoStream, Streams, StreamPhases
  <2>3. resume' \in [Conversations -> BOOLEAN]
    <3>1. (resume[c] \/ SchedulesResume(c)) \in BOOLEAN
      OBVIOUS
    <3> QED BY <2>1, <3>1, TurnStateParts DEF TurnTypeOK
  <2> QED BY <2>1, <2>2, <2>3, TurnStateParts DEF TurnTypeOK
<1>2. TurnInv'
  BY StreamEndsTurn
<1>3. CASE output # <<>>
  <2>1. QueueActions(c, output) /\ output \in Outputs[c]
    BY <1>3, TurnStateParts DEF StreamEnds, TurnTypeOK
  <2> HIDE DEF output
  <2>2. ModelTypeOK' /\ effects' \in Seq(ControllerEvent)
    BY <2>1, TurnStateParts, ControllerExtends, QueueActionsType
  <2>3. KnownInv'
    BY <2>1, TurnStateParts, QueueActionsKnown
  <2>4. SinglesInv' /\ IdentifiersInv'
    BY <2>1, TurnStateParts, QueueActionsSingles
  <2> QED BY <1>1, <1>2, <2>2, <2>3, <2>4 DEF InOrderNext
<1>4. CASE output = <<>>
  <2>1. UNCHANGED vars
    BY <1>4 DEF StreamEnds
  <2>2. ModelTypeOK'
    BY <2>1, TurnStateParts DEF vars, ModelTypeOK
  <2>3. KnownInv' /\ SinglesInv' /\ IdentifiersInv' /\ effects' \in Seq(ControllerEvent)
    BY <2>1, ActionsUnmoved DEF vars
  <2> QED BY <1>1, <1>2, <2>2, <2>3 DEF InOrderNext
<1> QED BY <1>3, <1>4

\* The steps of a stream.
LEMMA StreamStepInOrder ==
    ASSUME TurnState, NEW c \in Conversations, StreamStep(c)
    PROVE  InOrderNext
<1>1. stream[c] \in Streams /\ stream[c].output \in Outputs[c] \cup {<<>>}
      /\ status[c] \in Statuses
  BY TurnStateParts DEF TurnTypeOK, ModelTypeOK
<1>2. TurnInv'
  BY StreamStepTurn
<1>3. CASE StreamSucceeds(c)
  <2>1. PICK output \in Outputs[c] \cup {<<>>} :
            Streamed(c, [stream[c] EXCEPT !.phase = "Completed", !.output = output],
                     IF output = <<>> THEN "Success" ELSE status[c])
    BY <1>3 DEF StreamSucceeds
  <2> DEFINE next == [stream[c] EXCEPT !.phase = "Completed", !.output = output]
             s == IF output = <<>> THEN "Success" ELSE status[c]
  <2>2. output \in Seq(ActionIds)
    <3>1. <<>> \in Seq(ActionIds) /\ \A o \in Outputs[c] : o \in Seq(ActionIds)
      BY OutputsAssumption
    <3> HIDE DEF next, s
    <3> QED BY <3>1
  <2>3. next \in Streams /\ next.output \in Outputs[c] \cup {<<>>} /\ s \in Statuses
    BY <1>1, <2>1, <2>2 DEF Streams, StreamPhases, Statuses
  <2>4. Streamed(c, next, s)
    BY <2>1
  <2> HIDE DEF next, s
  <2> QED BY <1>2, <2>3, <2>4, StreamedInOrder
<1>4. CASE StreamFails(c)
  <2>1. PICK resumes \in {FALSE, stream[c].resumes} :
            Streamed(c, [stream[c] EXCEPT !.phase = "Failed", !.resumes = resumes],
                     IF resumes THEN "TransientError" ELSE "Error")
    BY <1>4 DEF StreamFails
  <2> DEFINE next == [stream[c] EXCEPT !.phase = "Failed", !.resumes = resumes]
             s == IF resumes THEN "TransientError" ELSE "Error"
  <2>2. next \in Streams /\ next.output \in Outputs[c] \cup {<<>>} /\ s \in Statuses
    BY <1>1, <2>1 DEF Streams, StreamPhases, Statuses
  <2>3. Streamed(c, next, s)
    BY <2>1
  <2> HIDE DEF next, s
  <2> QED BY <1>2, <2>2, <2>3, StreamedInOrder
<1>5. CASE NetworkIsLost(c)
  <2> DEFINE next == [stream[c] EXCEPT !.phase = "Waiting"]
  <2>1. next \in Streams /\ next.output \in Outputs[c] \cup {<<>>} /\ "TransientError" \in Statuses
    BY <1>1 DEF Streams, StreamPhases, Statuses
  <2>2. Streamed(c, next, "TransientError")
    BY <1>5 DEF NetworkIsLost
  <2> HIDE DEF next
  <2> QED BY <1>2, <2>1, <2>2, StreamedInOrder
<1>6. CASE NetworkReturns(c)
  <2> DEFINE next == [stream[c] EXCEPT !.phase = "Open"]
  <2>1. next \in Streams /\ next.output \in Outputs[c] \cup {<<>>} /\ "InProgress" \in Statuses
    BY <1>1 DEF Streams, StreamPhases, Statuses
  <2>2. Streamed(c, next, "InProgress")
    BY <1>6 DEF NetworkReturns
  <2> HIDE DEF next
  <2> QED BY <1>2, <2>1, <2>2, StreamedInOrder
<1> QED
  BY <1>3, <1>4, <1>5, <1>6, StreamEndsInOrder DEF StreamStep

\* The user changes the view, or the resume is due: no action moves.
LEMMA SelectConversationInOrder ==
    ASSUME TurnState, NEW c \in Conversations, SelectConversation(c)
    PROVE  InOrderNext
<1>1. /\ selected' = c /\ active' = c
      /\ UNCHANGED <<settings, preprocessing, pending, running, executing, futures,
                     finished, order, past, status, effects, received, approved,
                     stream, resume, stopped, queries>>
  BY DEF SelectConversation, vars
<1>2. ModelTypeOK'
  BY <1>1, TurnStateParts DEF ModelTypeOK
<1>3. TurnTypeOK'
  BY <1>1, TurnStateParts DEF TurnTypeOK
<1>4. KnownInv' /\ SinglesInv' /\ IdentifiersInv' /\ effects' \in Seq(ControllerEvent)
  BY <1>1, ActionsUnmoved
<1>5. TurnInv'
  BY <1>1, TurnStateParts, NothingTurns
<1> QED BY <1>2, <1>3, <1>4, <1>5 DEF InOrderNext

LEMMA AutoResumeInOrder ==
    ASSUME TurnState, NEW c \in Conversations, AutoResume(c)
    PROVE  InOrderNext
<1>1. /\ UNCHANGED <<settings, preprocessing, pending, running, executing, futures,
                     finished, order, past, effects, received, approved, selected, queries>>
      /\ IF Streaming(c)
         THEN resume' = ResumeAborted(c) /\ UNCHANGED <<status, stream, active, stopped>>
         ELSE /\ Request(c, FALSE)
              /\ status' = [status EXCEPT ![c] = "InProgress"]
  BY DEF AutoResume
<1>2. "InProgress" \in Statuses /\ Opened(FALSE) \in Streams /\ Opened(FALSE).output = <<>>
  BY DEF Statuses, Opened, Streams, StreamPhases
<1>3. /\ stream' = stream \/ stream' = [stream EXCEPT ![c] = Opened(FALSE)]
      /\ status' = status \/ status' = [status EXCEPT ![c] = "InProgress"]
      /\ active' = active \/ active' = c
      /\ resume' = [resume EXCEPT ![c] = FALSE]
      /\ stopped' = stopped \/ stopped' = [stopped EXCEPT ![c] = FALSE]
  BY <1>1 DEF Request, ResumeAborted
<1>4. ModelTypeOK'
  <2>1. status' \in [Conversations -> Statuses]
    BY <1>2, <1>3, TurnStateParts DEF ModelTypeOK
  <2> QED BY <1>1, <2>1, TurnStateParts DEF ModelTypeOK
<1>5. TurnTypeOK'
  <2>1. /\ stream' \in [Conversations -> Streams]
        /\ \A d \in Conversations : stream'[d].output \in Outputs[d] \cup {<<>>}
    BY <1>2, <1>3, TurnStateParts DEF TurnTypeOK
  <2>2. resume' \in [Conversations -> BOOLEAN] /\ stopped' \in [Conversations -> BOOLEAN]
    BY <1>3, TurnStateParts DEF TurnTypeOK
  <2> QED BY <1>1, <1>3, <2>1, <2>2, TurnStateParts DEF TurnTypeOK
<1>6. KnownInv' /\ SinglesInv' /\ IdentifiersInv' /\ effects' \in Seq(ControllerEvent)
  BY <1>1, ActionsUnmoved
<1> QED BY <1>4, <1>5, <1>6, AutoResumeTurn DEF InOrderNext

\* The action model handles a result.
LEMMA DeliverExecutorFinishedInOrder ==
    ASSUME TurnState, DeliverExecutorFinished, UNCHANGED streamVars
    PROVE  InOrderNext
<1>1. TurnTypeOK'
  BY TurnStateParts, StreamVarsType
<1>2. ModelTypeOK' /\ effects' \in Seq(ControllerEvent)
  BY TurnStateParts, ControllerExtends, DeliverExecutorFinishedType
<1>3. KnownInv'
  BY TurnStateParts, DeliverExecutorFinishedKnown
<1>4. SinglesInv' /\ IdentifiersInv'
  BY TurnStateParts, DeliverExecutorFinishedSingles
<1>5. TurnInv'
  BY DeliverExecutorFinishedTurn DEF streamVars
<1> QED BY <1>1, <1>2, <1>3, <1>4, <1>5 DEF InOrderNext

\* The delivery of an event that is not the executor's loses no result.
LEMMA QuietDelivery ==
    ASSUME TurnState, ~Idle, Head(effects).type # "ExecutorFinished", effects' = Tail(effects)
    PROVE  /\ effects' \in Seq(ControllerEvent)
           /\ \A d \in Conversations : /\ AnsweredFor(d, effects') = AnsweredFor(d, effects)
                                       /\ AnsweredOnce(d, effects')
<1>1. effects \in Seq(ControllerEvent) /\ effects # <<>>
      /\ \A d \in Conversations : AnsweredOnce(d, effects)
  BY TurnStateParts DEF Idle
<1>2. \A d : 1 \notin AnswersFor(d, effects)
  <2>1. effects[1].type # "ExecutorFinished"
    BY <1>1
  <2> QED BY <2>1 DEF AnswersFor
<1> QED BY <1>1, <1>2, AnswersForTail

\* The controller handles a finished action: it may drain the results and ask the agent.
LEMMA DeliverFinishedActionInOrder ==
    ASSUME TurnState, DeliverFinishedAction
    PROVE  InOrderNext
<1>e. PICK c, reason : c = Head(effects).conv /\ reason = Head(effects).reason
  OBVIOUS
<1>1. /\ ~Idle /\ Head(effects).type = "Finished" /\ effects' = Tail(effects)
      /\ UNCHANGED <<settings, preprocessing, pending, running, executing, futures,
                     received, approved, selected, queries>>
      /\ \/ FollowUp(c)
         \/ /\ UNCHANGED <<finished, order, past, stream, active, resume, stopped>>
            /\ \E s \in {status[c], EndedStatus(c, reason)} : status' = [status EXCEPT ![c] = s]
  BY <1>e DEF DeliverFinishedAction
<1>2. c \in Conversations
  <2>1. Head(effects) \in ControllerEvent
    BY <1>1, TurnStateParts, HeadOfEffects
  <2> QED BY <1>e, <2>1 DEF ControllerEvent, Event
<1>3. \A s \in {status[c], EndedStatus(c, reason), "InProgress"} : s \in Statuses
  BY <1>2, TurnStateParts DEF ModelTypeOK, EndedStatus, Statuses
<1>4. /\ \/ /\ finished' = [finished EXCEPT ![c] = <<>>] /\ order' = [order EXCEPT ![c] = <<>>]
            /\ past' = past \cup FinishedIds(c)
         \/ UNCHANGED <<finished, order, past>>
      /\ \E s \in Statuses : status' = [status EXCEPT ![c] = s]
      /\ stream' = stream \/ stream' = [stream EXCEPT ![c] = Opened(TRUE)]
      /\ active' = active \/ active' = c
      /\ resume' = resume \/ resume' = [resume EXCEPT ![c] = FALSE]
      /\ stopped' = stopped \/ stopped' = [stopped EXCEPT ![c] = FALSE]
  BY <1>1, <1>3 DEF FollowUp, DrainFinished, Request, ResumeAborted
<1>5. /\ effects' \in Seq(ControllerEvent)
      /\ \A d \in Conversations : /\ AnsweredFor(d, effects') = AnsweredFor(d, effects)
                                  /\ AnsweredOnce(d, effects')
  BY <1>1, QuietDelivery
<1>6. ModelTypeOK'
  <2>1. <<>> \in Seq(Result) /\ <<>> \in Seq(ActionIds) /\ FinishedIds(c) \subseteq ActionIds
    BY <1>2, TurnStateParts, FinishedIdsType
  <2>t. ModelTypeOK
    BY TurnStateParts
  <2>2. finished' \in [Conversations -> Seq(Result)]
    BY <1>4, <2>1, <2>t DEF ModelTypeOK
  <2>3. order' \in [Conversations -> Seq(ActionIds)]
    BY <1>4, <2>1, <2>t DEF ModelTypeOK
  <2>4. past' \subseteq ActionIds
    BY <1>4, <2>1, <2>t DEF ModelTypeOK
  <2>5. status' \in [Conversations -> Statuses]
    BY <1>4, <2>t DEF ModelTypeOK
  <2> QED BY <1>1, <2>2, <2>3, <2>4, <2>5, <2>t DEF ModelTypeOK
<1>7. TurnTypeOK'
  <2>1. Opened(TRUE) \in Streams /\ Opened(TRUE).output = <<>>
    BY DEF Opened, Streams, StreamPhases
  <2>2. /\ stream' \in [Conversations -> Streams]
        /\ \A d \in Conversations : stream'[d].output \in Outputs[d] \cup {<<>>}
    BY <1>4, <2>1, TurnStateParts DEF TurnTypeOK
  <2>3. resume' \in [Conversations -> BOOLEAN] /\ stopped' \in [Conversations -> BOOLEAN]
    BY <1>4, TurnStateParts DEF TurnTypeOK
  <2> QED BY <1>1, <1>2, <1>4, <2>2, <2>3, TurnStateParts DEF TurnTypeOK
<1>8. SinglesInv' /\ IdentifiersInv'
  BY <1>1, <1>2, <1>4, <1>5, TurnStateParts, DrainSingles
<1>9. KnownInv'
  <2>1. EventsKnown(effects') /\ ExecsKnown(executing')
    BY <1>1, TurnStateParts, TailKnown DEF KnownState, KnownInv
  <2>2. \A d \in Conversations : FinishedIds(d)' \subseteq FinishedIds(d)
    <3>1. \A d \in Conversations : finished'[d] \in {finished[d], <<>>}
      BY <1>4, TurnStateParts DEF ModelTypeOK
    <3> QED BY <3>1 DEF FinishedIds
  <2> QED BY <1>1, <2>1, <2>2, TurnStateParts, FewerKnown
<1> QED BY <1>5, <1>6, <1>7, <1>8, <1>9, DeliverFinishedActionTurn DEF InOrderNext

\* The history model learns that a stream was cancelled.
LEMMA DeliverStreamCancelledInOrder ==
    ASSUME TurnState, DeliverStreamCancelled
    PROVE  InOrderNext
<1>e. PICK e, c : e = Head(effects) /\ c = e.conv
  OBVIOUS
<1>1. /\ ~Idle /\ e.type = "StreamCancelled" /\ effects' = Tail(effects)
      /\ UNCHANGED <<settings, preprocessing, pending, running, executing, futures,
                     finished, order, past, received, approved,
                     stream, selected, active, stopped, queries>>
      /\ status' = [status EXCEPT ![c] =
                       IF e.reason = "Cancelled" THEN "Cancelled"
                       ELSE IF e.reason = "Succeeded" THEN "Success" ELSE @]
      /\ resume' = [resume EXCEPT ![c] = @ \/ e.resumes]
  BY <1>e DEF DeliverStreamCancelled
<1>2. c \in Conversations /\ e.resumes \in BOOLEAN
  <2>1. e \in ControllerEvent
    BY <1>1, <1>e, TurnStateParts, HeadOfEffects
  <2> QED BY <1>1, <1>e, <2>1 DEF ControllerEvent, Event
<1>3. ModelTypeOK'
  BY <1>1, <1>2, TurnStateParts DEF ModelTypeOK, Statuses
<1>4. TurnTypeOK'
  <2>1. (resume[c] \/ e.resumes) \in BOOLEAN
    OBVIOUS
  <2>2. resume' \in [Conversations -> BOOLEAN]
    BY <1>1, <1>2, <2>1, TurnStateParts DEF TurnTypeOK
  <2> QED BY <1>1, <2>2, TurnStateParts DEF TurnTypeOK
<1>5. /\ effects' \in Seq(ControllerEvent)
      /\ \A d \in Conversations : /\ AnsweredFor(d, effects') = AnsweredFor(d, effects)
                                  /\ AnsweredOnce(d, effects')
  BY <1>1, <1>e, QuietDelivery
<1>6. SinglesInv' /\ IdentifiersInv'
  BY <1>1, <1>2, <1>5, TurnStateParts, DrainSingles
<1>7. KnownInv'
  <2>1. EventsKnown(effects') /\ ExecsKnown(executing')
    BY <1>1, TurnStateParts, TailKnown DEF KnownState, KnownInv
  <2>2. \A d \in Conversations : FinishedIds(d)' \subseteq FinishedIds(d)
    BY <1>1 DEF FinishedIds
  <2> QED BY <1>1, <2>1, <2>2, TurnStateParts, FewerKnown
<1> QED BY <1>3, <1>4, <1>5, <1>6, <1>7, DeliverStreamCancelledTurn DEF InOrderNext

\* The inductive step: every step of the controller leaves the state in order.
LEMMA TurnStep ==
    ASSUME TurnState, ReasonsComplete, [ControllerNext]_controllerVars
    PROVE  TurnState'
<1>1. InOrderNext
  <2>1. ASSUME NEW c \in Conversations,
               \/ ActionStep(c)
               \/ StreamStep(c)
               \/ SendQuery(c)
               \/ \E reason \in UserReasons : CancelConversationProgress(c, reason)
               \/ SelectConversation(c)
               \/ AutoResume(c)
               \/ ShellExits(c)
        PROVE  InOrderNext
    BY <2>1, ActionStepInOrder, StreamStepInOrder, SendQueryTurn, CancelConversationProgressTurn,
       SelectConversationInOrder, AutoResumeInOrder, ShellExitsTurn
  <2>2. CASE ChangeSettings /\ UNCHANGED streamVars
    <3>1. UNCHANGED <<preprocessing, pending, running, executing, futures, finished,
                      order, past, status, effects, received, approved,
                      stream, resume, stopped>>
      BY <2>2 DEF ChangeSettings, streamVars
    <3>2. ModelTypeOK' /\ effects' \in Seq(ControllerEvent)
      BY <2>2, TurnStateParts, ChangeSettingsType
    <3>3. TurnTypeOK'
      BY <2>2, TurnStateParts, StreamVarsType
    <3>4. KnownInv' /\ SinglesInv' /\ IdentifiersInv'
      BY <3>1, ActionsUnmoved
    <3>5. TurnInv'
      BY <3>1, TurnStateParts, NothingTurns
    <3> QED BY <3>2, <3>3, <3>4, <3>5 DEF InOrderNext
  <2>3. CASE DeliverExecutorFinished /\ UNCHANGED streamVars
    BY <2>3, DeliverExecutorFinishedInOrder
  <2>4. CASE DeliverFinishedAction
    BY <2>4, DeliverFinishedActionInOrder
  <2>5. CASE DeliverStreamCancelled
    BY <2>5, DeliverStreamCancelledInOrder
  <2>6. CASE UNCHANGED controllerVars
    <3>1. UNCHANGED <<settings, preprocessing, pending, running, executing, futures, finished,
                      order, past, status, effects, received, approved, stream, selected,
                      active, resume, stopped, queries>>
      BY <2>6 DEF controllerVars, vars, streamVars
    <3>2. ModelTypeOK'
      BY <3>1, TurnStateParts DEF ModelTypeOK
    <3>3. TurnTypeOK'
      BY <3>1, TurnStateParts DEF TurnTypeOK
    <3>4. KnownInv' /\ SinglesInv' /\ IdentifiersInv' /\ effects' \in Seq(ControllerEvent)
      BY <3>1, ActionsUnmoved
    <3>5. TurnInv'
      BY <3>1, TurnStateParts, NothingTurns
    <3> QED BY <3>2, <3>3, <3>4, <3>5 DEF InOrderNext
  <2> QED BY <2>1, <2>2, <2>3, <2>4, <2>5, <2>6 DEF ControllerNext
<1>2. DistinctIdentifiers /\ UserIsSlow /\ Extends(ControllerEvent)
  BY ControllerExtends DEF TurnState, PlacedState
<1>3. ControllerTypeOK'
  BY <1>1 DEF InOrderNext, ControllerTypeOK
<1>4. PlacedState(ControllerEvent)'
  BY <1>1, <1>2 DEF InOrderNext, PlacedState, KnownState
<1> QED BY <1>1, <1>2, <1>3, <1>4 DEF InOrderNext, TurnState

\* Initially nothing is asked and nothing is under way.
LEMMA TurnInit ==
    ASSUME ControllerInit, DistinctIdentifiers, UserIsSlow
    PROVE  TurnState
<1>1. Init
  BY DEF ControllerInit
<1>2. ModelTypeOK /\ effects = <<>> /\ effects \in Seq(ControllerEvent)
  <2>1. effects = <<>> /\ <<>> \in Seq(ControllerEvent)
    BY <1>1 DEF Init
  <2> QED BY <1>1, <2>1, TypeInit DEF TypeOK
<1>3. TurnTypeOK
  <2>1. /\ stream = [c \in Conversations |-> NoStream]
        /\ selected = NoConv /\ active = NoConv
        /\ resume = [c \in Conversations |-> FALSE]
        /\ stopped = [c \in Conversations |-> FALSE]
        /\ queries = [c \in Conversations |-> 0]
    BY DEF ControllerInit
  <2>2. NoStream \in Streams /\ NoStream.output = <<>>
    BY DEF NoStream, Streams, StreamPhases
  <2> QED BY <2>1, <2>2, NoConvAssumption DEF TurnTypeOK
<1>4. KnownInv /\ SinglesInv /\ IdentifiersInv
  BY <1>1, KnownInit, SinglesInit
<1>5. ASSUME NEW c \in Conversations PROVE TurnIn(c)
  <2>1. /\ preprocessing[c] = <<>> /\ status[c] = "InProgress"
        /\ stream[c] = NoStream /\ ~resume[c] /\ ~stopped[c]
    BY <1>1 DEF Init, ControllerInit
  <2>2. Elems(effects) = {}
    BY <1>2 DEF Elems
  <2> QED BY <2>1, <2>2 DEF TurnIn, Awaits, Streaming, NoStream
<1> QED
  BY <1>2, <1>3, <1>4, <1>5, ControllerExtends
  DEF TurnState, ControllerTypeOK, PlacedState, KnownState, TurnInv

\* The invariant says what the property says.
LEMMA TurnPlaces ==
    ASSUME TurnState PROVE ActionsAreInOnePlace
BY TurnStateParts, SinglesArePlaced

-----------------------------------------------------------------------------
(* A failure is final.                                                     *)

ErrorsKept ==
    \A d \in Conversations :
        (status[d] = "Error" /\ status[d]' # "Error") => stream[d]'.phase = "Open"

\* A step that changes the status of one conversation, which has not failed.
LEMMA OneStatusChanges ==
    ASSUME ModelTypeOK, NEW c \in Conversations, status[c] # "Error", NEW s,
           status' = [status EXCEPT ![c] = s]
    PROVE  ErrorsKept
BY DEF ErrorsKept, ModelTypeOK

LEMMA NoStatusChanges == ASSUME status' = status PROVE ErrorsKept
BY DEF ErrorsKept

\* The actions of a failed conversation are all finished.
LEMMA ActionStepKeepsErrors ==
    ASSUME TurnState, NEW c \in Conversations, ActionStep(c)
    PROVE  ErrorsKept
<1>1. ModelTypeOK /\ TurnIn(c)
  BY TurnStateParts
<1>2. ASSUME NEW v, NEW queue, NEW execs, Commit(c, v, queue, execs),
             pending[c] # <<>> \/ preprocessing[c] # <<>>
      PROVE  ErrorsKept
  <2>1. status[c] # "Error"
    BY <1>1, <1>2 DEF TurnIn, Asleep, Awaits
  <2>2. status' = [status EXCEPT ![c] = v.status]
    BY <1>2 DEF Commit
  <2> QED BY <1>1, <2>1, <2>2, OneStatusChanges
<1>3. \A a \in Elems(pending[c]) : pending[c] # <<>>
  BY DEF Elems
<1>4. ASSUME NEW a, ExecuteAction(c, a) PROVE ErrorsKept
  BY <1>2, <1>3, <1>4 DEF ExecuteAction, MayStartForUser
<1>5. CASE ExecuteNextActionForUser(c)
  BY <1>4, <1>5 DEF ExecuteNextActionForUser
<1>6. CASE ClearFinished(c)
  BY <1>6, NoStatusChanges DEF ClearFinished
<1>7. ASSUME NEW a, PreprocessActionsResults(c, a) PROVE ErrorsKept
  <2>1. preprocessing[c] # <<>>
    BY <1>7 DEF PreprocessActionsResults, BatchResolves
  <2>2. PICK v : Commit(c, v, effects, executing)
    BY <1>7 DEF PreprocessActionsResults
  <2> QED BY <1>2, <2>1, <2>2
<1>8. ASSUME NEW a, DenyRunAgents(c, a) PROVE ErrorsKept
  BY <1>2, <1>3, <1>8 DEF DenyRunAgents
<1>9. ASSUME NEW a, NEW reason, CancelActionWithId(c, a, reason) PROVE ErrorsKept
  BY <1>2, <1>3, <1>9, NoStatusChanges DEF CancelActionWithId
<1>10. ASSUME NEW a, CompleteAsync(c, a) PROVE ErrorsKept
  BY <1>10, NoStatusChanges DEF CompleteAsync
<1> QED
  BY <1>4, <1>5, <1>6, <1>7, <1>8, <1>9, <1>10 DEF ActionStep

\* No stream of a failed conversation is open.
LEMMA StreamStepKeepsErrors ==
    ASSUME TurnState, NEW c \in Conversations, StreamStep(c)
    PROVE  ErrorsKept
<1>1. ModelTypeOK /\ TurnIn(c)
  BY TurnStateParts
<1>2. ASSUME NEW next, NEW s, Streamed(c, next, s), stream[c].phase \in {"Open", "Waiting"}
      PROVE  ErrorsKept
  <2>1. status[c] # "Error"
    BY <1>1, <1>2 DEF TurnIn
  <2>2. status' = [status EXCEPT ![c] = s]
    BY <1>2 DEF Streamed
  <2> QED BY <1>1, <2>1, <2>2, OneStatusChanges
<1>3. CASE StreamEnds(c)
  BY <1>3, NoStatusChanges DEF StreamEnds, QueueActions, vars
<1> QED
  BY <1>2, <1>3 DEF StreamStep, StreamSucceeds, StreamFails, NetworkIsLost, NetworkReturns

\* Cancelling keeps failed what has failed, a query opens a stream.
LEMMA SendQueryKeepsErrors ==
    ASSUME TurnState, NEW c \in Conversations, SendQuery(c), ReasonsComplete
    PROVE  ErrorsKept
<1>r. PICK reason, p : reason = QueryReason(c) /\ p = active
  OBVIOUS
<1>d. PICK refused \in BOOLEAN : refused = (Streaming(c) /\ p # c)
  OBVIOUS
<1>v. PICK v, w : v = CancelPending(c, ViewOf(c), reason) /\ w = Interrupted(p, reason)
  OBVIOUS
<1>D. PICK D : D = {c} \cup {d \in {p} \ {c} : ~Streaming(d)}
  OBVIOUS
<1>o. PICK own : own = IF Streaming(c) /\ ~refused THEN <<StreamCancelled(c, reason)>> ELSE <<>>
  OBVIOUS
<1>1. reason \in Reasons /\ TurnTypeOK
  BY <1>r, TurnStateParts DEF QueryReason, ReasonsComplete
<1>2. Sends(c, p, refused, v, w, D)
  BY <1>r, <1>d, <1>v, <1>D, <1>o, SendQueryForm
<1>3. p \in Conversations
  BY <1>1, <1>2, <1>r DEF TurnTypeOK, Sends
<1>4. v \in Ceased(c, reason) /\ w \in Ceased(p, reason)
  BY <1>1, <1>3, <1>v, ViewCeases, InterruptedCeases
<1>5. (v.status = "Error") = (status[c] = "Error") /\ (w.status = "Error") = (status[p] = "Error")
  BY <1>4 DEF Ceased
<1>6. /\ status' = [d \in Conversations |->
             IF d = c THEN IF refused THEN v.status ELSE "InProgress"
             ELSE IF d = p THEN w.status ELSE status[d]]
      /\ stream'[c] = IF refused THEN stream[c] ELSE Opened(TRUE)
  BY <1>2 DEF Sends
<1> QED BY <1>5, <1>6 DEF ErrorsKept, Opened

LEMMA CancelProgressKeepsErrors ==
    ASSUME TurnState, NEW c \in Conversations, NEW reason \in UserReasons,
           CancelConversationProgress(c, reason)
    PROVE  ErrorsKept
<1>1. Interrupted(c, reason) \in Ceased(c, reason)
  BY InterruptedCeases DEF UserReasons
<1>2. PICK v : v = Interrupted(c, reason)
  OBVIOUS
<1>3. (v.status = "Error") = (status[c] = "Error")
  BY <1>1, <1>2 DEF Ceased
<1>4. status' = [status EXCEPT ![c] = v.status]
  BY <1>2 DEF CancelConversationProgress, Commit
<1> QED BY <1>3, <1>4, TurnStateParts DEF ErrorsKept, ModelTypeOK

\* The late events of a failed conversation are those of the exit of its shell.
LEMMA DeliveryKeepsErrors ==
    ASSUME TurnState,
           DeliverExecutorFinished \/ DeliverFinishedAction \/ DeliverStreamCancelled
    PROVE  ErrorsKept
<1>e. PICK e, c : e = Head(effects) /\ c = e.conv
  OBVIOUS
<1>1. ~Idle /\ ModelTypeOK
  BY TurnStateParts DEF DeliverExecutorFinished, DeliverFinishedAction, DeliverStreamCancelled
<1>2. /\ c \in Conversations /\ TurnIn(c)
      /\ status[c] = "Error" => e.reason = "FinalizedExternally"
  BY <1>1, <1>e, HeadTurn
<1>3. CASE status[c] # "Error"
  <2>1. \E s : status' = [status EXCEPT ![c] = s]
    BY <1>e DEF DeliverExecutorFinished, DeliverFinishedAction, DeliverStreamCancelled, Commit,
       FollowUp
  <2> QED BY <1>1, <1>2, <1>3, <2>1, OneStatusChanges
<1>4. CASE status[c] = "Error"
  <2>1. e.reason = "FinalizedExternally"
    BY <1>2, <1>4
  <2>2. CASE DeliverExecutorFinished
    <3> DEFINE w == ViewOf(c)
               v == HandleResult(c, w, e.id, e.res, e.reason)
               S == {"Error"}
    <3>1. e.id \in ActionIds /\ e.res \in Results /\ e.reason \in Reasons \cup {NoReason}
      <4>1. e \in ControllerEvent /\ e.type = "ExecutorFinished"
        BY <1>1, <1>e, <2>2, HeadOfEffects, TurnStateParts DEF DeliverExecutorFinished
      <4> QED BY <4>1 DEF ControllerEvent, Event
    <3>2. /\ w \in View /\ w.pending = <<>> /\ w.started = {} /\ w.events = <<>>
          /\ w.status \in S
      BY <1>1, <1>2, <1>4, ViewOfType DEF ViewOf, TurnIn, Awaits, Asleep
    <3>3. Kept(e.reason, S)
      BY <2>1 DEF Kept
    <3>4. status' = [status EXCEPT ![c] = v.status]
      BY <1>e, <2>2 DEF DeliverExecutorFinished, Commit
    <3> HIDE DEF w, S
    <3>5. PICK r : v \in ClosedView(c, e.reason, S, r)
      BY <1>1, <1>2, <3>1, <3>2, <3>3, HandleResultClosed
    <3> HIDE DEF v
    <3>6. v.status = "Error"
      BY <3>5 DEF ClosedView, S
    <3> QED BY <1>1, <1>2, <3>4, <3>6 DEF ErrorsKept, ModelTypeOK
  <2>3. CASE DeliverFinishedAction
    <3>1. Quiet(c, e.reason)
      BY <2>1 DEF Quiet
    <3>2. status' = [status EXCEPT ![c] = @]
      BY <1>e, <2>3, <3>1 DEF DeliverFinishedAction
    <3> QED BY <1>1, <1>2, <3>2 DEF ErrorsKept, ModelTypeOK
  <2>4. CASE DeliverStreamCancelled
    <3>1. status' = [status EXCEPT ![c] = @]
      BY <1>e, <2>1, <2>4 DEF DeliverStreamCancelled
    <3> QED BY <1>1, <1>2, <3>1 DEF ErrorsKept, ModelTypeOK
  <2> QED BY <2>2, <2>3, <2>4
<1> QED BY <1>3, <1>4

\* Every step keeps a failed conversation failed, unless it asks the agent again.
LEMMA ErrorStep ==
    ASSUME TurnState, ReasonsComplete, [ControllerNext]_controllerVars
    PROVE  ErrorsKept
<1>1. ASSUME NEW c \in Conversations, SelectConversation(c) PROVE ErrorsKept
  BY <1>1, NoStatusChanges DEF SelectConversation, vars
<1>2. ASSUME NEW c \in Conversations, AutoResume(c) PROVE ErrorsKept
  <2>1. CASE Streaming(c)
    BY <1>2, <2>1, NoStatusChanges DEF AutoResume
  <2>2. CASE ~Streaming(c)
    <3>1. /\ stream' = [stream EXCEPT ![c] = Opened(FALSE)]
          /\ status' = [status EXCEPT ![c] = "InProgress"]
      BY <1>2, <2>2 DEF AutoResume, Request
    <3> QED BY <3>1, TurnStateParts DEF ErrorsKept, ModelTypeOK, TurnTypeOK, Opened
  <2> QED BY <2>1, <2>2
<1>3. ASSUME NEW c \in Conversations, ShellExits(c) PROVE ErrorsKept
  <2>1. status[c] # "Error" /\ \E s : status' = [status EXCEPT ![c] = s]
    BY <1>3 DEF ShellExits, Commit
  <2> QED BY <2>1, TurnStateParts, OneStatusChanges
<1>4. CASE ChangeSettings \/ UNCHANGED controllerVars
  BY <1>4, NoStatusChanges DEF ChangeSettings, controllerVars, vars
<1> QED
  BY <1>1, <1>2, <1>3, <1>4, ActionStepKeepsErrors, StreamStepKeepsErrors, SendQueryKeepsErrors,
     CancelProgressKeepsErrors, DeliveryKeepsErrors DEF ControllerNext

-----------------------------------------------------------------------------
(* Where the results that await delivery come from, and what a step does to *)
(* the actions of a conversation.                                           *)

\* The actions whose execution has its result at once, with some settings.
AtOnce == UNION {s.sync : s \in Settings}

\* A result of an action of c that awaits delivery.
AnswerTo(c, e) == e.type = "ExecutorFinished" /\ e.conv = c

\* The executor had the result at once: nothing was started.
Known(e) == e.reason = NoReason /\ (Autonomous \/ e.id \in AtOnce)

\* A result is that of an action in the phase, or was had at once.
SourcedIn(c) ==
    \A e \in Elems(effects) : AnswerTo(c, e) => e.id \in running[c].ids \/ Known(e)

SourcesInv == \A c \in Conversations : SourcedIn(c)

\* The answers among events, by their actions.
LEMMA AnswersByElements ==
    ASSUME NEW c, NEW s PROVE \A e \in Elems(s) : AnswerTo(c, e) => e.id \in AnsweredFor(c, s)
BY DEF Elems, AnswerTo, AnsweredFor, AnswersFor

LEMMA AnsweredByElements ==
    ASSUME NEW c, NEW s PROVE \A a \in AnsweredFor(c, s) : \E e \in Elems(s) : AnswerTo(c, e) /\ e.id = a
BY DEF Elems, AnswerTo, AnsweredFor, AnswersFor

\* The results of a voiced view were had at once.
LEMMA VoicedKnown ==
    ASSUME ModelTypeOK, NEW c, NEW v \in VoicedView(c), NEW e \in Elems(v.events)
    PROVE  e.conv = c /\ (e.type = "ExecutorFinished" => Known(e))
<1>1. settings.sync \subseteq AtOnce
  BY DEF ModelTypeOK, AtOnce
<1>2. \A a \in SyncActions(FALSE) : Autonomous \/ a \in AtOnce
  BY <1>1 DEF SyncActions, Denylisted
<1>3. Voices(c, e)
  BY DEF VoicedView
<1> QED BY <1>2, <1>3 DEF Voices, Known

\* The view emits no finished action.
MuteView == {v \in View : \A e \in Elems(v.events) : e.type = "ExecutorFinished"}

LEMMA TryExecuteAvailableMute ==
    ASSUME NEW c \in Conversations, NEW v \in MuteView
    PROVE  TryExecuteAvailable(c, v) \in MuteView
<1> DEFINE w == TryExecuteAvailable(c, v)
<1>1. v \in View /\ w \in View /\ v.pending \in Seq(ActionIds) /\ v.events \in Seq(Event)
  BY TryExecuteAvailableType DEF MuteView, View
<1>2. PICK n \in 0..Len(v.pending) : Executed(c, v, w, n)
  BY <1>1, TryExecuteAvailableExecutes
<1> DEFINE evs == AnswersOf(c, v.pending, n)
<1>3. evs \in Seq(Event) /\ \A e \in Elems(evs) : e.type = "ExecutorFinished"
  <2>1. \A e \in Elems(evs) : e.type = "ExecutorFinished"
    BY DEF AnswersOf, ExecutorFinished, Elems
  <2> DEFINE q == v.pending
  <2>2. q \in Seq(ActionIds) /\ n \in 0..Len(q)
    BY <1>1, <1>2
  <2> HIDE DEF q
  <2>3. AnswersOf(c, q, n) \in Seq(Event)
    BY <2>2, AnswersOfProperties
  <2> QED BY <2>1, <2>3 DEF q
<1>4. w.events = v.events \o evs
  BY <1>2 DEF Executed
<1> HIDE DEF evs, w
<1>5. Elems(w.events) = Elems(v.events) \cup Elems(evs)
  BY <1>1, <1>3, <1>4, ConcatElems
<1>6. w \in MuteView
  BY <1>1, <1>3, <1>5 DEF MuteView
<1> QED BY <1>6 DEF w

\* Serving a queue that released actions have joined finishes nothing.
LEMMA EnqueueMute ==
    ASSUME ModelTypeOK, NEW c \in Conversations, NEW released \in Seq(ActionIds)
    PROVE  Enqueue(c, released) \in MuteView
<1> DEFINE v == ViewOf(c)
           more == Filter(released, ActionIds \ FinishedIds(c))
           w == [v EXCEPT !.pending = @ \o more]
<1>1. v \in View /\ v.events = <<>> /\ more \in Seq(ActionIds)
  BY ViewOfType, FilterProperties DEF ViewOf
<1>2. w \in MuteView
  <2> HIDE DEF v, more
  <2>1. v.pending \o more \in Seq(ActionIds)
    BY <1>1 DEF View
  <2>2. w \in View /\ w.events = v.events
    BY <1>1, <2>1 DEF View
  <2>3. Elems(w.events) = {}
    BY <1>1, <2>2 DEF Elems
  <2> HIDE DEF w
  <2> QED BY <2>2, <2>3 DEF MuteView
<1>3. TryExecuteAvailable(c, w) \in MuteView
  <2> HIDE DEF w
  <2> QED BY <1>2, TryExecuteAvailableMute
<1> QED BY <1>3 DEF Enqueue

\* Neither does starting an action for the user.
LEMMA StartForUserMute ==
    ASSUME ModelTypeOK, NEW c \in Conversations, NEW a \in Elems(pending[c])
    PROVE  StartForUser(c, ViewOf(c), a) \in MuteView
<1> DEFINE v == WithoutPending(c, a)
           w == [v EXCEPT !.status = "InProgress"]
           e == ExecutorFinished(c, a, "Completed", NoReason)
           now == [w EXCEPT !.events = Append(@, e)]
           later == [w EXCEPT !.running = [phase |-> PhaseOf({a}), ids |-> @.ids \cup {a}],
                              !.started = {a}]
<1>1. v \in View /\ a \in ActionIds /\ v.events = <<>>
  BY WithoutPendingType DEF WithoutPending, ViewOf
<1>2. w \in View /\ w.events = <<>>
  <2> HIDE DEF v
  <2> QED BY <1>1 DEF View, Statuses
<1>3. e \in Event /\ e.type = "ExecutorFinished"
  BY <1>1, ExecutorFinishedType DEF Results, ExecutorFinished
<1>4. w = [ViewOf(c) EXCEPT !.pending = RemoveIndex(@, PositionOf(a, @)),
                            !.status = "InProgress"]
  BY DEF WithoutPending, ViewOf
<1>5. \/ StartForUser(c, ViewOf(c), a) = TryExecuteAvailable(c, now)
      \/ StartForUser(c, ViewOf(c), a) = later
  <2> HIDE DEF w
  <2> QED BY <1>4 DEF StartForUser
<1> HIDE DEF w, e
<1>6. now \in MuteView
  <2> DEFINE t == <<e>>
  <2>1. t \in Seq(Event) /\ Elems(t) = {e} /\ now = [w EXCEPT !.events = t]
    BY <1>2, <1>3 DEF Elems
  <2> HIDE DEF t, now
  <2> QED BY <1>2, <1>3, <2>1 DEF MuteView, View
<1>7. later \in MuteView
  <2>1. later \in View
    BY <1>1, <1>2, PhaseOfType DEF View, Running, Phases
  <2>2. later.events = <<>>
    BY <1>2 DEF View
  <2> HIDE DEF later
  <2> QED BY <2>1, <2>2 DEF MuteView, Elems
<1> HIDE DEF now, later
<1> QED
  BY <1>5, <1>6, <1>7, TryExecuteAvailableMute

(***************************************************************************)
(* A handler of c that begins while nothing awaits delivery: it takes      *)
(* actions from Q, of those that wait, and the events of its view v speak  *)
(* of c.  If it finishes an action, that one waited and is not in Q.       *)
(***************************************************************************)
Handles(c, v, Q) ==
    /\ v \in VoicedView(c) /\ Framed(c, Q, running[c].ids, FinishedIds(c) \cup Waiting(c), v)
    /\ Q \subseteq Waiting(c)
    /\ v \in MuteView \/ \E a \in Waiting(c) : a \notin Q
    /\ Commit(c, v, effects, executing)
    /\ PreprocessingIds(c)' \subseteq PreprocessingIds(c)
    /\ \A d \in Conversations : d # c => preprocessing'[d] = preprocessing[d]

\* The view of a handler that starts from the queue.
LEMMA WiderFrame ==
    ASSUME NEW c, NEW Q, NEW R, NEW F, NEW w, w \in FramedView(c, Q, R, F), NEW G, F \subseteq G
    PROVE  Framed(c, Q, R, G, w)
BY DEF FramedView, Framed

\* What a step that handles no action does: it cancels what runs, or delivers.
Calms ==
    /\ UNCHANGED <<preprocessing, running>>
    /\ \A d \in Conversations : pending'[d] \in {<<>>, pending[d]}
    /\ \/ Elems(effects') \subseteq Elems(effects)
       \/ Idle /\ \A d \in Conversations : AnsweredFor(d, effects') \subseteq ExecutingIn(d)

LEMMA HushesCalm == ASSUME Hushes PROVE Calms
BY DEF Hushes, Calms

LEMMA NothingCalms ==
    ASSUME UNCHANGED <<preprocessing, running, pending>>, Elems(effects') \subseteq Elems(effects)
    PROVE  Calms
BY DEF Calms

\* The result of what was executing is announced.
LEMMA ResolvesCalm ==
    ASSUME ModelTypeOK, Idle, NEW a \in ActionIds, executing[a] # NoConv, NEW res, NEW reason,
           effects' = Append(effects, ExecutorFinished(executing[a], a, res, reason)),
           UNCHANGED <<preprocessing, running, pending>>
    PROVE  Calms
<1>1. PICK e, x : e = executing[a] /\ x = ExecutorFinished(e, a, res, reason)
  OBVIOUS
<1>2. effects' = <<x>>
  BY <1>1 DEF Idle
<1>3. \A d : AnsweredFor(d, <<x>>) = IF d = e THEN {a} ELSE {}
  BY <1>1, AnswersForOne
<1>4. \A d \in Conversations : AnsweredFor(d, effects') \subseteq ExecutingIn(d)
  BY <1>1, <1>2, <1>3 DEF ExecutingIn
<1> QED BY <1>4 DEF Calms

\* What the user and the executor do to the actions of c, either way.
LEMMA ActionStepForms ==
    ASSUME TurnState, NEW c \in Conversations, ActionStep(c)
    PROVE  Calms \/ (Idle /\ \E v, Q : Handles(c, v, Q))
<1>1. /\ ModelTypeOK /\ TurnIn(c) /\ SingleIn(c) /\ CleanIn(c)
      /\ KnownState(ControllerEvent)
  BY TurnStateParts, SingleIsClean DEF SinglesInv, KnownState
<1> DEFINE G == FinishedIds(c) \cup Waiting(c)
           P == Elems(pending[c])
<1>2. P \subseteq Waiting(c) /\ FinishedIds(c) \subseteq G
  BY DEF Waiting
<1>3. UNCHANGED preprocessing => /\ PreprocessingIds(c)' \subseteq PreprocessingIds(c)
                                 /\ \A d \in Conversations : preprocessing'[d] = preprocessing[d]
  BY DEF PreprocessingIds
<1>4. ASSUME NEW a, ExecuteAction(c, a) PROVE Idle /\ \E v, Q : Handles(c, v, Q)
  <2>1. PICK v : v = StartForUser(c, ViewOf(c), a)
    OBVIOUS
  <2>2. a \in P /\ Idle /\ Commit(c, v, effects, executing) /\ UNCHANGED preprocessing
    BY <1>4, <2>1 DEF ExecuteAction, MayStartForUser
  <2>3. v \in VoicedView(c) /\ v \in MuteView
    BY <1>1, <2>1, <2>2, StartForUserVoiced, StartForUserMute
  <2>4. v \in FramedView(c, P, running[c].ids, FinishedIds(c))
    BY <1>1, <2>1, <2>2, StartForUserFramed
  <2>5. Framed(c, P, running[c].ids, G, v)
    BY <1>2, <2>4, WiderFrame
  <2>6. Handles(c, v, P)
    BY <1>2, <1>3, <2>2, <2>3, <2>5 DEF Handles
  <2> QED BY <2>2, <2>6
<1>5. ASSUME NEW a, a \in P, NEW res \in Results, Idle,
             NEW reason \in Reasons \cup {NoReason}, UNCHANGED preprocessing,
             Commit(c, HandleResult(c, WithoutPending(c, a), a, res, reason),
                    effects, executing)
      PROVE  \E v, Q : Handles(c, v, Q)
  <2>1. PICK w, v : w = WithoutPending(c, a) /\ v = HandleResult(c, w, a, res, reason)
    OBVIOUS
  <2>2. P # {} /\ pending[c] # <<>>
    BY <1>5 DEF Elems
  <2>3. status[c] # "Error"
    BY <2>2, BusyIn
  <2>4. w \in VoicedView(c) /\ a \in ActionIds
    BY <1>1, <1>5, <2>1, <2>3, WithoutPendingVoiced
  <2>5. v \in VoicedView(c)
    BY <1>1, <2>1, <2>4, HandleResultVoiced
  <2> DEFINE Q == P \ {a}
             R == running[c].ids
  <2>6. w \in PlacedView(c, P, R, FinishedIds(c), {a}) /\ w.started = {}
    BY <1>1, <1>5, <2>1, WithoutPendingPlaced, WithoutPendingFramed
  <2>7. w \in FramedView(c, Q, R, G)
    <3>1. w \in View /\ Framed(c, P, R, FinishedIds(c), w) /\ a \notin Elems(w.pending)
      BY <2>6 DEF PlacedView, FramedView, Placed, Parted
    <3>2. AnsweredIds(w.events) = {}
      <4>1. w.events = <<>>
        BY <2>1 DEF WithoutPending, ViewOf
      <4> QED BY <4>1 DEF AnsweredIds, AnswersIn
    <3>3. IdsOf(w.finished) \subseteq G
      <4>1. w.finished = finished[c]
        BY <2>1 DEF WithoutPending, ViewOf
      <4> QED BY <4>1 DEF IdsOf, FinishedIds
    <3> HIDE DEF G
    <3> QED BY <2>6, <3>1, <3>2, <3>3 DEF FramedView, Framed
  <2>8. a \in G /\ a \in Waiting(c)
    BY <1>2, <1>5
  <2>9. v \in FramedView(c, Q, R \ {a}, G)
    <3> HIDE DEF Q, R, G
    <3> QED BY <1>1, <2>1, <2>4, <2>6, <2>7, <2>8, HandleResultFramed
  <2>10. R \ {a} = R
    BY <1>1, <1>5 DEF SingleIn, Apart
  <2>11. Framed(c, Q, R, G, v)
    BY <2>9, <2>10 DEF FramedView
  <2>12. Handles(c, v, Q)
    BY <1>2, <1>3, <1>5, <2>1, <2>5, <2>8, <2>11 DEF Handles
  <2> QED BY <2>12
<1>6. CASE ExecuteNextActionForUser(c)
  BY <1>4, <1>6 DEF ExecuteNextActionForUser
<1>7. CASE ClearFinished(c)
  BY <1>7, NothingCalms DEF ClearFinished
<1>8. ASSUME NEW b \in ActionIds, PreprocessActionsResults(c, b)
      PROVE  Idle /\ \E v, Q : Handles(c, v, Q)
  <2>1. PICK released : released = [i \in 1..Releasable(Completed(c, b)) |-> Completed(c, b)[i].id]
    OBVIOUS
  <2>2. PICK v : v = Enqueue(c, released)
    OBVIOUS
  <2>3. BatchResolves(c, b) /\ Idle /\ Commit(c, v, effects, executing)
    BY <1>8, <2>1, <2>2 DEF PreprocessActionsResults, BatchResolves
  <2>4. status[c] # "Error"
    <3>1. preprocessing[c] # <<>>
      BY <1>1, <2>3 DEF BatchResolves, ModelTypeOK
    <3> QED BY <1>1, <3>1 DEF TurnIn, Asleep, Awaits
  <2>5. /\ released \in Seq(ActionIds) /\ Elems(released) \subseteq PreprocessingIds(c)
        /\ PreprocessingIds(c)' \subseteq PreprocessingIds(c)
        /\ \A d \in Conversations : d # c => preprocessing'[d] = preprocessing[d]
    BY <1>1, <2>1, <2>3, ReleasedOnce DEF SingleIn
  <2>6. v \in VoicedView(c) /\ v \in MuteView
    BY <1>1, <2>2, <2>4, <2>5, EnqueueVoiced, EnqueueMute
  <2>7. v \in FramedView(c, P \cup Elems(released), running[c].ids, FinishedIds(c))
    BY <1>1, <2>2, <2>5, EnqueueFramed
  <2> DEFINE Q == P \cup Elems(released)
  <2>8. Framed(c, Q, running[c].ids, G, v) /\ Q \subseteq Waiting(c)
    BY <1>2, <2>5, <2>7, WiderFrame DEF Waiting
  <2>9. Handles(c, v, Q)
    BY <2>3, <2>5, <2>6, <2>8 DEF Handles
  <2> QED BY <2>3, <2>9
<1>9. ASSUME NEW a \in ActionIds, DenyRunAgents(c, a) PROVE Idle /\ \E v, Q : Handles(c, v, Q)
  BY <1>5, <1>9 DEF DenyRunAgents, Results
<1>10. ASSUME NEW a \in ActionIds, NEW reason \in UserReasons, CancelActionWithId(c, a, reason)
       PROVE  Calms \/ (Idle /\ \E v, Q : Handles(c, v, Q))
  <2>1. Idle /\ UNCHANGED preprocessing /\ reason \in Reasons
    BY <1>10 DEF CancelActionWithId, UserReasons
  <2>2. CASE CancelRunning(c, a, reason) /\ UNCHANGED <<pending, running>>
    BY <1>1, <2>1, <2>2, ResolvesCalm DEF CancelRunning
  <2>3. CASE /\ a \in P
             /\ Commit(c, HandleResult(c, WithoutPending(c, a), a, "Cancelled", reason),
                       effects, executing)
    BY <1>5, <2>1, <2>3 DEF Results
  <2> QED BY <1>10, <2>2, <2>3 DEF CancelActionWithId
<1>11. ASSUME NEW a \in ActionIds, CompleteAsync(c, a) PROVE Calms
  <2>1. PICK res : FutureResolves(c, a, res)
    BY <1>11 DEF CompleteAsync
  <2>2. Idle /\ UNCHANGED <<preprocessing, running, pending>>
    BY <1>11 DEF CompleteAsync
  <2>3. CASE executing[a] = NoConv
    BY <2>1, <2>2, <2>3, NothingCalms DEF FutureResolves
  <2>4. CASE executing[a] # NoConv
    BY <1>1, <2>1, <2>2, <2>4, ResolvesCalm DEF FutureResolves
  <2> QED BY <2>3, <2>4
<1>12. PICK goal \in BOOLEAN : goal = (Calms \/ (Idle /\ \E v, Q : Handles(c, v, Q)))
  OBVIOUS
<1>13. \A a \in ActionIds :
           \/ PreprocessActionsResults(c, a)
           \/ ExecuteAction(c, a)
           \/ DenyRunAgents(c, a)
           \/ \E reason \in UserReasons : CancelActionWithId(c, a, reason)
           \/ CompleteAsync(c, a)
           => goal
  BY <1>4, <1>8, <1>9, <1>10, <1>11, <1>12
<1>14. goal
  BY <1>6, <1>7, <1>12, <1>13 DEF ActionStep
<1> QED BY <1>12, <1>14

LEMMA NothingAnnounced ==
    ASSUME Idle PROVE Elems(effects) = {} /\ effects \in Seq(Event) /\ effects = <<>>
BY DEF Idle, Elems

\* The first result that awaits delivery is handled: a handler of c that takes actions
\* from the queue only, and finishes the one that was announced.
Delivers(c, v) ==
    LET a == Head(effects).id IN
    /\ Head(effects).type = "ExecutorFinished" /\ c = Head(effects).conv
    /\ v = HandleResult(c, ViewOf(c), a, Head(effects).res, Head(effects).reason)
    /\ v \in View /\ Framed(c, Elems(pending[c]), running[c].ids \ {a}, FinishedIds(c) \cup {a}, v)
    /\ \A e \in Elems(v.events) : e.conv = c /\ (e.type = "ExecutorFinished" => Known(e))
    /\ Commit(c, v, Tail(effects), executing) /\ UNCHANGED preprocessing
    /\ a \in AnsweredFor(c, effects)
    /\ AnsweredFor(c, Tail(effects)) = AnsweredFor(c, effects) \ {a}
    /\ Tail(effects) \in Seq(ControllerEvent) /\ Elems(Tail(effects)) \subseteq Elems(effects)

LEMMA DeliverForm ==
    ASSUME TurnState, DeliverExecutorFinished
    PROVE  \E c \in Conversations : \E v : Delivers(c, v)
<1>e. PICK e, queue : e = Head(effects) /\ queue = Tail(effects)
  OBVIOUS
<1>c. PICK c : c = e.conv
  OBVIOUS
<1>a. PICK a, res, reason : a = e.id /\ res = e.res /\ reason = e.reason
  OBVIOUS
<1>v. PICK w, v : w = ViewOf(c) /\ v = HandleResult(c, w, a, res, reason)
  OBVIOUS
<1>1. /\ ModelTypeOK /\ effects \in Seq(ControllerEvent) /\ ~Idle /\ effects # <<>>
      /\ e.type = "ExecutorFinished" /\ Commit(c, v, queue, executing) /\ UNCHANGED preprocessing
  BY <1>e, <1>c, <1>a, <1>v, TurnStateParts DEF DeliverExecutorFinished, Idle
<1>2. /\ c \in Conversations /\ a \in ActionIds /\ res \in Results
      /\ reason \in Reasons \cup {NoReason}
      /\ 1 \in AnswersFor(c, effects) /\ a \in AnsweredFor(c, effects)
  BY <1>e, <1>c, <1>a, <1>1, ControllerExtends, HeadIsAnswer
<1>3. TurnIn(c) /\ SingleIn(c) /\ AnsweredOnce(c, effects)
  BY <1>2, TurnStateParts DEF SinglesInv
<1>4. AnsweredFor(c, queue) = AnsweredFor(c, effects) \ {a}
  BY <1>e, <1>a, <1>1, <1>2, <1>3, AnswersForTail
<1>5. queue \in Seq(ControllerEvent) /\ Elems(queue) \subseteq Elems(effects)
  BY <1>e, <1>1, HeadOfEffects
<1>6. PICK P, R, F : P = Elems(pending[c]) /\ R = running[c].ids /\ F = FinishedIds(c) \cup {a}
  OBVIOUS
<1>7. w \in FramedView(c, P, R, F) /\ w.started = {}
  <2>1. w \in FramedView(c, P, R, FinishedIds(c)) /\ w.started = {}
    BY <1>v, <1>1, <1>2, <1>6, ViewOfFramed
  <2> QED BY <1>6, <2>1 DEF FramedView, Framed
<1>8. v \in FramedView(c, P, R \ {a}, F)
  BY <1>v, <1>1, <1>2, <1>6, <1>7, HandleResultFramed
<1>9. \A x \in Elems(v.events) : x.conv = c /\ (x.type = "ExecutorFinished" => Known(x))
  <2>1. CASE status[c] # "Error"
    <3>1. w \in VoicedView(c)
      BY <1>v, <1>1, <1>2, <2>1, ViewOfVoiced
    <3>2. v \in VoicedView(c)
      BY <1>v, <1>1, <1>2, <3>1, HandleResultVoiced
    <3> QED BY <1>1, <3>2, VoicedKnown
  <2>2. CASE status[c] = "Error"
    <3>1. Asleep(c)
      BY <1>3, <2>2 DEF TurnIn, Awaits
    <3>2. PICK S : S = Statuses
      OBVIOUS
    <3>3. Kept(reason, S)
      BY <3>2 DEF Kept, Statuses
    <3>4. /\ w \in View /\ w.pending = <<>> /\ w.started = {} /\ w.events = <<>>
          /\ w.status \in S
      BY <1>v, <1>1, <1>2, <3>1, <3>2, ViewOfType DEF ViewOf, Asleep, ModelTypeOK
    <3>5. \E p : /\ HandleResult(c, w, a, res, reason) \in ClosedView(c, reason, S, p)
                 /\ p.ids = w.running.ids \ {a}
      BY <1>1, <1>2, <3>3, <3>4, HandleResultClosed
    <3> QED BY <1>v, <3>5 DEF ClosedView
  <2> QED BY <2>1, <2>2
<1>10. v \in View /\ Framed(c, P, R \ {a}, F, v)
  BY <1>8 DEF FramedView
<1>11. Delivers(c, v)
  BY <1>e, <1>c, <1>a, <1>v, <1>1, <1>2, <1>4, <1>5, <1>6, <1>9, <1>10 DEF Delivers
<1> QED BY <1>2, <1>11

\* Every step is one of these.
LEMMA StepForms ==
    ASSUME TurnState, ReasonsComplete, [ControllerNext]_controllerVars
    PROVE  \/ Calms
           \/ Idle /\ \E c \in Conversations : \E v, Q : Handles(c, v, Q)
           \/ \E c \in Conversations : StreamEnds(c)
           \/ \E c \in Conversations : \E v : Delivers(c, v)
<1>1. ASSUME NEW c \in Conversations, StreamStep(c), ~StreamEnds(c) PROVE Calms
  <2>1. \E next, s : Streamed(c, next, s)
    BY <1>1 DEF StreamStep, StreamSucceeds, StreamFails, NetworkIsLost, NetworkReturns
  <2> QED BY <2>1, NothingCalms DEF Streamed
<1>2. ASSUME NEW c \in Conversations, SendQuery(c) PROVE Calms
  BY <1>2, SendQueryTurn, HushesCalm
<1>3. ASSUME NEW c \in Conversations, NEW reason \in UserReasons,
             CancelConversationProgress(c, reason)
      PROVE  Calms
  BY <1>3, CancelConversationProgressTurn, HushesCalm
<1>4. ASSUME NEW c \in Conversations, ShellExits(c) PROVE Calms
  BY <1>4, ShellExitsTurn, HushesCalm
<1>5. ASSUME NEW c \in Conversations, SelectConversation(c) \/ AutoResume(c) PROVE Calms
  BY <1>5, NothingCalms DEF SelectConversation, AutoResume, vars
<1>6. CASE ChangeSettings \/ UNCHANGED controllerVars
  BY <1>6, NothingCalms DEF ChangeSettings, controllerVars, vars
<1>7. CASE DeliverFinishedAction \/ DeliverStreamCancelled
  <2>1. ~Idle /\ effects' = Tail(effects) /\ UNCHANGED <<preprocessing, running, pending>>
    BY <1>7 DEF DeliverFinishedAction, DeliverStreamCancelled
  <2>2. Elems(effects') \subseteq Elems(effects)
    BY <2>1, TurnStateParts, HeadOfEffects
  <2> QED BY <2>1, <2>2, NothingCalms
<1> QED
  BY <1>1, <1>2, <1>3, <1>4, <1>5, <1>6, <1>7, ActionStepForms, DeliverForm DEF ControllerNext

\* The events after a view is committed to a part of the effects.
LEMMA CommitAnnounces ==
    ASSUME ModelTypeOK, NEW c \in Conversations, NEW v \in View,
           NEW queue \in Seq(ControllerEvent), Commit(c, v, queue, executing)
    PROVE  /\ Elems(effects') = Elems(queue) \cup Elems(v.events)
           /\ \A d : AnsweredFor(d, effects') = AnsweredFor(d, queue) \cup AnsweredFor(d, v.events)
           /\ running'[c] = v.running /\ pending'[c] = v.pending
           /\ \A d \in Conversations : d # c => running'[d] = running[d] /\ pending'[d] = pending[d]
<1>1. v.events \in Seq(ControllerEvent) /\ effects' = queue \o v.events
  BY ControllerExtends, EventsAreEffects DEF View, Commit
<1>2. Elems(effects') = Elems(queue) \cup Elems(v.events)
  BY <1>1, ConcatElems
<1>3. \A d : AnsweredFor(d, effects') = AnsweredFor(d, queue) \cup AnsweredFor(d, v.events)
  BY <1>1, AnswersForConcat
<1> QED BY <1>2, <1>3 DEF Commit, ModelTypeOK

\* Results come from the phase, or were had at once, at every step.
LEMMA SourcesStep ==
    ASSUME TurnState, ReasonsComplete, SourcesInv, [ControllerNext]_controllerVars
    PROVE  SourcesInv'
<1>1. /\ ModelTypeOK /\ effects \in Seq(ControllerEvent)
      /\ \A d \in Conversations : SingleIn(d) /\ SourcedIn(d)
  BY TurnStateParts DEF SinglesInv, SourcesInv
<1>2. (\A d \in Conversations : SourcedIn(d)') => SourcesInv'
  BY DEF SourcesInv
<1>3. ASSUME running' = running, Elems(effects') \subseteq Elems(effects), NEW d \in Conversations
      PROVE  SourcedIn(d)'
  BY <1>1, <1>3 DEF SourcedIn, Known
<1>4. CASE Calms
  <2>1. ASSUME \A d \in Conversations : AnsweredFor(d, effects') \subseteq ExecutingIn(d),
               NEW d \in Conversations
        PROVE  SourcedIn(d)'
    <3>1. running' = running /\ ExecutingIn(d) \subseteq running[d].ids
      BY <1>1, <1>4 DEF Calms, SingleIn, Apart
    <3>2. \A e \in Elems(effects') : AnswerTo(d, e) => e.id \in AnsweredFor(d, effects')
      BY AnswersByElements
    <3> QED BY <2>1, <3>1, <3>2 DEF SourcedIn
  <2> QED BY <1>2, <1>3, <1>4, <2>1 DEF Calms
<1>5. CASE Idle /\ \E c \in Conversations : \E v, Q : Handles(c, v, Q)
  <2>1. PICK c \in Conversations : \E v, Q : Handles(c, v, Q)
    BY <1>5
  <2>2. PICK v, Q : Handles(c, v, Q)
    BY <2>1
  <2>3. v \in View /\ v \in VoicedView(c) /\ Commit(c, v, effects, executing)
    BY <2>2 DEF Handles, VoicedView
  <2>4. Elems(effects') = Elems(effects) \cup Elems(v.events) /\ Elems(effects) = {}
    BY <1>1, <1>5, <2>3, CommitAnnounces, NothingAnnounced
  <2>5. \A e \in Elems(effects') : e.type = "ExecutorFinished" => Known(e)
    BY <1>1, <2>3, <2>4, VoicedKnown
  <2> QED BY <1>2, <2>5 DEF SourcedIn, AnswerTo, Known
<1>6. CASE \E c \in Conversations : StreamEnds(c)
  <2>1. UNCHANGED <<running, effects>>
    BY <1>6 DEF StreamEnds, QueueActions, vars
  <2> QED BY <1>2, <1>3, <2>1
<1>7. CASE \E c \in Conversations : \E v : Delivers(c, v)
  <2>1. PICK c \in Conversations : \E v : Delivers(c, v)
    BY <1>7
  <2>2. PICK v : Delivers(c, v)
    BY <2>1
  <2>3. PICK a, queue : a = Head(effects).id /\ queue = Tail(effects)
    OBVIOUS
  <2>4. /\ v \in View /\ v.running.ids = (running[c].ids \ {a}) \cup v.started
        /\ \A e \in Elems(v.events) : e.conv = c /\ (e.type = "ExecutorFinished" => Known(e))
        /\ Commit(c, v, queue, executing)
        /\ AnsweredFor(c, queue) = AnsweredFor(c, effects) \ {a}
        /\ queue \in Seq(ControllerEvent) /\ Elems(queue) \subseteq Elems(effects)
    BY <2>2, <2>3 DEF Delivers, Framed
  <2>5. /\ Elems(effects') = Elems(queue) \cup Elems(v.events) /\ running'[c] = v.running
        /\ \A d \in Conversations : d # c => running'[d] = running[d]
    BY <1>1, <2>4, CommitAnnounces
  <2>6. ASSUME NEW d \in Conversations, NEW e \in Elems(effects'), AnswerTo(d, e)
        PROVE  e.id \in running'[d].ids \/ Known(e)
    <3>1. CASE e \in Elems(v.events)
      BY <2>4, <2>6, <3>1 DEF AnswerTo
    <3>2. CASE e \in Elems(queue) /\ d = c
      <4>1. e.id \in AnsweredFor(c, queue)
        BY <2>6, <3>2, AnswersByElements
      <4> QED BY <1>1, <2>4, <2>5, <2>6, <3>2, <4>1 DEF SourcedIn
    <3>3. CASE e \in Elems(queue) /\ d # c
      BY <1>1, <2>4, <2>5, <2>6, <3>3 DEF SourcedIn
    <3> QED BY <2>5, <2>6, <3>1, <3>2, <3>3
  <2> QED BY <1>2, <2>6 DEF SourcedIn, Known
<1> QED BY <1>4, <1>5, <1>6, <1>7, StepForms

LEMMA SourcesInit == ASSUME ControllerInit PROVE SourcesInv
<1>1. effects = <<>>
  BY DEF ControllerInit, Init
<1> QED BY <1>1 DEF SourcesInv, SourcedIn, Elems

-----------------------------------------------------------------------------
(* A request that is being answered, in the only conversation there is.    *)

OneConversation == \A c, d \in Conversations : c = d

\* The end of a cancelled stream that sets the status of its conversation.
Ends(e) == e.type = "StreamCancelled" /\ e.reason \in {"Cancelled", "Succeeded"}

\* An event that may set the status of a conversation without asking for its stream.
Revokes(e) == Ends(e) \/ (e.type = "ExecutorFinished" /\ e.reason = "Cancelled")

\* What is announced does not end an answer; the end of a stream is announced alone.
AnswerIn(c) ==
    /\ stream[c].phase = "Open" =>
           status[c] = "InProgress" /\ \A e \in Elems(effects) : ~Revokes(e)
    /\ \A e, f \in Elems(effects) : Ends(e) => f.type = "StreamCancelled"

\* The inductive invariant.
AnswerState ==
    TurnState /\ SourcesInv /\ OneConversation /\ \A c \in Conversations : AnswerIn(c)

\* The step announces only events of the action model.
LEMMA ModelEventsOnly ==
    ASSUME NEW s \in Seq(Event) PROVE \A e \in Elems(s) : ~Ends(e)
BY DEF Elems, Event, Ends

\* What arrives on a stream, and what is asked while nothing is announced.
LEMMA AnswerOfIdle ==
    ASSUME Idle, UNCHANGED effects, NEW c,
           stream'[c].phase = "Open" => status'[c] = "InProgress"
    PROVE  AnswerIn(c)'
BY NothingAnnounced DEF AnswerIn

\* A conversation that is being answered is asleep: the user can only clear its results,
\* and executions that were cancelled end without a word.
LEMMA ActionStepAnswers ==
    ASSUME AnswerState, NEW c \in Conversations, ActionStep(c)
    PROVE  AnswerIn(c)'
<1>1. ModelTypeOK /\ TurnIn(c) /\ AnswerIn(c) /\ UNCHANGED stream
  BY TurnStateParts DEF AnswerState, ActionStep, streamVars
<1>2. Idle
  BY DEF ActionStep, ExecuteNextActionForUser, ExecuteAction, MayStartForUser, ClearFinished,
     PreprocessActionsResults, BatchResolves, DenyRunAgents, CancelActionWithId, CompleteAsync
<1>3. effects' \in Seq(Event)
  <2>1. ConversationNext(c)
    BY DEF ActionStep, ConversationNext, UserReasons
  <2>2. Extends(Event)
    BY DEF Extends
  <2> QED BY <1>1, <1>2, <2>1, <2>2, NothingAnnounced, ConversationType
<1>4. ASSUME stream[c].phase = "Open"
      PROVE  status' = status /\ \A e \in Elems(effects') : ~Revokes(e)
  <2>1. Asleep(c) /\ status[c] = "InProgress" /\ Elems(effects) = {}
    BY <1>1, <1>2, <1>4, NothingAnnounced DEF TurnIn, Awaits, Streaming, AnswerIn
  <2>2. Elems(pending[c]) = {} /\ preprocessing[c] = <<>> /\ ExecutingIn(c) = {}
    BY <2>1 DEF Asleep, Elems
  <2>3. \A a : ~ExecuteAction(c, a) /\ ~DenyRunAgents(c, a) /\ ~PreprocessActionsResults(c, a)
    BY <2>2 DEF ExecuteAction, MayStartForUser, DenyRunAgents, PreprocessActionsResults,
       BatchResolves
  <2>4. ~ExecuteNextActionForUser(c)
    BY <2>3 DEF ExecuteNextActionForUser
  <2>5. \A a \in ActionIds : executing[a] = NoConv
    BY <1>1, <2>2 DEF ModelTypeOK, ExecutingIn, AnswerState, OneConversation
  <2>6. \A a \in ActionIds, reason \in UserReasons : ~CancelActionWithId(c, a, reason)
    BY <2>2, <2>5 DEF CancelActionWithId, CancelRunning
  <2>7. ASSUME NEW a \in ActionIds, CompleteAsync(c, a) PROVE UNCHANGED <<status, effects>>
    BY <2>5, <2>7 DEF CompleteAsync, FutureResolves
  <2>8. ClearFinished(c) => UNCHANGED <<status, effects>>
    BY DEF ClearFinished
  <2> QED BY <2>1, <2>3, <2>4, <2>6, <2>7, <2>8 DEF ActionStep
<1> QED BY <1>1, <1>3, <1>4, ModelEventsOnly DEF AnswerIn

\* A stream is opened again with the status.
LEMMA StreamStepAnswers ==
    ASSUME AnswerState, NEW c \in Conversations, StreamStep(c)
    PROVE  AnswerIn(c)'
<1>1. ModelTypeOK /\ TurnTypeOK /\ AnswerIn(c)
  BY TurnStateParts DEF AnswerState
<1>2. ASSUME NEW next, NEW s, Streamed(c, next, s), Idle, next.phase = "Open" => s = "InProgress"
      PROVE  AnswerIn(c)'
  <2>1. UNCHANGED effects /\ stream'[c] = next /\ status'[c] = s
    BY <1>1, <1>2 DEF Streamed, ModelTypeOK, TurnTypeOK
  <2> QED BY <1>2, <2>1, AnswerOfIdle
<1>3. \A ph : [stream[c] EXCEPT !.phase = ph].phase = ph
  BY <1>1 DEF TurnTypeOK, Streams
<1>4. CASE StreamSucceeds(c)
  <2>1. PICK output, s : Streamed(c, [stream[c] EXCEPT !.phase = "Completed", !.output = output], s)
    BY <1>4 DEF StreamSucceeds
  <2>2. PICK next : next = [stream[c] EXCEPT !.phase = "Completed", !.output = output]
    OBVIOUS
  <2>3. next.phase = "Completed"
    BY <1>1, <2>2 DEF TurnTypeOK, Streams
  <2> QED BY <1>2, <1>4, <2>1, <2>2, <2>3 DEF StreamSucceeds
<1>5. CASE StreamFails(c)
  <2>1. PICK resumes, s : Streamed(c, [stream[c] EXCEPT !.phase = "Failed", !.resumes = resumes], s)
    BY <1>5 DEF StreamFails
  <2>2. PICK next : next = [stream[c] EXCEPT !.phase = "Failed", !.resumes = resumes]
    OBVIOUS
  <2>3. next.phase = "Failed"
    BY <1>1, <2>2 DEF TurnTypeOK, Streams
  <2> QED BY <1>2, <1>5, <2>1, <2>2, <2>3 DEF StreamFails
<1>6. CASE NetworkIsLost(c)
  <2>1. PICK next, s : Streamed(c, next, s) /\ next.phase = "Waiting"
    BY <1>3, <1>6 DEF NetworkIsLost
  <2> QED BY <1>2, <1>6, <2>1 DEF NetworkIsLost
<1>7. CASE NetworkReturns(c)
  BY <1>2, <1>3, <1>7 DEF NetworkReturns
<1>8. CASE StreamEnds(c)
  <2>1. Idle /\ UNCHANGED effects /\ stream'[c] = NoStream
    BY <1>1, <1>8 DEF StreamEnds, QueueActions, vars, TurnTypeOK
  <2> QED BY <2>1, AnswerOfIdle DEF NoStream
<1> QED BY <1>4, <1>5, <1>6, <1>7, <1>8 DEF StreamStep

\* What three sequences of events speak of.
LEMMA ThreeElems ==
    ASSUME NEW r \in Seq(ControllerEvent), NEW s \in Seq(ControllerEvent),
           NEW t \in Seq(ControllerEvent)
    PROVE  Elems(r \o s \o t) = (Elems(r) \cup Elems(s)) \cup Elems(t)
<1>1. PICK q : q = r \o s
  OBVIOUS
<1>2. q \in Seq(ControllerEvent) /\ Elems(q) = Elems(r) \cup Elems(s)
  BY <1>1, ConcatElems
<1>3. Elems(q \o t) = Elems(q) \cup Elems(t)
  BY <1>2, ConcatElems
<1> QED BY <1>1, <1>2, <1>3

\* The query supersedes the actions of the conversation for the sake of the same one,
\* which is the active one: their late results leave its status.
LEMMA SendQueryAnswers ==
    ASSUME AnswerState, ReasonsComplete, NEW c \in Conversations, SendQuery(c)
    PROVE  AnswerIn(c)'
<1>r. PICK reason, p : reason = QueryReason(c) /\ p = active
  OBVIOUS
<1>d. PICK refused \in BOOLEAN : refused = (Streaming(c) /\ p # c)
  OBVIOUS
<1>v. PICK v, w : v = CancelPending(c, ViewOf(c), reason) /\ w = Interrupted(p, reason)
  OBVIOUS
<1>D. PICK D : D = {c} \cup {d \in {p} \ {c} : ~Streaming(d)}
  OBVIOUS
<1>o. PICK own : own = IF Streaming(c) /\ ~refused THEN <<StreamCancelled(c, reason)>> ELSE <<>>
  OBVIOUS
<1>1. TurnState /\ TurnTypeOK
  BY TurnStateParts DEF AnswerState
<1>2. Sends(c, p, refused, v, w, D) /\ Emits(c, p, reason, own, v, w)
  BY <1>r, <1>d, <1>v, <1>D, <1>o, SendQueryForm
<1>3. p = c /\ ~refused /\ reason = "KeepInProgress" /\ reason \in Reasons
  <2>1. p \in Conversations
    BY <1>1, <1>2, <1>r DEF TurnTypeOK, Sends
  <2> QED BY <1>r, <1>d, <2>1 DEF AnswerState, OneConversation, QueryReason, ReasonsComplete
<1>4. MayAct(c) /\ Idle /\ status'[c] = "InProgress"
  BY <1>2, <1>3 DEF Sends, MayAct
<1>5. v \in Ceased(c, reason)
  BY <1>1, <1>3, <1>v, ViewCeases
<1>6. own \in SpeaksOf(c, {}, reason)
  BY <1>1, <1>3, <1>4, <1>o, UserActs, StreamCancelledSpeaks, SpeaksNothing
<1>7. PICK listed \in Orderings(ExecutingIn(c)) :
          effects' = effects \o <<>> \o own \o CancelledEvents(c, listed, reason) \o v.events
  BY <1>2, <1>3 DEF Emits
<1>8. PICK mid, last : mid = CancelledEvents(c, listed, reason) /\ last = v.events
  OBVIOUS
<1>9. PICK X \in SUBSET ActionIds : X = ExecutingIn(c)
  BY DEF ExecutingIn
<1>10. mid \in SpeaksOf(c, X, reason) /\ last \in SpeaksOf(c, {}, reason)
  BY <1>3, <1>5, <1>7, <1>8, <1>9, CancelledSpeaks, CeasedSpeaks
<1>11. effects = <<>> /\ own \in Seq(ControllerEvent) /\ mid \in Seq(ControllerEvent)
       /\ last \in Seq(ControllerEvent)
  BY <1>4, <1>6, <1>10 DEF SpeaksOf, Idle
<1>12. effects' = own \o mid \o last
  BY <1>7, <1>8, <1>11
<1>13. Elems(effects') = (Elems(own) \cup Elems(mid)) \cup Elems(last)
  BY <1>11, <1>12, ThreeElems
<1>14. \A e \in Elems(effects') : e.reason = "KeepInProgress"
  BY <1>3, <1>6, <1>10, <1>13 DEF SpeaksOf
<1> QED BY <1>4, <1>14 DEF AnswerIn, Revokes, Ends

\* A stop ends the answer.
LEMMA CancelProgressAnswers ==
    ASSUME AnswerState, NEW c \in Conversations, NEW reason \in UserReasons,
           CancelConversationProgress(c, reason)
    PROVE  AnswerIn(c)'
<1>1. TurnState /\ TurnTypeOK /\ reason \in Reasons /\ MayAct(c) /\ Idle
  BY TurnStateParts DEF AnswerState, UserReasons, CancelConversationProgress, MayAct
<1>2. stream'[c].phase = "None"
  BY <1>1 DEF CancelConversationProgress, TurnTypeOK, NoStream
<1>3. PICK v : v = Interrupted(c, reason)
  OBVIOUS
<1>4. v \in Ceased(c, reason)
  BY <1>1, <1>3, InterruptedCeases
<1>5. PICK listed \in Orderings(InterruptedActions(c)) :
          effects' = effects \o InterruptedEvents(c, listed, reason) \o v.events
  BY <1>3 DEF CancelConversationProgress, Commit
<1>6. v.events \in Seq(Event) /\ effects = <<>>
  BY <1>1, <1>4, NothingAnnounced DEF Ceased, View
<1>7. CASE Streaming(c)
  <2>1. v.events = <<>>
    BY <1>3, <1>7 DEF Interrupted, ViewOf
  <2>2. PICK e : e = StreamCancelled(c, reason)
    OBVIOUS
  <2>3. effects' = <<e>>
    BY <1>5, <1>6, <1>7, <2>1, <2>2 DEF InterruptedEvents
  <2>4. \A f \in Elems(effects') : f.type = "StreamCancelled"
    BY <2>2, <2>3 DEF Elems, StreamCancelled
  <2> QED BY <1>2, <2>4 DEF AnswerIn
<1>8. CASE ~Streaming(c)
  <2>1. PICK mid : mid = CancelledEvents(c, listed, reason)
    OBVIOUS
  <2>2. listed \in Seq(ActionIds)
    BY <1>5, <1>8, OrderingsType DEF InterruptedActions, ExecutingIn
  <2>3. mid \in Seq(Event) /\ effects' = mid \o v.events
    <3>1. mid \in Seq(Event)
      BY <1>1, <2>1, <2>2, CancelledEventsType
    <3> QED BY <1>5, <1>6, <1>8, <2>1, <3>1 DEF InterruptedEvents
  <2>4. effects' \in Seq(Event)
    BY <1>6, <2>3
  <2> QED BY <1>2, <2>4, ModelEventsOnly DEF AnswerIn
<1> QED BY <1>7, <1>8

\* So does the exit of the shell, with a reason of its own.
LEMMA ShellExitsAnswers ==
    ASSUME AnswerState, NEW c \in Conversations, ShellExits(c)
    PROVE  AnswerIn(c)'
<1>1. /\ TurnState /\ TurnTypeOK /\ ModelTypeOK /\ MayAct(c) /\ Idle
      /\ "FinalizedExternally" \in Reasons
  BY TurnStateParts DEF AnswerState, ShellExits, MayAct
<1>2. stream'[c].phase = "None"
  BY <1>1 DEF ShellExits, TurnTypeOK, NoStream
<1>r. PICK reason : reason = "FinalizedExternally"
  OBVIOUS
<1>3. PICK v, own : /\ v = CancelPending(c, ViewOf(c), reason)
                    /\ own = IF Streaming(c) THEN <<StreamCancelled(c, reason)>> ELSE <<>>
  OBVIOUS
<1>4. v \in Ceased(c, reason)
  BY <1>1, <1>r, <1>3, ViewCeases
<1>6. \A st : [v EXCEPT !.status = st].events = v.events
  BY <1>4 DEF Ceased, View
<1>5. PICK listed \in Orderings(ExecutingIn(c)) :
          effects' = effects \o own \o CancelledEvents(c, listed, reason) \o v.events
  BY <1>r, <1>3, <1>6 DEF ShellExits, Commit
<1>7. PICK mid, last : mid = CancelledEvents(c, listed, reason) /\ last = v.events
  OBVIOUS
<1>8. PICK X \in SUBSET ActionIds : X = ExecutingIn(c)
  BY DEF ExecutingIn
<1>9. /\ mid \in SpeaksOf(c, X, reason) /\ last \in SpeaksOf(c, {}, reason)
      /\ own \in SpeaksOf(c, {}, reason)
  BY <1>1, <1>r, <1>3, <1>4, <1>5, <1>7, <1>8, CancelledSpeaks, CeasedSpeaks, UserActs,
     StreamCancelledSpeaks, SpeaksNothing
<1>10. effects = <<>> /\ own \in Seq(ControllerEvent) /\ mid \in Seq(ControllerEvent)
       /\ last \in Seq(ControllerEvent)
  BY <1>1, <1>9 DEF SpeaksOf, Idle
<1>11. effects' = own \o mid \o last
  BY <1>5, <1>7, <1>10
<1>12. Elems(effects') = (Elems(own) \cup Elems(mid)) \cup Elems(last)
  BY <1>10, <1>11, ThreeElems
<1>13. \A e \in Elems(effects') : e.reason = "FinalizedExternally"
  BY <1>r, <1>9, <1>12 DEF SpeaksOf
<1> QED BY <1>2, <1>13 DEF AnswerIn, Ends

\* A result that comes while the agent answers is not one of a cancellation, and the
\* answered conversation has nothing queued: its status is left.
LEMMA DeliverExecutorFinishedAnswers ==
    ASSUME AnswerState, DeliverExecutorFinished, UNCHANGED stream, NEW c \in Conversations
    PROVE  AnswerIn(c)'
<1>e. PICK e : e = Head(effects)
  OBVIOUS
<1>1. /\ ModelTypeOK /\ TurnState /\ TurnIn(c) /\ AnswerIn(c) /\ ~Idle
      /\ effects \in Seq(ControllerEvent) /\ e.type = "ExecutorFinished"
  BY <1>e, TurnStateParts DEF AnswerState, DeliverExecutorFinished
<1>2. PICK queue : queue = Tail(effects)
  OBVIOUS
<1>3. /\ e \in ControllerEvent /\ e \in Elems(effects)
      /\ queue \in Seq(ControllerEvent) /\ Elems(queue) \subseteq Elems(effects)
  BY <1>1, <1>2, <1>e, HeadOfEffects
<1>4. /\ e.id \in ActionIds /\ e.res \in Results /\ e.reason \in Reasons \cup {NoReason}
      /\ e.conv = c
  BY <1>1, <1>3 DEF ControllerEvent, Event, AnswerState, OneConversation
<1>5. PICK w, v : w = ViewOf(c) /\ v = HandleResult(c, w, e.id, e.res, e.reason)
  OBVIOUS
<1>6. Commit(c, v, queue, executing)
  BY <1>2, <1>4, <1>5, <1>e DEF DeliverExecutorFinished
<1>7. w \in View /\ v \in View
  BY <1>1, <1>4, <1>5, ViewOfType, HandleResultType
<1>8. v.events \in Seq(Event) /\ v.events \in Seq(ControllerEvent)
  BY <1>7, ControllerExtends, EventsAreEffects DEF View
<1>9. effects' = queue \o v.events /\ status'[c] = v.status
  BY <1>1, <1>6 DEF Commit, ModelTypeOK
<1>10. Elems(effects') = Elems(queue) \cup Elems(v.events)
  BY <1>3, <1>8, <1>9, ConcatElems
<1>11. \A f \in Elems(effects') : ~Ends(f)
  <2>1. \A f \in Elems(effects) : ~Ends(f)
    BY <1>1, <1>3 DEF AnswerIn
  <2> QED BY <1>3, <1>8, <1>10, <2>1, ModelEventsOnly
<1>12. ASSUME stream[c].phase = "Open"
       PROVE  status'[c] = "InProgress" /\ \A f \in Elems(effects') : ~Revokes(f)
  <2>1. /\ Asleep(c) /\ status[c] = "InProgress" /\ e.reason # "Cancelled"
        /\ \A f \in Elems(effects) : ~Revokes(f)
    BY <1>1, <1>3, <1>12 DEF TurnIn, Awaits, Streaming, AnswerIn, Revokes
  <2>2. PICK S : S = {"InProgress"}
    OBVIOUS
  <2>3. Kept(e.reason, S)
    BY <2>1 DEF Kept
  <2>4. w.pending = <<>> /\ w.started = {} /\ w.events = <<>> /\ w.status \in S
    BY <1>5, <2>1, <2>2 DEF ViewOf, Asleep
  <2>5. PICK p : v \in ClosedView(c, e.reason, S, p)
    <3>1. PICK a, res, reason : a = e.id /\ res = e.res /\ reason = e.reason
      OBVIOUS
    <3>2. a \in ActionIds /\ res \in Results /\ reason \in Reasons \cup {NoReason}
      BY <1>4, <3>1
    <3>3. Kept(reason, S) /\ w \in View
      BY <1>7, <2>3, <3>1
    <3>4. \E p : /\ HandleResult(c, w, a, res, reason) \in ClosedView(c, reason, S, p)
                 /\ p.ids = w.running.ids \ {a}
      BY <1>1, <2>4, <3>2, <3>3, HandleResultClosed
    <3> QED BY <1>5, <3>1, <3>4
  <2>6. v.status = "InProgress" /\ \A f \in Elems(v.events) : f.type = "Finished"
    BY <2>2, <2>5 DEF ClosedView
  <2> QED BY <1>3, <1>9, <1>10, <2>1, <2>6 DEF Revokes, Ends
<1> QED BY <1>11, <1>12 DEF AnswerIn

\* A follow-up is sent when every result of the conversation has been handled, so that
\* none is left that could revoke it; another result of a streaming conversation waits.
LEMMA DeliverFinishedActionAnswers ==
    ASSUME AnswerState, DeliverFinishedAction, NEW c \in Conversations
    PROVE  AnswerIn(c)'
<1>e. PICK e : e = Head(effects)
  OBVIOUS
<1>1. /\ ModelTypeOK /\ TurnTypeOK /\ AnswerIn(c) /\ ~Idle /\ SingleIn(c)
      /\ effects \in Seq(ControllerEvent) /\ e.type = "Finished" /\ effects' = Tail(effects)
  BY <1>e, TurnStateParts DEF AnswerState, DeliverFinishedAction, SinglesInv
<1>2. /\ e \in ControllerEvent /\ e \in Elems(effects) /\ Elems(effects') \subseteq Elems(effects)
  BY <1>1, <1>e, HeadOfEffects
<1>3. e.conv = c
  BY <1>1, <1>2 DEF ControllerEvent, Event, AnswerState, OneConversation
<1>4. \A f \in Elems(effects) : ~Ends(f)
  BY <1>1, <1>2 DEF AnswerIn
<1>5. CASE FollowUp(c) /\ ~Quiet(c, e.reason)
  <2>1. status'[c] = "InProgress"
    BY <1>1, <1>5 DEF FollowUp, ModelTypeOK
  <2>2. running[c].ids = {}
    BY <1>5 DEF Quiet, HasUnfinished
  <2>3. ASSUME NEW f \in Elems(effects), f.type = "ExecutorFinished"
        PROVE  f.reason # "Cancelled"
    <3>1. f.conv = c
      <4>1. f \in ControllerEvent
        BY <1>1 DEF Elems
      <4> QED BY <2>3, <4>1 DEF ControllerEvent, Event, AnswerState, OneConversation
    <3>2. Known(f)
      BY <2>2, <2>3, <3>1 DEF AnswerState, SourcesInv, SourcedIn, AnswerTo
    <3> QED BY <3>2 DEF Known, NoReason
  <2> QED BY <1>2, <1>4, <2>1, <2>3 DEF AnswerIn, Revokes
<1>6. CASE ~FollowUp(c) \/ Quiet(c, e.reason)
  <2>1. /\ UNCHANGED stream
        /\ status' = [status EXCEPT ![c] =
              IF Quiet(c, e.reason) \/ WantsFollowUp(c, e.reason) THEN @
              ELSE EndedStatus(c, e.reason)]
    BY <1>3, <1>6, <1>e DEF DeliverFinishedAction
  <2>2. stream[c].phase = "Open" => status'[c] = status[c]
    BY <1>1, <2>1 DEF EndedStatus, Streaming, ModelTypeOK
  <2> QED BY <1>1, <1>2, <1>4, <2>1, <2>2 DEF AnswerIn
<1> QED BY <1>5, <1>6

\* The end of a cancelled stream leaves the status of what is being answered.
LEMMA DeliverStreamCancelledAnswers ==
    ASSUME AnswerState, DeliverStreamCancelled, NEW c \in Conversations
    PROVE  AnswerIn(c)'
<1>e. PICK e : e = Head(effects)
  OBVIOUS
<1>1. /\ ModelTypeOK /\ AnswerIn(c) /\ ~Idle /\ UNCHANGED stream
      /\ effects \in Seq(ControllerEvent) /\ e.type = "StreamCancelled"
      /\ effects' = Tail(effects)
      /\ status' = [status EXCEPT ![e.conv] =
                       IF e.reason = "Cancelled" THEN "Cancelled"
                       ELSE IF e.reason = "Succeeded" THEN "Success" ELSE @]
  BY <1>e, TurnStateParts DEF AnswerState, DeliverStreamCancelled
<1>2. e \in Elems(effects) /\ Elems(effects') \subseteq Elems(effects)
  BY <1>1, <1>e, HeadOfEffects
<1>3. ASSUME stream[c].phase = "Open" PROVE status'[c] = status[c]
  <2>1. ~Ends(e)
    BY <1>1, <1>2, <1>3 DEF AnswerIn, Revokes
  <2> QED BY <1>1, <2>1 DEF Ends, ModelTypeOK
<1> QED BY <1>1, <1>2, <1>3 DEF AnswerIn

\* What neither speaks nor touches the conversation, or asks again after a failure.
LEMMA SelectAnswers ==
    ASSUME AnswerState, NEW c \in Conversations, SelectConversation(c) \/ AutoResume(c)
    PROVE  AnswerIn(c)'
<1>1. /\ ModelTypeOK /\ TurnTypeOK /\ AnswerIn(c) /\ Idle /\ UNCHANGED effects
  BY TurnStateParts DEF AnswerState, SelectConversation, AutoResume, vars
<1>2. CASE status'[c] = "InProgress"
  BY <1>1, <1>2, AnswerOfIdle
<1>3. CASE UNCHANGED <<stream, status>>
  BY <1>1, <1>3 DEF AnswerIn
<1> QED BY <1>1, <1>2, <1>3 DEF SelectConversation, AutoResume, ModelTypeOK, vars

LEMMA AnswerStep ==
    ASSUME AnswerState, ReasonsComplete, [ControllerNext]_controllerVars PROVE AnswerState'
<1>1. TurnState' /\ SourcesInv' /\ OneConversation
  BY TurnStep, SourcesStep DEF AnswerState
<1>2. ASSUME NEW d \in Conversations PROVE AnswerIn(d)'
  <2>1. \A c \in Conversations : c = d
    BY DEF AnswerState, OneConversation
  <2>2. ASSUME NEW c \in Conversations, ActionStep(c) \/ StreamStep(c) \/ SendQuery(c)
                    \/ SelectConversation(c) \/ AutoResume(c) \/ ShellExits(c)
        PROVE  AnswerIn(d)'
    <3>1. AnswerIn(c)'
      BY <2>2, ActionStepAnswers, StreamStepAnswers, SendQueryAnswers, SelectAnswers,
         ShellExitsAnswers
    <3> QED BY <2>1, <3>1
  <2>3. ASSUME NEW c \in Conversations, NEW reason \in UserReasons,
               CancelConversationProgress(c, reason)
        PROVE  AnswerIn(d)'
    <3>1. AnswerIn(c)'
      BY <2>3, CancelProgressAnswers
    <3> QED BY <2>1, <3>1
  <2>4. CASE (ChangeSettings /\ UNCHANGED streamVars) \/ UNCHANGED controllerVars
    <3>1. UNCHANGED <<stream, status, effects>>
      BY <2>4 DEF ChangeSettings, streamVars, controllerVars, vars
    <3> QED BY <3>1 DEF AnswerState, AnswerIn
  <2>5. CASE DeliverExecutorFinished /\ UNCHANGED streamVars
    BY <2>5, DeliverExecutorFinishedAnswers DEF streamVars
  <2> QED
    BY <2>2, <2>3, <2>4, <2>5, DeliverFinishedActionAnswers, DeliverStreamCancelledAnswers
       DEF ControllerNext
<1> QED BY <1>1, <1>2 DEF AnswerState

LEMMA AnswerInit == ASSUME ControllerInit, NEW c \in Conversations PROVE AnswerIn(c)
BY DEF ControllerInit, Init, AnswerIn, NoStream, Elems

-----------------------------------------------------------------------------
(***************************************************************************)
(* Follow-ups, where an action whose result is had at once is alone in its *)
(* output.  What has no result yet is of one output, so that such an       *)
(* action is alone among it.                                               *)
(***************************************************************************)
ResultsAlone ==
    /\ ~Autonomous
    /\ \A c \in Conversations : \A o \in Outputs[c] :
           \A a \in Elems(o) \cap AtOnce : Elems(o) = {a}

OneOutput(c) == \E o \in Outputs[c] \cup {<<>>} : Unsettled(c) \subseteq Elems(o)

\* A result of c that nothing in the phase accounts for awaits delivery without the
\* announcement that an action of c is finished.
Alone(c) ==
    \A e, f \in Elems(effects) :
        (AnswerTo(c, e) /\ e.id \notin running[c].ids) => ~(f.type = "Finished" /\ f.conv = c)

\* The inductive invariant.
FollowState ==
    TurnState /\ SourcesInv /\ ResultsAlone /\ \A c \in Conversations : OneOutput(c) /\ Alone(c)

LEMMA LoneResult ==
    ASSUME ResultsAlone, NEW c \in Conversations, OneOutput(c),
           NEW a \in Unsettled(c), NEW b \in Unsettled(c), a \in AtOnce
    PROVE  b = a
<1>1. PICK o \in Outputs[c] \cup {<<>>} : Unsettled(c) \subseteq Elems(o)
  BY DEF OneOutput
<1>2. a \in Elems(o) /\ b \in Elems(o)
  BY <1>1
<1>3. o \in Outputs[c]
  BY <1>1, <1>2 DEF Elems
<1> QED BY <1>2, <1>3 DEF ResultsAlone

\* What has no result, before and after.
LEMMA UnsettledParts ==
    ASSUME NEW c
    PROVE  /\ Unsettled(c) = PreprocessingIds(c) \cup Elems(pending[c]) \cup running[c].ids
                             \cup AnsweredFor(c, effects)
           /\ Unsettled(c)' = PreprocessingIds(c)' \cup Elems(pending'[c]) \cup running'[c].ids
                             \cup AnsweredFor(c, effects')
BY AwaitingAnswered DEF Unsettled, Elems

\* Fewer events announce fewer results.
LEMMA FewerAnswers ==
    ASSUME NEW c, NEW s, NEW t, Elems(s) \subseteq Elems(t)
    PROVE  AnsweredFor(c, s) \subseteq AnsweredFor(c, t)
BY AnswersByElements, AnsweredByElements

\* The actions without a result become fewer, or are those of a new output.
LEMMA UnsettledStep ==
    ASSUME TurnState, ReasonsComplete, [ControllerNext]_controllerVars, NEW d \in Conversations
    PROVE  \/ Unsettled(d)' \subseteq Unsettled(d)
           \/ \E o \in Outputs[d] : Unsettled(d)' = Elems(o)
<1>1. /\ ModelTypeOK /\ TurnTypeOK /\ effects \in Seq(ControllerEvent) /\ SingleIn(d)
  BY TurnStateParts DEF SinglesInv
<1>2. CASE Calms
  <2>1. PreprocessingIds(d)' = PreprocessingIds(d) /\ running'[d] = running[d]
    BY <1>2 DEF Calms, PreprocessingIds
  <2>2. Elems(pending'[d]) \subseteq Elems(pending[d])
    BY <1>2 DEF Calms, Elems
  <2>3. ExecutingIn(d) \subseteq running[d].ids
    BY <1>1 DEF SingleIn, Apart
  <2>4. AnsweredFor(d, effects') \subseteq AnsweredFor(d, effects) \cup running[d].ids
    BY <1>2, <2>3, FewerAnswers DEF Calms
  <2> QED BY <2>1, <2>2, <2>4, UnsettledParts
<1>3. CASE Idle /\ \E c \in Conversations : \E v, Q : Handles(c, v, Q)
  <2>1. PICK c \in Conversations : \E v, Q : Handles(c, v, Q)
    BY <1>3
  <2>2. PICK v, Q : Handles(c, v, Q)
    BY <2>1
  <2>3. PICK R, F : R = running[c].ids /\ F = FinishedIds(c) \cup Waiting(c)
    OBVIOUS
  <2>4. /\ v \in FramedView(c, Q, R, F) /\ Commit(c, v, effects, executing) /\ v \in View
        /\ Q \subseteq Waiting(c) /\ PreprocessingIds(c)' \subseteq PreprocessingIds(c)
        /\ \A b \in Conversations : b # c => preprocessing'[b] = preprocessing[b]
    BY <2>2, <2>3 DEF Handles, FramedView, VoicedView
  <2>5. /\ \A b : AnsweredFor(b, effects') = AnsweredFor(b, effects) \cup AnsweredFor(b, v.events)
        /\ running'[c] = v.running /\ pending'[c] = v.pending
        /\ \A b \in Conversations : b # c => running'[b] = running[b] /\ pending'[b] = pending[b]
    BY <1>1, <2>4, CommitAnnounces
  <2>6. AnsweredFor(c, v.events) \subseteq Q /\ (d # c => AnsweredFor(d, v.events) = {})
    BY <2>4, AnswersForView
  <2>7. CASE d = c
    <3>1. Elems(v.pending) \subseteq Q /\ v.running.ids \subseteq R \cup Q
      BY <2>4 DEF FramedView, Framed
    <3>2. Q \subseteq PreprocessingIds(c) \cup Elems(pending[c])
      BY <2>4 DEF Waiting
    <3> QED BY <2>3, <2>4, <2>5, <2>6, <2>7, <3>1, <3>2, UnsettledParts
  <2>8. CASE d # c
    <3>1. PreprocessingIds(d)' = PreprocessingIds(d)
      BY <2>4, <2>8 DEF PreprocessingIds
    <3> QED BY <2>5, <2>6, <2>8, <3>1, UnsettledParts
  <2> QED BY <2>7, <2>8
<1>4. CASE \E c \in Conversations : StreamEnds(c)
  <2>1. PICK c \in Conversations : StreamEnds(c)
    BY <1>4
  <2>2. CASE UNCHANGED vars
    BY <2>2, UnsettledParts DEF vars, PreprocessingIds
  <2>3. CASE stream[c].output # <<>> /\ d # c
    <3>1. PreprocessingIds(d)' = PreprocessingIds(d) /\ UNCHANGED <<pending, running, effects>>
      BY <1>1, <2>1, <2>3 DEF StreamEnds, QueueActions, ModelTypeOK, PreprocessingIds
    <3> QED BY <3>1, UnsettledParts
  <2>4. CASE stream[c].output # <<>> /\ d = c
    <3>1. PICK o \in Outputs[c] : o = stream[c].output
      BY <1>1, <2>4 DEF TurnTypeOK
    <3>2. /\ Idle /\ Asleep(c) /\ UNCHANGED <<pending, running, effects>>
          /\ preprocessing' = [preprocessing EXCEPT ![c] = @ \o Tagged(o)]
      BY <2>1, <2>4, <3>1, TurnStateParts DEF StreamEnds, QueueActions, TurnIn, Awaits, Streaming
    <3>3. o \in Seq(ActionIds) /\ o # <<>> /\ Injective(o)
      BY <2>4, <3>1, OutputsAssumption
    <3>4. Tagged(o) \in Seq(Entry) /\ IdsOf(Tagged(o)) = Elems(o)
      BY <3>3, TaggedOnce
    <3>5. preprocessing'[c] = Tagged(o)
      BY <1>1, <3>2, <3>4 DEF Asleep, ModelTypeOK
    <3>6. PreprocessingIds(c)' = Elems(o)
      BY <3>4, <3>5 DEF PreprocessingIds, IdsOf
    <3>7. running[c].ids = {} /\ Elems(pending[c]) = {}
      BY <3>2, IdleRunning DEF Asleep, Elems
    <3>8. AnsweredFor(c, effects) = {}
      BY <3>2, AnswersForNone DEF Idle
    <3>9. Unsettled(c)' = Elems(o)
      BY <3>2, <3>6, <3>7, <3>8, UnsettledParts
    <3> QED BY <2>4, <3>9
  <2> QED BY <2>1, <2>2, <2>3, <2>4 DEF StreamEnds
<1>5. CASE \E c \in Conversations : \E v : Delivers(c, v)
  <2>1. PICK c \in Conversations : \E v : Delivers(c, v)
    BY <1>5
  <2>2. PICK v : Delivers(c, v)
    BY <2>1
  <2>3. PICK a, queue : a = Head(effects).id /\ queue = Tail(effects)
    OBVIOUS
  <2>4. PICK P, R, F : P = Elems(pending[c]) /\ R = running[c].ids \ {a} /\ F = FinishedIds(c) \cup {a}
    OBVIOUS
  <2>5. /\ v \in View /\ v \in FramedView(c, P, R, F) /\ Commit(c, v, queue, executing)
        /\ UNCHANGED preprocessing
        /\ queue \in Seq(ControllerEvent) /\ Elems(queue) \subseteq Elems(effects)
    BY <2>2, <2>3, <2>4 DEF Delivers, FramedView
  <2>6. /\ \A b : AnsweredFor(b, effects') = AnsweredFor(b, queue) \cup AnsweredFor(b, v.events)
        /\ running'[c] = v.running /\ pending'[c] = v.pending
        /\ \A b \in Conversations : b # c => running'[b] = running[b] /\ pending'[b] = pending[b]
    BY <1>1, <2>5, CommitAnnounces
  <2>7. AnsweredFor(c, v.events) \subseteq P /\ (d # c => AnsweredFor(d, v.events) = {})
    BY <2>5, AnswersForView
  <2>8. /\ AnsweredFor(d, queue) \subseteq AnsweredFor(d, effects)
        /\ PreprocessingIds(d)' = PreprocessingIds(d)
    BY <2>5, FewerAnswers DEF PreprocessingIds
  <2>9. Elems(v.pending) \subseteq P /\ v.running.ids \subseteq R \cup P
    BY <2>5 DEF FramedView, Framed
  <2>10. CASE d = c
    BY <2>4, <2>6, <2>7, <2>8, <2>9, <2>10, UnsettledParts
  <2>11. CASE d # c
    BY <2>6, <2>7, <2>8, <2>11, UnsettledParts
  <2> QED BY <2>10, <2>11
<1> QED BY <1>2, <1>3, <1>4, <1>5, StepForms

LEMMA OneOutputStep ==
    ASSUME TurnState, ReasonsComplete, [ControllerNext]_controllerVars,
           NEW c \in Conversations, OneOutput(c)
    PROVE  OneOutput(c)'
<1>1. PICK o \in Outputs[c] \cup {<<>>} : Unsettled(c) \subseteq Elems(o)
  BY DEF OneOutput
<1>2. \E p \in Outputs[c] \cup {<<>>} : Unsettled(c)' \subseteq Elems(p)
  BY <1>1, UnsettledStep
<1> QED BY <1>2 DEF OneOutput, Elems

\* What is announced of one conversation says nothing of another.
LEMMA AloneKept ==
    ASSUME NEW d, Alone(d), running'[d].ids = running[d].ids,
           \A e \in Elems(effects') : e.conv = d => e \in Elems(effects)
    PROVE  Alone(d)'
BY DEF Alone, AnswerTo

\* Every result is that of an action in the phase.
LEMMA AloneAnswered ==
    ASSUME NEW d, \A e \in Elems(effects') : AnswerTo(d, e) => e.id \in running'[d].ids
    PROVE  Alone(d)'
BY DEF Alone, AnswerTo

\* An action is announced as finished when its own result was: any other result that
\* nothing in the phase accounts for would be of an action that is alone in its output.
LEMMA AloneStep ==
    ASSUME FollowState, ReasonsComplete, [ControllerNext]_controllerVars,
           NEW d \in Conversations
    PROVE  Alone(d)'
<1>1. /\ ModelTypeOK /\ TurnTypeOK /\ effects \in Seq(ControllerEvent) /\ SingleIn(d)
      /\ SourcedIn(d) /\ OneOutput(d) /\ Alone(d) /\ TurnState /\ ResultsAlone
  BY TurnStateParts DEF FollowState, SinglesInv, SourcesInv
<1>2. ASSUME NEW a, NEW b, a \in Unsettled(d), b \in Unsettled(d), a \in AtOnce PROVE a = b
  BY <1>1, <1>2, LoneResult
<1>3. \A e : Known(e) => e.id \in AtOnce
  BY <1>1 DEF Known, ResultsAlone
<1>4. CASE Calms
  <2>1. running' = running
    BY <1>4 DEF Calms
  <2>2. CASE Elems(effects') \subseteq Elems(effects)
    BY <1>1, <2>1, <2>2, AloneKept
  <2>3. CASE AnsweredFor(d, effects') \subseteq ExecutingIn(d)
    <3>1. \A e \in Elems(effects') : AnswerTo(d, e) => e.id \in AnsweredFor(d, effects')
      BY AnswersByElements
    <3>2. ExecutingIn(d) \subseteq running[d].ids
      BY <1>1 DEF SingleIn, Apart
    <3> QED BY <2>1, <2>3, <3>1, <3>2, AloneAnswered
  <2> QED BY <1>4, <2>2, <2>3 DEF Calms
<1>5. CASE Idle /\ \E c \in Conversations : \E v, Q : Handles(c, v, Q)
  <2>1. PICK c \in Conversations : \E v, Q : Handles(c, v, Q)
    BY <1>5
  <2>2. PICK v, Q : Handles(c, v, Q)
    BY <2>1
  <2>3. /\ v \in View /\ v \in VoicedView(c) /\ Commit(c, v, effects, executing)
        /\ AnsweredIds(v.events) \subseteq Q /\ Q \subseteq Waiting(c)
        /\ v \in MuteView \/ \E a \in Waiting(c) : a \notin Q
    BY <2>2 DEF Handles, VoicedView, Framed
  <2>4. Elems(effects') = Elems(v.events)
    <3>1. Elems(effects) = {}
      BY <1>5, NothingAnnounced
    <3>2. ModelTypeOK /\ effects \in Seq(ControllerEvent) /\ v \in View
      BY <1>1, <2>3
    <3>3. Elems(effects') = Elems(effects) \cup Elems(v.events)
      BY <2>3, <3>2, CommitAnnounces
    <3> QED BY <3>1, <3>3
  <2>5. \A e \in Elems(v.events) : e.conv = c /\ (e.type = "ExecutorFinished" => Known(e))
    BY <1>1, <2>3, VoicedKnown
  <2>6. ASSUME NEW e \in Elems(effects'), NEW f \in Elems(effects'), AnswerTo(d, e),
               f.type = "Finished"
        PROVE  FALSE
    <3>1. d = c /\ Known(e)
      BY <2>4, <2>5, <2>6 DEF AnswerTo
    <3>2. v \notin MuteView
      BY <2>4, <2>6 DEF MuteView
    <3>3. PICK a \in Waiting(c) : a \notin Q
      BY <2>3, <3>2
    <3>4. e.id \in Q
      <4>1. e.id \in AnsweredIds(v.events)
        BY <2>4, <2>6 DEF Elems, AnswerTo, AnsweredIds, AnswersIn
      <4> QED BY <2>3, <4>1
    <3>5. Waiting(c) \subseteq Unsettled(c)
      BY UnsettledParts DEF Waiting
    <3> QED BY <1>2, <1>3, <2>3, <3>1, <3>3, <3>4, <3>5
  <2> QED BY <2>6 DEF Alone, AnswerTo
<1>6. CASE \E c \in Conversations : StreamEnds(c)
  <2>1. UNCHANGED <<running, effects>>
    BY <1>6 DEF StreamEnds, QueueActions, vars
  <2> QED BY <1>1, <2>1, AloneKept
<1>7. CASE \E c \in Conversations : \E v : Delivers(c, v)
  <2>1. PICK c \in Conversations : \E v : Delivers(c, v)
    BY <1>7
  <2>2. PICK v : Delivers(c, v)
    BY <2>1
  <2>3. PICK a, queue : a = Head(effects).id /\ queue = Tail(effects)
    OBVIOUS
  <2>4. /\ v \in View /\ v.running.ids = (running[c].ids \ {a}) \cup v.started
        /\ AnsweredIds(v.events) \subseteq Elems(pending[c])
        /\ \A e \in Elems(v.events) : e.conv = c /\ (e.type = "ExecutorFinished" => Known(e))
        /\ Commit(c, v, queue, executing) /\ a \in AnsweredFor(c, effects)
        /\ AnsweredFor(c, queue) = AnsweredFor(c, effects) \ {a}
        /\ queue \in Seq(ControllerEvent) /\ Elems(queue) \subseteq Elems(effects)
    BY <2>2, <2>3 DEF Delivers, Framed
  <2>5. /\ Elems(effects') = Elems(queue) \cup Elems(v.events) /\ running'[c] = v.running
        /\ \A b \in Conversations : b # c => running'[b] = running[b]
    BY <1>1, <2>4, CommitAnnounces
  <2>6. CASE d # c
    BY <1>1, <2>4, <2>5, <2>6, AloneKept
  <2>7. CASE d = c
    <3>1. ASSUME NEW e \in Elems(effects'), AnswerTo(c, e), e.id \notin running'[c].ids
          PROVE  FALSE
      <4>1. a \in Unsettled(c) /\ a \notin Elems(pending[c])
        BY <1>1, <2>4, <2>7, UnsettledParts DEF SingleIn, Apart
      <4>2. CASE e \in Elems(v.events)
        <5>1. e.id \in AnsweredIds(v.events)
          BY <3>1, <4>2 DEF Elems, AnswerTo, AnsweredIds, AnswersIn
        <5>2. e.id \in Elems(pending[c]) /\ Known(e)
          BY <2>4, <3>1, <4>2, <5>1 DEF AnswerTo
        <5>3. e.id \in Unsettled(c) /\ e.id \in AtOnce
          BY <1>3, <5>2, UnsettledParts
        <5> QED BY <1>2, <2>7, <4>1, <5>2, <5>3
      <4>3. CASE e \in Elems(queue)
        <5>1. e.id \in AnsweredFor(c, queue)
          BY <3>1, <4>3, AnswersByElements
        <5>2. e.id # a /\ e.id \in Unsettled(c)
          BY <2>4, <5>1, UnsettledParts
        <5>3. e.id \notin running[c].ids
          BY <2>4, <2>5, <3>1, <5>2
        <5>4. Known(e)
          BY <1>1, <2>4, <2>7, <3>1, <4>3, <5>3 DEF SourcedIn
        <5> QED BY <1>2, <1>3, <2>7, <4>1, <5>2, <5>4
      <4> QED BY <2>5, <3>1, <4>2, <4>3
    <3> QED BY <2>7, <3>1, AloneAnswered
  <2> QED BY <2>6, <2>7
<1> QED BY <1>1, <1>4, <1>5, <1>6, <1>7, StepForms

LEMMA FollowStep ==
    ASSUME FollowState, ReasonsComplete, [ControllerNext]_controllerVars PROVE FollowState'
<1>1. TurnState' /\ SourcesInv' /\ ResultsAlone
  BY TurnStep, SourcesStep DEF FollowState
<1>2. \A c \in Conversations : OneOutput(c)' /\ Alone(c)'
  BY OneOutputStep, AloneStep DEF FollowState
<1> QED BY <1>1, <1>2 DEF FollowState, ResultsAlone

LEMMA FollowInit ==
    ASSUME ControllerInit, NEW c \in Conversations PROVE OneOutput(c) /\ Alone(c)
<1>1. effects = <<>>
  BY DEF ControllerInit, Init
<1>2. /\ PreprocessingIds(c) = {} /\ Elems(pending[c]) = {} /\ running[c].ids = {}
      /\ AnsweredFor(c, effects) = {}
  BY <1>1, AnswersForNone DEF ControllerInit, Init, PreprocessingIds, Elems, NotRunning
<1>3. Unsettled(c) = {}
  BY <1>2, UnsettledParts
<1> QED BY <1>1, <1>3 DEF OneOutput, Alone, Elems

\* The follow-up of a finished action leaves nothing without a result.
FollowsUp ==
    \A c \in Conversations :
        (~Idle /\ ~Streaming(c) /\ Streaming(c)') => Unsettled(c)' = {}

LEMMA FollowUpStep ==
    ASSUME FollowState, [ControllerNext]_controllerVars PROVE FollowsUp
<1> SUFFICES ASSUME NEW c \in Conversations, ~Idle, ~Streaming(c), Streaming(c)'
             PROVE  Unsettled(c)' = {}
  BY DEF FollowsUp
<1>1. /\ TurnTypeOK /\ effects \in Seq(ControllerEvent) /\ TurnIn(c) /\ Alone(c)
  BY TurnStateParts DEF FollowState
<1>2. stream' # stream
  BY DEF Streaming
<1>3. DeliverFinishedAction
  <2>1. \A d \in Conversations :
            /\ ~ActionStep(d) /\ ~StreamStep(d) /\ ~SendQuery(d) /\ ~SelectConversation(d)
            /\ ~AutoResume(d) /\ ~ShellExits(d)
            /\ \A reason : ~CancelConversationProgress(d, reason)
    BY <1>2 DEF ActionStep, streamVars, StreamStep, StreamSucceeds, StreamFails, NetworkIsLost,
       NetworkReturns, StreamEnds, SendQuery, SelectConversation, AutoResume, ShellExits,
       CancelConversationProgress, MayAct
  <2> QED BY <1>2, <2>1 DEF ControllerNext, DeliverStreamCancelled, streamVars, controllerVars
<1>e. PICK e : e = Head(effects)
  OBVIOUS
<1>4. e.conv = c /\ FollowUp(c) /\ ~Quiet(c, e.reason)
  BY <1>1, <1>2, <1>3, <1>e DEF DeliverFinishedAction, FollowUp, Request, Streaming, TurnTypeOK
<1>5. /\ e.type = "Finished" /\ effects' = Tail(effects) /\ e \in Elems(effects)
      /\ Elems(effects') \subseteq Elems(effects) /\ UNCHANGED <<preprocessing, pending, running>>
  BY <1>1, <1>3, <1>e, HeadOfEffects DEF DeliverFinishedAction
<1>6. pending[c] = <<>> /\ running[c].ids = {}
  BY <1>4 DEF Quiet, HasUnfinished
<1>7. preprocessing[c] = <<>>
  BY <1>1, <1>4, <1>5 DEF TurnIn, Fresh
<1>8. AnsweredFor(c, effects') = {}
  <2>1. \A f \in Elems(effects') : ~AnswerTo(c, f)
    BY <1>1, <1>4, <1>5, <1>6 DEF Alone
  <2> QED BY <2>1, AnsweredByElements
<1>9. PreprocessingIds(c)' = {} /\ Elems(pending'[c]) = {} /\ running'[c].ids = {}
  BY <1>5, <1>6, <1>7 DEF PreprocessingIds, Elems
<1> QED BY <1>8, <1>9, UnsettledParts

-----------------------------------------------------------------------------
(***************************************************************************)
(* Results reach the agent, where actions are cancelled by a stop or a     *)
(* query only: a result that was not sent is followed by others, or the    *)
(* end of its action is still announced.                                   *)
(***************************************************************************)
StopsOrQueries == Reasons \subseteq {"Cancelled", "KeepInProgress"}

\* The event says that an action of c has finished, or is its result.
Reports(c, e) == e.conv = c /\ e.type \in {"Finished", "ExecutorFinished"}

\* The views of c with an action that is queued, runs, or is reported.
PursuedView(c) ==
    {v \in View : \/ v.pending # <<>> \/ v.running.ids # {}
                  \/ \E e \in Elems(v.events) : Reports(c, e)}

\* What is started from the queue runs or is reported.
LEMMA TryExecuteAvailablePursued ==
    ASSUME NEW c \in Conversations, NEW v \in PursuedView(c)
    PROVE  TryExecuteAvailable(c, v) \in PursuedView(c)
<1> DEFINE w == TryExecuteAvailable(c, v)
<1>1. v \in View /\ w \in View /\ v.pending \in Seq(ActionIds) /\ v.events \in Seq(Event)
  BY TryExecuteAvailableType DEF PursuedView, View
<1>2. PICK n \in 0..Len(v.pending) : Executed(c, v, w, n)
  BY <1>1, TryExecuteAvailableExecutes
<1>3. PICK q : q = v.pending
  OBVIOUS
<1>4. PICK evs : evs = AnswersOf(c, q, n)
  OBVIOUS
<1>5. q \in Seq(ActionIds) /\ n \in 0..Len(q) /\ n \in Nat /\ (n # 0 => 1 \in 1..n)
  BY <1>1, <1>2, <1>3
<1>6. /\ evs \in Seq(Event) /\ AnsweredIds(evs) = {q[i] : i \in 1..n} \cap SyncActions(FALSE)
      /\ \A i \in DOMAIN AnsweredOf(q, n) : evs[i].conv = c
      /\ AnswersIn(evs) = DOMAIN AnsweredOf(q, n)
  BY <1>4, <1>5, AnswersOfProperties
<1>7. /\ w.pending = DropFirst(q, n) /\ w.running.ids = v.running.ids \cup StartedOf(q, n)
      /\ w.events = v.events \o evs
  BY <1>2, <1>3, <1>4 DEF Executed
<1> HIDE DEF w
<1>8. Elems(w.events) = Elems(v.events) \cup Elems(evs)
  BY <1>1, <1>6, <1>7, ConcatElems
<1>9. ASSUME v.running.ids # {} \/ \E e \in Elems(v.events) : Reports(c, e)
      PROVE  w \in PursuedView(c)
  BY <1>1, <1>7, <1>8, <1>9 DEF PursuedView
<1>10. ASSUME q # <<>>, n = 0 PROVE w \in PursuedView(c)
  <2>1. DropFirst(q, 0) = q
    BY <1>5 DEF DropFirst
  <2> QED BY <1>1, <1>7, <1>10, <2>1 DEF PursuedView
<1>11. ASSUME n # 0, q[1] \in SyncActions(FALSE) PROVE w \in PursuedView(c)
  <2>1. q[1] \in AnsweredIds(evs)
    BY <1>5, <1>6, <1>11
  <2>2. PICK i \in AnswersIn(evs) : evs[i].id = q[1]
    BY <2>1 DEF AnsweredIds
  <2>3. i \in DOMAIN evs /\ evs[i].type = "ExecutorFinished" /\ evs[i].conv = c
    BY <1>6, <2>2 DEF AnswersIn
  <2>4. evs[i] \in Elems(evs) /\ Reports(c, evs[i])
    BY <2>3 DEF Elems, Reports
  <2> QED BY <1>1, <1>8, <2>4 DEF PursuedView
<1>12. ASSUME n # 0, q[1] \notin SyncActions(FALSE) PROVE w \in PursuedView(c)
  <2>1. Elems(SubSeq(q, 1, n)) = {q[i] : i \in 1..n}
    BY <1>5, PrefixElems
  <2>2. q[1] \in StartedOf(q, n)
    BY <1>5, <1>12, <2>1 DEF StartedOf
  <2> QED BY <1>1, <1>7, <2>2 DEF PursuedView
<1>13. w \in PursuedView(c)
  BY <1>3, <1>9, <1>10, <1>11, <1>12 DEF PursuedView
<1> QED BY <1>13 DEF w

\* A recorded result is reported.
LEMMA RecordResultPursued ==
    ASSUME ModelTypeOK, NEW c \in Conversations, NEW v \in View, NEW a \in ActionIds,
           NEW res \in Results, NEW reason \in Reasons \cup {NoReason}
    PROVE  RecordResult(c, v, a, res, reason) \in PursuedView(c)
<1> DEFINE w == Pushed(c, v, a, res, reason)
           x == Sorted(c, w)
           r == RecordResult(c, v, a, res, reason)
<1>1. /\ w \in View /\ x \in View
      /\ \/ v.running.ids # {} /\ r = w
         \/ v.running.ids = {} /\ v.pending # <<>> /\ r = TryExecuteAvailable(c, x)
         \/ /\ v.running.ids = {} /\ v.pending = <<>>
            /\ \E st \in Statuses : r = [x EXCEPT !.status = st]
  BY RecordResultForms
<1>2. Elems(w.events) = Elems(v.events) \cup {Finished(c, a, reason)}
  BY PushedEvents, SMTT(30)
<1>3. x.events = w.events
  BY PushedEvents, ZenonT(30)
<1>4. Reports(c, Finished(c, a, reason))
  BY DEF Reports, Finished
<1> HIDE DEF w, x, r
<1>5. w \in PursuedView(c) /\ x \in PursuedView(c)
  BY <1>1, <1>2, <1>3, <1>4 DEF PursuedView
<1>6. TryExecuteAvailable(c, x) \in PursuedView(c)
  BY <1>5, TryExecuteAvailablePursued
<1>7. \A st \in Statuses : [x EXCEPT !.status = st] \in PursuedView(c)
  BY <1>5 DEF PursuedView, View
<1>8. r \in PursuedView(c)
  BY <1>1, <1>5, <1>6, <1>7
<1> QED BY <1>8 DEF r

\* So are cancelled actions, if there are any.
LEMMA CancelEachPursued ==
    ASSUME ModelTypeOK, NEW c \in Conversations, NEW v \in View,
           NEW ids \in Seq(ActionIds), ids # <<>>, NEW reason \in Reasons \cup {NoReason}
    PROVE  CancelEach(c, v, ids, reason) \in PursuedView(c)
<1> DEFINE V == PursuedView(c)
           P == [i \in 0..Len(ids) |-> IF i = 0 THEN View ELSE V]
<1>1. Len(ids) \in Nat /\ Len(ids) # 0 /\ \A i \in 1..Len(ids) : ids[i] \in ActionIds
  OBVIOUS
<1>2. \A i \in 1..Len(ids) : \A w \in View :
          RecordResult(c, w, ids[i], "Cancelled", reason) \in V
  BY <1>1, RecordResultPursued DEF Results
<1>3. V \subseteq View
  BY DEF PursuedView
<1> HIDE DEF V
<1>4. /\ P[0] = View /\ P[Len(ids)] = V
      /\ \A i \in 1..Len(ids) : P[i] = V /\ P[i - 1] \in {View, V}
  BY <1>1
<1>5. \A i \in 1..Len(ids) : \A w \in P[i - 1] :
          RecordResult(c, w, ids[i], "Cancelled", reason) \in P[i]
  BY <1>2, <1>3, <1>4
<1> HIDE DEF P
<1>6. CancelEach(c, v, ids, reason) \in P[Len(ids)]
  BY <1>4, <1>5, CancelEachPasses
<1> QED
  BY <1>4, <1>6 DEF V

\* handle_action_result reports its action.
LEMMA HandleResultPursued ==
    ASSUME ModelTypeOK, NEW c \in Conversations, NEW v \in View, NEW a \in ActionIds,
           NEW res \in Results, NEW reason \in Reasons \cup {NoReason}
    PROVE  HandleResult(c, v, a, res, reason) \in PursuedView(c)
<1> DEFINE w == WithoutRunning(v, a)
           u == IF res = "Snapshot" THEN CancelOtherCommands(c, w, reason) ELSE w
<1>1. w \in View
  BY WithoutRunningType
<1> HIDE DEF w
<1>2. u \in View
  BY <1>1, CancelOtherCommandsType
<1> HIDE DEF u
<1> QED
  BY <1>2, RecordResultPursued DEF HandleResult, u, w

\* A released action that has no result is queued, and then runs or is reported.
LEMMA EnqueuePursued ==
    ASSUME ModelTypeOK, NEW c \in Conversations, NEW released \in Seq(ActionIds),
           NEW a \in Elems(released), a \notin FinishedIds(c)
    PROVE  Enqueue(c, released) \in PursuedView(c)
<1> DEFINE v == ViewOf(c)
           S == ActionIds \ FinishedIds(c)
           more == Filter(released, S)
           w == [v EXCEPT !.pending = @ \o more]
<1>1. v \in View /\ more \in Seq(ActionIds) /\ Elems(more) = Elems(released) \cap S
  BY ViewOfType, FilterProperties, FilterElems
<1>2. a \in Elems(more)
  <2>1. a \in ActionIds
    BY DEF Elems
  <2> HIDE DEF more
  <2> QED BY <1>1, <2>1
<1>3. w \in PursuedView(c)
  <2> HIDE DEF v, more
  <2> DEFINE p == v.pending \o more
  <2>1. v.pending \in Seq(ActionIds)
    BY <1>1 DEF View
  <2>2. p \in Seq(ActionIds) /\ Elems(p) = Elems(v.pending) \cup Elems(more)
    BY <1>1, <2>1, ConcatElems
  <2>3. w = [v EXCEPT !.pending = p]
    OBVIOUS
  <2> HIDE DEF p, w
  <2>4. p # <<>>
    <3>1. a \in Elems(p)
      BY <1>2, <2>2
    <3> QED BY <3>1 DEF Elems
  <2>5. w \in View /\ w.pending = p
    BY <1>1, <2>2, <2>3 DEF View
  <2> QED BY <2>4, <2>5 DEF PursuedView
<1>4. TryExecuteAvailable(c, w) \in PursuedView(c)
  <2> HIDE DEF w
  <2> QED BY <1>3, TryExecuteAvailablePursued
<1> QED BY <1>4 DEF Enqueue

\* The action that the user starts runs or is reported.
LEMMA StartForUserPursued ==
    ASSUME ModelTypeOK, NEW c \in Conversations, NEW a \in Elems(pending[c])
    PROVE  StartForUser(c, ViewOf(c), a) \in PursuedView(c)
<1> DEFINE v == WithoutPending(c, a)
           w == [v EXCEPT !.status = "InProgress"]
           e == ExecutorFinished(c, a, "Completed", NoReason)
           now == [w EXCEPT !.events = Append(@, e)]
           later == [w EXCEPT !.running = [phase |-> PhaseOf({a}), ids |-> @.ids \cup {a}],
                              !.started = {a}]
<1>1. v \in View /\ a \in ActionIds /\ v.events = <<>>
  BY WithoutPendingType DEF WithoutPending, ViewOf
<1>2. w \in View /\ w.events = <<>>
  <2> HIDE DEF v
  <2> QED BY <1>1 DEF View, Statuses
<1>3. e \in Event /\ Reports(c, e)
  BY <1>1, ExecutorFinishedType DEF Results, ExecutorFinished, Reports
<1>4. w = [ViewOf(c) EXCEPT !.pending = RemoveIndex(@, PositionOf(a, @)),
                            !.status = "InProgress"]
  BY DEF WithoutPending, ViewOf
<1>5. \/ StartForUser(c, ViewOf(c), a) = TryExecuteAvailable(c, now)
      \/ StartForUser(c, ViewOf(c), a) = later
  <2> HIDE DEF w
  <2> QED BY <1>4 DEF StartForUser
<1> HIDE DEF w, e
<1>6. now \in PursuedView(c)
  <2> DEFINE t == <<e>>
  <2>1. t \in Seq(Event) /\ Elems(t) = {e} /\ now = [w EXCEPT !.events = t]
    BY <1>2, <1>3 DEF Elems
  <2> HIDE DEF t, now
  <2> QED BY <1>2, <1>3, <2>1 DEF PursuedView, View
<1>7. later \in PursuedView(c)
  <2>1. later \in View
    BY <1>1, <1>2, PhaseOfType DEF View, Running, Phases
  <2>2. later.running.ids # {}
    BY <1>2 DEF View
  <2> HIDE DEF later
  <2> QED BY <2>1, <2>2 DEF PursuedView
<1> HIDE DEF now, later
<1> QED
  BY <1>5, <1>6, <1>7, TryExecuteAvailablePursued

\* The results of c are of cancelled actions, those that await delivery too.
Void(c) ==
    /\ AllCancelled(finished[c])
    /\ \A e \in Elems(effects) : AnswerTo(c, e) => e.res = "Cancelled"

\* The agent is being asked in c, or is about to be.
Asked(c) == Streaming(c) \/ resume[c]

\* The results of c are of cancelled actions, or will be looked at again.
Pursued(c) ==
    \/ AllCancelled(finished[c])
    \/ Unsettled(c) # {}
    \/ \E e \in Elems(effects) : e.type = "Finished" /\ e.conv = c

ReachIn(c) == (Asked(c) => Void(c)) /\ Pursued(c)

\* The inductive invariant.
ReachState == FollowState /\ StopsOrQueries /\ \A c \in Conversations : ReachIn(c)

\* The step does nothing to the actions of d and does not ask the agent in it.
Bypasses(d) ==
    /\ preprocessing'[d] = preprocessing[d] /\ pending'[d] = pending[d]
    /\ running'[d].ids = running[d].ids /\ finished'[d] = finished[d]
    /\ Asked(d)' => Asked(d)
    /\ \A e \in Elems(effects) : Reports(d, e) => e \in Elems(effects')
    /\ \A e \in Elems(effects') : Reports(d, e) => e \in Elems(effects)

LEMMA Bypassed ==
    ASSUME NEW d, ReachIn(d), Bypasses(d) PROVE ReachIn(d)'
<1>1. Unsettled(d) \subseteq Unsettled(d)'
  <2>1. AnsweredFor(d, effects) \subseteq AnsweredFor(d, effects')
    <3> SUFFICES ASSUME NEW a \in AnsweredFor(d, effects) PROVE a \in AnsweredFor(d, effects')
      OBVIOUS
    <3>1. PICK e \in Elems(effects) : AnswerTo(d, e) /\ e.id = a
      BY AnsweredByElements
    <3>2. e \in Elems(effects')
      BY <3>1 DEF Bypasses, Reports, AnswerTo
    <3> QED BY <3>1, <3>2, AnswersByElements
  <2>2. PreprocessingIds(d)' = PreprocessingIds(d)
    BY DEF Bypasses, PreprocessingIds
  <2> QED BY <2>1, <2>2, UnsettledParts DEF Bypasses
<1>2. AllCancelled(finished[d]) => AllCancelled(finished[d])'
  BY DEF Bypasses, AllCancelled
<1>3. Asked(d)' => Void(d)'
  BY <1>2 DEF Bypasses, ReachIn, Void, Reports, AnswerTo
<1>4. Pursued(d)'
  BY <1>1, <1>2 DEF Bypasses, ReachIn, Pursued, Reports
<1> QED BY <1>3, <1>4 DEF ReachIn

\* A view of c with an action under way, committed.
LEMMA CommitPursues ==
    ASSUME NEW c, NEW v \in PursuedView(c), pending'[c] = v.pending, running'[c] = v.running,
           Elems(v.events) \subseteq Elems(effects')
    PROVE  Pursued(c)'
<1>1. CASE v.pending # <<>> \/ v.running.ids # {}
  <2>1. PICK q \in Seq(ActionIds) : q = v.pending
    BY DEF PursuedView, View
  <2>2. q # <<>> => Elems(q) # {}
    <3>1. q # <<>> => 1 \in DOMAIN q
      OBVIOUS
    <3>2. 1 \in DOMAIN q => q[1] \in Elems(q)
      BY DEF Elems
    <3> QED BY <3>1, <3>2
  <2> QED BY <1>1, <2>1, <2>2, UnsettledParts DEF Pursued
<1>2. CASE \E e \in Elems(v.events) : Reports(c, e)
  <2>1. PICK e \in Elems(effects') : Reports(c, e)
    BY <1>2
  <2>2. CASE e.type = "ExecutorFinished"
    <3>1. e.id \in AnsweredFor(c, effects')
      BY <2>1, <2>2, AnswersByElements DEF Reports, AnswerTo
    <3> QED BY <3>1, UnsettledParts DEF Pursued
  <2>3. CASE e.type = "Finished"
    BY <2>1, <2>3 DEF Pursued, Reports
  <2> QED BY <2>1, <2>2, <2>3 DEF Reports
<1> QED BY <1>1, <1>2 DEF PursuedView

\* Committing a view of c to the effects leaves other conversations alone.
LEMMA CommitBypasses ==
    ASSUME TurnState, NEW c \in Conversations, NEW v \in View, \A e \in Elems(v.events) : e.conv = c,
           NEW queue \in Seq(ControllerEvent), Commit(c, v, queue, executing),
           UNCHANGED <<stream, resume>>,
           NEW d \in Conversations, d # c, preprocessing'[d] = preprocessing[d],
           Elems(queue) \subseteq Elems(effects),
           \A e \in Elems(effects) : e.conv = d => e \in Elems(queue)
    PROVE  Bypasses(d)
<1>1. ModelTypeOK
  BY TurnStateParts
<1>2. /\ Elems(effects') = Elems(queue) \cup Elems(v.events)
      /\ running'[d] = running[d] /\ pending'[d] = pending[d]
  BY <1>1, CommitAnnounces
<1>3. finished'[d] = finished[d]
  BY <1>1 DEF Commit, ModelTypeOK
<1> QED BY <1>2, <1>3 DEF Bypasses, Reports, Asked, Streaming

\* A handler of c that leaves an action under way, while the agent is not asked.
LEMMA HandlerReaches ==
    ASSUME ReachState, Idle, NEW c \in Conversations, ~Awaits(c), NEW v \in PursuedView(c),
           \A e \in Elems(v.events) : e.conv = c, Commit(c, v, effects, executing),
           UNCHANGED <<stream, resume>>,
           \A d \in Conversations : d # c => preprocessing'[d] = preprocessing[d],
           NEW d \in Conversations
    PROVE  ReachIn(d)'
<1>1. /\ TurnState /\ ReachIn(d) /\ ModelTypeOK /\ effects \in Seq(ControllerEvent)
      /\ v \in View
  BY TurnStateParts DEF ReachState, FollowState, PursuedView
<1>2. CASE d # c
  BY <1>1, <1>2, CommitBypasses, Bypassed
<1>3. CASE d = c
  <2>1. Elems(v.events) \subseteq Elems(effects') /\ running'[c] = v.running /\ pending'[c] = v.pending
    BY <1>1, CommitAnnounces
  <2>2. Pursued(c)'
    BY <2>1, CommitPursues
  <2>3. ~Asked(c)'
    BY DEF Awaits, Asked, Streaming
  <2> QED BY <1>3, <2>2, <2>3 DEF ReachIn
<1> QED BY <1>2, <1>3

\* The result of what was executing is on its way, and the agent is not asked there.
LEMMA ResolvesReach ==
    ASSUME ReachState, Idle, NEW a \in ActionIds, executing[a] # NoConv,
           NEW res, NEW reason,
           effects' = Append(effects, ExecutorFinished(executing[a], a, res, reason)),
           UNCHANGED <<preprocessing, pending, running, finished, stream, resume>>,
           NEW d \in Conversations
    PROVE  ReachIn(d)'
<1>1. TurnState /\ ReachIn(d) /\ ModelTypeOK
  BY TurnStateParts DEF ReachState, FollowState
<1>2. PICK c, e : c = executing[a] /\ e = ExecutorFinished(c, a, res, reason)
  OBVIOUS
<1>3. effects' = <<e>> /\ Elems(effects') = {e} /\ Elems(effects) = {}
  BY <1>2 DEF Idle, Elems
<1>4. e.conv = c /\ e.type = "ExecutorFinished" /\ e.id = a
  BY <1>2 DEF ExecutorFinished
<1>5. CASE d # c
  <2>1. Bypasses(d)
    BY <1>3, <1>4, <1>5 DEF Bypasses, Reports, Asked, Streaming
  <2> QED BY <1>1, <2>1, Bypassed
<1>6. CASE d = c
  <2>1. ~Awaits(d)
    <3>1. ExecutingIn(d) # {}
      BY <1>2, <1>6 DEF ExecutingIn
    <3> QED BY <1>1, <3>1, BusyIn
  <2>2. ~Asked(d)'
    BY <2>1 DEF Awaits, Asked, Streaming
  <2>3. a \in AnsweredFor(d, effects')
    BY <1>3, <1>4, <1>6, AnswersByElements DEF AnswerTo
  <2>4. Pursued(d)'
    BY <2>3, UnsettledParts DEF Pursued
  <2> QED BY <2>2, <2>4 DEF ReachIn
<1> QED BY <1>5, <1>6

\* Without results nothing is to reach the agent.
LEMMA NothingFinished == ASSUME NEW s, s = <<>> PROVE AllCancelled(s)
BY DEF AllCancelled

\* What the user and the executor do to the actions of c.
LEMMA ActionStepReaches ==
    ASSUME ReachState, NEW c \in Conversations, ActionStep(c), NEW d \in Conversations
    PROVE  ReachIn(d)'
<1>1. /\ TurnState /\ ReachIn(d) /\ ModelTypeOK /\ SingleIn(c) /\ TurnIn(c)
      /\ effects \in Seq(ControllerEvent) /\ UNCHANGED <<stream, resume>>
  BY TurnStateParts DEF ReachState, FollowState, ActionStep, streamVars, SinglesInv
<1>2. ASSUME NEW a, ExecuteAction(c, a) PROVE ReachIn(d)'
  <2>1. PICK v : v = StartForUser(c, ViewOf(c), a)
    OBVIOUS
  <2>2. a \in Elems(pending[c]) /\ Idle /\ Commit(c, v, effects, executing)
        /\ UNCHANGED preprocessing
    BY <1>2, <2>1 DEF ExecuteAction, MayStartForUser
  <2>3. v \in PursuedView(c) /\ v \in VoicedView(c)
    BY <1>1, <2>1, <2>2, StartForUserPursued, StartForUserVoiced
  <2>4. ~Awaits(c)
    <3>1. pending[c] # <<>>
      BY <2>2 DEF Elems
    <3> QED BY <1>1, <3>1, BusyIn
  <2>5. \A e \in Elems(v.events) : e.conv = c
    BY <2>3 DEF VoicedView, Voices
  <2> QED BY <1>1, <2>2, <2>3, <2>4, <2>5, HandlerReaches
<1>3. ASSUME NEW a \in Elems(pending[c]), NEW res \in Results, Idle,
             NEW reason \in Reasons \cup {NoReason}, UNCHANGED preprocessing,
             Commit(c, HandleResult(c, WithoutPending(c, a), a, res, reason),
                    effects, executing)
      PROVE  ReachIn(d)'
  <2>1. PICK w, v : w = WithoutPending(c, a) /\ v = HandleResult(c, w, a, res, reason)
    OBVIOUS
  <2>2. pending[c] # <<>>
    BY DEF Elems
  <2>3. ~Awaits(c) /\ status[c] # "Error"
    BY <1>1, <2>2, BusyIn
  <2>4. w \in VoicedView(c) /\ a \in ActionIds
    BY <1>1, <2>1, <2>3, WithoutPendingVoiced
  <2>5. v \in VoicedView(c)
    BY <1>1, <2>1, <2>4, HandleResultVoiced
  <2>6. v \in PursuedView(c)
    <3>1. w \in View
      BY <2>4 DEF VoicedView
    <3> QED BY <1>1, <2>1, <2>4, <3>1, HandleResultPursued
  <2>7. \A e \in Elems(v.events) : e.conv = c
    BY <2>5 DEF VoicedView, Voices
  <2>8. Commit(c, v, effects, executing)
    BY <1>3, <2>1
  <2> QED BY <1>1, <1>3, <2>3, <2>6, <2>7, <2>8, HandlerReaches
<1>4. CASE ExecuteNextActionForUser(c)
  BY <1>2, <1>4 DEF ExecuteNextActionForUser
<1>5. CASE ClearFinished(c)
  <2>1. /\ UNCHANGED <<preprocessing, pending, running, effects>>
        /\ finished' = [finished EXCEPT ![c] = <<>>]
    BY <1>5 DEF ClearFinished
  <2>2. CASE d # c
    <3>1. Bypasses(d)
      BY <1>1, <2>1, <2>2 DEF Bypasses, Asked, Streaming, ModelTypeOK
    <3> QED BY <1>1, <3>1, Bypassed
  <2>3. CASE d = c
    <3>1. AllCancelled(finished[d])'
      BY <1>1, <2>1, <2>3, NothingFinished DEF ModelTypeOK
    <3>2. Asked(d)' => Void(d)'
      BY <1>1, <2>1, <3>1 DEF ReachIn, Void, Asked, Streaming
    <3> QED BY <3>1, <3>2 DEF ReachIn, Pursued
  <2> QED BY <2>2, <2>3
<1>6. ASSUME NEW b \in ActionIds, PreprocessActionsResults(c, b) PROVE ReachIn(d)'
  <2>1. PICK released : released = [i \in 1..Releasable(Completed(c, b)) |-> Completed(c, b)[i].id]
    OBVIOUS
  <2>2. PICK v : v = Enqueue(c, released)
    OBVIOUS
  <2>3. BatchResolves(c, b) /\ Idle /\ Commit(c, v, effects, executing)
    BY <1>6, <2>1, <2>2 DEF PreprocessActionsResults, BatchResolves
  <2>4. preprocessing[c] # <<>> /\ ~Awaits(c) /\ status[c] # "Error" /\ PreprocessingIds(c) # {}
    <3>1. PICK i \in DOMAIN preprocessing[c] : TRUE
      BY <2>3 DEF BatchResolves
    <3>2. preprocessing[c][i].id \in PreprocessingIds(c)
      BY <3>1 DEF PreprocessingIds
    <3>3. preprocessing[c] # <<>>
      BY <3>1
    <3> QED BY <1>1, <3>2, <3>3 DEF TurnIn, Asleep, Awaits
  <2>5. /\ released \in Seq(ActionIds)
        /\ PreprocessingIds(c)' = PreprocessingIds(c) \ Elems(released)
        /\ \A b2 \in Conversations : b2 # c => preprocessing'[b2] = preprocessing[b2]
    BY <1>1, <2>1, <2>3, ReleasedOnce DEF SingleIn
  <2>6. v \in VoicedView(c)
    BY <1>1, <2>2, <2>4, <2>5, EnqueueVoiced
  <2>7. v \in View /\ \A e \in Elems(v.events) : e.conv = c
    BY <2>6 DEF VoicedView, Voices
  <2>8. CASE v \in PursuedView(c)
    BY <1>1, <2>3, <2>4, <2>5, <2>7, <2>8, HandlerReaches
  <2>9. CASE v \notin PursuedView(c)
    <3>1. CASE d # c
      BY <1>1, <2>3, <2>5, <2>7, <3>1, CommitBypasses, Bypassed
    <3>2. CASE d = c
      <4>1. PICK a \in PreprocessingIds(c) : TRUE
        BY <2>4
      <4>2. a \notin FinishedIds(c)
        BY <1>1, <4>1 DEF SingleIn, Apart
      <4>3. a \notin Elems(released)
        BY <1>1, <2>2, <2>5, <2>9, <4>2, EnqueuePursued
      <4>4. a \in Unsettled(c)'
        BY <2>5, <4>1, <4>3, UnsettledParts
      <4>5. ~Asked(c)'
        BY <1>1, <2>4 DEF Awaits, Asked, Streaming
      <4> QED BY <3>2, <4>4, <4>5 DEF ReachIn, Pursued
    <3> QED BY <3>1, <3>2
  <2> QED BY <2>8, <2>9
<1>7. ASSUME NEW a \in ActionIds, DenyRunAgents(c, a) PROVE ReachIn(d)'
  BY <1>3, <1>7 DEF DenyRunAgents, Results
<1>8. ASSUME NEW a \in ActionIds, NEW reason \in UserReasons, CancelActionWithId(c, a, reason)
      PROVE  ReachIn(d)'
  <2>1. Idle /\ UNCHANGED preprocessing /\ reason \in Reasons
    BY <1>8 DEF CancelActionWithId, UserReasons
  <2>2. CASE CancelRunning(c, a, reason) /\ UNCHANGED <<pending, running, finished>>
    BY <1>1, <2>1, <2>2, ResolvesReach DEF CancelRunning
  <2>3. CASE /\ a \in Elems(pending[c])
             /\ Commit(c, HandleResult(c, WithoutPending(c, a), a, "Cancelled", reason),
                       effects, executing)
    BY <1>3, <2>1, <2>3 DEF Results
  <2> QED BY <1>8, <2>2, <2>3 DEF CancelActionWithId
<1>9. ASSUME NEW a \in ActionIds, CompleteAsync(c, a) PROVE ReachIn(d)'
  <2>1. PICK res : FutureResolves(c, a, res)
    BY <1>9 DEF CompleteAsync
  <2>2. Idle /\ UNCHANGED <<preprocessing, running, pending, finished>>
    BY <1>9 DEF CompleteAsync
  <2>3. CASE executing[a] = NoConv
    <3>1. Bypasses(d)
      BY <1>1, <2>1, <2>2, <2>3 DEF FutureResolves, Bypasses, Asked, Streaming
    <3> QED BY <1>1, <3>1, Bypassed
  <2>4. CASE executing[a] # NoConv
    BY <1>1, <2>1, <2>2, <2>4, ResolvesReach DEF FutureResolves
  <2> QED BY <2>3, <2>4
<1>10. \A a \in ActionIds :
           \/ PreprocessActionsResults(c, a)
           \/ ExecuteAction(c, a)
           \/ DenyRunAgents(c, a)
           \/ \E reason \in UserReasons : CancelActionWithId(c, a, reason)
           \/ CompleteAsync(c, a)
           => ReachIn(d)'
  BY <1>2, <1>6, <1>7, <1>8, <1>9
<1> QED BY <1>4, <1>5, <1>10 DEF ActionStep

\* What arrives on a stream; when a stream ends, its conversation has no results to send.
LEMMA StreamStepReaches ==
    ASSUME ReachState, NEW c \in Conversations, StreamStep(c), NEW d \in Conversations
    PROVE  ReachIn(d)'
<1>1. ReachIn(d) /\ ModelTypeOK /\ TurnTypeOK
  BY TurnStateParts DEF ReachState, FollowState
<1>2. CASE StreamEnds(c)
  <2>1. /\ UNCHANGED <<pending, running, finished, effects>> /\ Streaming(c)
        /\ c # d => preprocessing'[d] = preprocessing[d]
    <3>1. stream[c].phase \in {"Completed", "Failed"}
      BY <1>2 DEF StreamEnds
    <3> QED BY <1>1, <1>2, <3>1 DEF StreamEnds, QueueActions, vars, Streaming, ModelTypeOK
  <2>2. CASE d = c
    <3>1. Void(d)'
      BY <1>1, <2>1, <2>2 DEF ReachIn, Asked, Void, AllCancelled
    <3> QED BY <3>1 DEF ReachIn, Pursued, Void
  <2>3. CASE d # c
    <3>1. stream'[d] = stream[d] /\ resume'[d] = resume[d]
      BY <1>1, <1>2, <2>3 DEF StreamEnds, TurnTypeOK
    <3>2. Bypasses(d)
      BY <2>1, <2>3, <3>1 DEF Bypasses, Asked, Streaming
    <3> QED BY <1>1, <3>2, Bypassed
  <2> QED BY <2>2, <2>3
<1>3. CASE ~StreamEnds(c)
  <2>1. /\ UNCHANGED <<preprocessing, pending, running, finished, effects, resume>>
        /\ Streaming(c) /\ \E next : stream' = [stream EXCEPT ![c] = next]
    BY <1>3 DEF StreamStep, StreamSucceeds, StreamFails, NetworkIsLost, NetworkReturns,
       Streamed, Streaming
  <2>2. Asked(d)' => Asked(d)
    BY <1>1, <2>1 DEF Asked, Streaming, TurnTypeOK
  <2>3. Bypasses(d)
    BY <2>1, <2>2 DEF Bypasses
  <2> QED BY <1>1, <2>3, Bypassed
<1> QED BY <1>2, <1>3

\* Cancelling what is queued or runs in c: if anything is, it is reported; otherwise
\* nothing was left to send before.
LEMMA CancelledPursues ==
    ASSUME ReachState, NEW c \in Conversations, MayAct(c), NEW reason \in Reasons,
           NEW v, v = Interrupted(c, reason), finished'[c] = v.finished,
           pending'[c] = v.pending, running' = running,
           Elems(v.events) \subseteq Elems(effects'),
           ExecutingIn(c) \subseteq AnsweredFor(c, effects')
    PROVE  Pursued(c)'
<1>1. TurnState /\ ModelTypeOK /\ ReachIn(c)
  BY TurnStateParts DEF ReachState, FollowState
<1>2. Idle /\ preprocessing[c] = <<>> /\ (Streaming(c) => pending[c] = <<>>)
  BY <1>1, UserActs
<1>3. v \in Ceased(c, reason)
  BY <1>1, InterruptedCeases
<1>4. PICK w : w = [ViewOf(c) EXCEPT !.status = RecoveryCancelled(@, reason)]
  OBVIOUS
<1>5. w \in View /\ w.pending = pending[c] /\ w.finished = finished[c]
  <2>1. PICK o : o = ViewOf(c)
    OBVIOUS
  <2>2. /\ o \in View /\ o.pending = pending[c] /\ o.finished = finished[c]
        /\ o.status = status[c]
    BY <1>1, <2>1, ViewOfType DEF ViewOf
  <2>3. RecoveryCancelled(o.status, reason) \in Statuses
    BY <2>2 DEF RecoveryCancelled, Statuses, View
  <2> QED BY <1>4, <2>1, <2>2, <2>3 DEF View
<1>6. v = IF Streaming(c) THEN ViewOf(c) ELSE CancelPending(c, w, reason)
  BY <1>4 DEF Interrupted
<1>7. CASE pending[c] # <<>>
  <2>1. PICK x : x = [w EXCEPT !.pending = <<>>]
    OBVIOUS
  <2>2. x \in View
    <3>1. w.pending \in Seq(ActionIds) /\ <<>> \in Seq(ActionIds)
      BY <1>5 DEF View
    <3>2. [w EXCEPT !.pending = <<>>] \in View
      BY <1>5, <3>1 DEF View
    <3> QED BY <2>1, <3>2
  <2>3. v = CancelEach(c, x, pending[c], reason)
    BY <1>2, <1>5, <1>6, <1>7, <2>1 DEF CancelPending
  <2>4. pending[c] \in Seq(ActionIds)
    BY <1>1 DEF ModelTypeOK
  <2>5. v \in PursuedView(c)
    BY <1>1, <1>7, <2>2, <2>3, <2>4, CancelEachPursued
  <2>6. running'[c] = v.running
    BY <1>3 DEF Ceased
  <2> QED BY <2>5, <2>6, CommitPursues
<1>8. CASE ExecutingIn(c) # {}
  BY <1>8, UnsettledParts DEF Pursued
<1>9. CASE pending[c] = <<>> /\ ExecutingIn(c) = {}
  <2>1. v.finished = finished[c]
    <3>1. CancelPending(c, w, reason) = w
      BY <1>5, <1>9, CancelPendingNothing
    <3> QED BY <1>5, <1>6, <3>1 DEF ViewOf
  <2>2. running[c].ids = {} /\ effects = <<>>
    BY <1>1, <1>2, <1>9, IdleRunning DEF Idle
  <2>3. Unsettled(c) = {}
    <3>1. PreprocessingIds(c) = {} /\ Elems(pending[c]) = {}
      BY <1>2, <1>9 DEF PreprocessingIds, Elems
    <3> QED BY <2>2, <3>1, UnsettledParts, AnswersForNone
  <2>4. AllCancelled(finished[c])
    BY <1>1, <2>2, <2>3 DEF ReachIn, Pursued, Elems
  <2> QED BY <2>1, <2>4 DEF Pursued, AllCancelled
<1> QED BY <1>7, <1>8, <1>9

\* A step that appends to nothing events that are not of d, and leaves its actions.
LEMMA AppendBypasses ==
    ASSUME NEW d, Idle, UNCHANGED <<preprocessing, running>>, pending'[d] = pending[d],
           finished'[d] = finished[d], Asked(d)' => Asked(d),
           \A e \in Elems(effects') : e.conv # d
    PROVE  Bypasses(d)
BY DEF Bypasses, Idle, Elems, Reports

LEMMA CancelProgressReaches ==
    ASSUME ReachState, NEW c \in Conversations, NEW reason \in UserReasons,
           CancelConversationProgress(c, reason), NEW d \in Conversations
    PROVE  ReachIn(d)'
<1>1. /\ TurnState /\ TurnTypeOK /\ ModelTypeOK /\ reason \in Reasons /\ MayAct(c) /\ Idle
      /\ ReachIn(d)
  BY TurnStateParts DEF ReachState, FollowState, UserReasons, CancelConversationProgress, MayAct
<1>2. PICK v : v = Interrupted(c, reason)
  OBVIOUS
<1>3. v \in Ceased(c, reason)
  BY <1>1, <1>2, InterruptedCeases
<1>4. PICK listed \in Orderings(InterruptedActions(c)) :
          \E execs : Commit(c, v, effects \o InterruptedEvents(c, listed, reason), execs)
  BY <1>2 DEF CancelConversationProgress
<1>5. PICK first : first = InterruptedEvents(c, listed, reason)
  OBVIOUS
<1>6. /\ first \o v.events \in SpeaksOf(c, ExecutingIn(c), reason) /\ first \in Seq(ControllerEvent)
  <2>1. LET evs == InterruptedEvents(c, listed, reason) \o Interrupted(c, reason).events
        IN  /\ evs \in SpeaksOf(c, ExecutingIn(c), reason)
            /\ status[c] = "Error" => Elems(evs) = {}
            /\ InterruptedEvents(c, listed, reason) \in Seq(ControllerEvent)
    BY <1>1, InterruptedSpeaks
  <2> QED BY <1>2, <1>5, <2>1
<1>7. v.events \in Seq(ControllerEvent)
  BY <1>3, CeasedSpeaks DEF SpeaksOf
<1>8. effects' = first \o v.events
  BY <1>1, <1>4, <1>5, <1>6 DEF Commit, Idle
<1>9. Elems(v.events) \subseteq Elems(effects')
  BY <1>6, <1>7, <1>8, ConcatElems
<1>10. /\ pending' = [pending EXCEPT ![c] = v.pending]
       /\ finished' = [finished EXCEPT ![c] = v.finished] /\ running' = running
       /\ stream' = [stream EXCEPT ![c] = NoStream] /\ resume' = [resume EXCEPT ![c] = FALSE]
       /\ UNCHANGED preprocessing
  <2>1. v.running = running[c]
    BY <1>3 DEF Ceased
  <2>2. /\ pending' = [pending EXCEPT ![c] = v.pending]
        /\ finished' = [finished EXCEPT ![c] = v.finished]
        /\ running' = [running EXCEPT ![c] = v.running]
    BY <1>4 DEF Commit
  <2>3. running' = running
    BY <1>1, <2>1, <2>2 DEF ModelTypeOK
  <2>4. /\ stream' = [stream EXCEPT ![c] = NoStream] /\ resume' = [resume EXCEPT ![c] = FALSE]
        /\ UNCHANGED preprocessing
    BY DEF CancelConversationProgress, ResumeAborted
  <2> QED BY <2>2, <2>3, <2>4
<1>11. CASE d = c
  <2>1. Pursued(c)'
    <3>1. /\ pending'[c] = v.pending /\ finished'[c] = v.finished
          /\ ExecutingIn(c) \subseteq AnsweredFor(c, effects')
      BY <1>1, <1>6, <1>8, <1>10 DEF ModelTypeOK, SpeaksOf
    <3> QED BY <1>1, <1>2, <1>9, <1>10, <3>1, CancelledPursues
  <2>2. ~Asked(c)'
    BY <1>1, <1>10 DEF Asked, Streaming, NoStream, TurnTypeOK
  <2> QED BY <1>11, <2>1, <2>2 DEF ReachIn
<1>12. CASE d # c
  <2>1. /\ pending'[d] = pending[d] /\ finished'[d] = finished[d]
        /\ Asked(d)' => Asked(d)
    BY <1>1, <1>10, <1>12 DEF Asked, Streaming, TurnTypeOK, ModelTypeOK
  <2>2. \A e \in Elems(effects') : e.conv # d
    BY <1>6, <1>8, <1>12 DEF SpeaksOf
  <2> QED BY <1>1, <1>10, <2>1, <2>2, AppendBypasses, Bypassed
<1> QED BY <1>11, <1>12

\* A query takes all results of its conversation with it; what is still to come there is
\* of cancelled actions.
LEMMA SendQueryReaches ==
    ASSUME ReachState, ReasonsComplete, NEW c \in Conversations, SendQuery(c),
           NEW d \in Conversations
    PROVE  ReachIn(d)'
<1>r. PICK reason, p : reason = QueryReason(c) /\ p = active
  OBVIOUS
<1>d. PICK refused \in BOOLEAN : refused = (Streaming(c) /\ p # c)
  OBVIOUS
<1>v. PICK v, w : v = CancelPending(c, ViewOf(c), reason) /\ w = Interrupted(p, reason)
  OBVIOUS
<1>D. PICK D : D = {c} \cup {b \in {p} \ {c} : ~Streaming(b)}
  OBVIOUS
<1>o. PICK own : own = IF Streaming(c) /\ ~refused THEN <<StreamCancelled(c, reason)>> ELSE <<>>
  OBVIOUS
<1>1. /\ TurnState /\ TurnTypeOK /\ ModelTypeOK /\ reason \in Reasons /\ ReachIn(d)
  BY <1>r, TurnStateParts DEF ReachState, FollowState, QueryReason, ReasonsComplete
<1>2. Sends(c, p, refused, v, w, D) /\ Emits(c, p, reason, own, v, w)
  BY <1>r, <1>d, <1>v, <1>D, <1>o, SendQueryForm
<1>3. p \in Conversations /\ MayAct(c) /\ (p # c => MayAct(p)) /\ Idle
  BY <1>1, <1>2, <1>r DEF TurnTypeOK, Sends, MayAct
<1>4. v \in Ceased(c, reason) /\ w \in Ceased(p, reason)
  BY <1>1, <1>3, <1>v, ViewCeases, InterruptedCeases
<1>l. PICK listed \in Orderings(ExecutingIn(c)) : \E other, before :
          /\ p # c => other \in Orderings(InterruptedActions(p))
          /\ before = IF p = c THEN <<>>
                      ELSE InterruptedEvents(p, other, reason) \o w.events
          /\ effects' = effects \o before \o own \o CancelledEvents(c, listed, reason)
                            \o v.events
  BY <1>2 DEF Emits
<1>5. PICK other, before :
          /\ p # c => other \in Orderings(InterruptedActions(p))
          /\ before = IF p = c THEN <<>>
                      ELSE InterruptedEvents(p, other, reason) \o w.events
          /\ effects' = effects \o before \o own \o CancelledEvents(c, listed, reason)
                            \o v.events
  BY <1>l
<1>6. PICK mid, last : mid = CancelledEvents(c, listed, reason) /\ last = v.events
  OBVIOUS
<1>7. before \in SpeaksOf(p, IF p = c THEN {} ELSE ExecutingIn(p), reason)
  BY <1>1, <1>3, <1>5, <1>v, SupersededSpeaks
<1>8. /\ own \in Seq(ControllerEvent) /\ mid \in Seq(ControllerEvent) /\ last \in Seq(ControllerEvent)
      /\ \A e \in Elems(own) \cup Elems(mid) \cup Elems(last) : e.conv = c
      /\ \A e \in Elems(own) : e.type = "StreamCancelled"
      /\ \A e \in Elems(mid) : e.res = "Cancelled"
      /\ \A e \in Elems(last) : e.type = "Finished"
  <2>1. own \in SpeaksOf(c, {}, reason)
    BY <1>1, <1>3, <1>o, UserActs, StreamCancelledSpeaks, SpeaksNothing
  <2>2. PICK X \in SUBSET ActionIds : X = ExecutingIn(c)
    BY DEF ExecutingIn
  <2>3. mid \in SpeaksOf(c, X, reason) /\ last \in SpeaksOf(c, {}, reason)
    BY <1>1, <1>4, <1>6, <2>2, CancelledSpeaks, CeasedSpeaks
  <2>4. \A e \in Elems(own) : e.type = "StreamCancelled"
    BY <1>o DEF Elems, StreamCancelled
  <2>5. \A e \in Elems(mid) : e.res = "Cancelled"
    BY <1>6 DEF Elems, CancelledEvents, ExecutorFinished
  <2>6. \A e \in Elems(last) : e.type = "Finished"
    BY <1>4, <1>6 DEF Ceased
  <2> QED BY <2>1, <2>3, <2>4, <2>5, <2>6 DEF SpeaksOf
<1>9. effects = <<>> /\ before \in Seq(ControllerEvent)
  BY <1>3, <1>7 DEF SpeaksOf, Idle
<1>10. PICK rest : rest = own \o mid \o last
  OBVIOUS
<1>11. rest \in Seq(ControllerEvent) /\ effects' = before \o rest
  <2>1. effects' = (((<<>> \o before) \o own) \o mid) \o last /\ rest = (own \o mid) \o last
    BY <1>5, <1>6, <1>9, <1>10
  <2>2. effects' = ((before \o own) \o mid) \o last
    BY <1>9, <2>1
  <2>3. PICK more : more = own \o mid
    OBVIOUS
  <2>4. more \in Seq(ControllerEvent) /\ (before \o own) \o mid = before \o more
    BY <1>8, <1>9, <2>3, SMTT(30)
  <2>5. effects' = (before \o more) \o last /\ rest = more \o last
    BY <2>1, <2>2, <2>3, <2>4
  <2> QED BY <1>8, <1>9, <2>4, <2>5, SMTT(30)
<1>12. Elems(rest) = (Elems(own) \cup Elems(mid)) \cup Elems(last)
  BY <1>8, <1>10, ThreeElems
<1>13. Elems(effects') = Elems(before) \cup Elems(rest)
  BY <1>9, <1>11, ConcatElems
<1>14. /\ UNCHANGED <<preprocessing, running>> /\ finished'[c] = <<>>
       /\ p # c => /\ pending'[p] = w.pending /\ finished'[p] = w.finished
                   /\ ~Asked(p)'
       /\ d \notin {p, c} => /\ pending'[d] = pending[d] /\ finished'[d] = finished[d]
                             /\ Asked(d)' => Asked(d)
  BY <1>1, <1>2, <1>3 DEF Sends, Asked, Streaming, NoStream
<1>15. CASE d = c
  <2>1. AllCancelled(finished[c])'
    BY <1>14, NothingFinished
  <2>2. ASSUME NEW e \in Elems(effects'), AnswerTo(c, e) PROVE e.res = "Cancelled"
    <3>1. e \notin Elems(before)
      <4>1. CASE p = c
        BY <1>5, <4>1 DEF Elems
      <4>2. CASE p # c
        BY <1>7, <2>2, <4>2 DEF SpeaksOf, AnswerTo
      <4> QED BY <4>1, <4>2
    <3> QED BY <1>8, <1>12, <1>13, <2>2, <3>1 DEF AnswerTo
  <2> QED BY <1>15, <2>1, <2>2 DEF ReachIn, Void, Pursued
<1>16. CASE d = p /\ p # c
  <2>1. Elems(w.events) \subseteq Elems(effects')
    <3>1. PICK first : first = InterruptedEvents(p, other, reason)
      OBVIOUS
    <3>2. first \in Seq(ControllerEvent)
      <4>1. other \in Orderings(InterruptedActions(p))
        BY <1>5, <1>16
      <4>2. LET evs == InterruptedEvents(p, other, reason) \o Interrupted(p, reason).events
            IN  /\ evs \in SpeaksOf(p, ExecutingIn(p), reason)
                /\ status[p] = "Error" => Elems(evs) = {}
                /\ InterruptedEvents(p, other, reason) \in Seq(ControllerEvent)
        BY <1>1, <1>3, <1>16, <4>1, InterruptedSpeaks
      <4> QED BY <3>1, <4>2
    <3>3. w.events \in Seq(ControllerEvent)
      BY <1>4, <1>3, CeasedSpeaks DEF SpeaksOf
    <3>4. before = first \o w.events
      BY <1>5, <1>16, <3>1
    <3>5. Elems(before) = Elems(first) \cup Elems(w.events)
      BY <3>2, <3>3, <3>4, ConcatElems
    <3> QED BY <1>13, <3>5
  <2>2. ExecutingIn(p) \subseteq AnsweredFor(p, effects')
    <3>1. AnsweredFor(p, before) = ExecutingIn(p)
      BY <1>7, <1>16 DEF SpeaksOf
    <3> QED BY <1>13, <3>1, FewerAnswers
  <2>3. Pursued(p)'
    BY <1>1, <1>3, <1>v, <1>14, <1>16, <2>1, <2>2, CancelledPursues
  <2> QED BY <1>14, <1>16, <2>3 DEF ReachIn
<1>17. CASE d \notin {p, c}
  <2>1. \A e \in Elems(effects') : e.conv # d
    BY <1>7, <1>8, <1>12, <1>13, <1>17 DEF SpeaksOf
  <2> QED BY <1>1, <1>3, <1>14, <1>17, <2>1, AppendBypasses, Bypassed
<1> QED BY <1>15, <1>16, <1>17

\* Sorting keeps results that are all of cancelled actions.
LEMMA SortFinishedVoid ==
    ASSUME ModelTypeOK, NEW c \in Conversations, NEW results \in Seq(Result), AllCancelled(results)
    PROVE  AllCancelled(SortFinished(c, results))
<1> DEFINE key == OrderKey(c, results)
           sorted == SortFinished(c, results)
<1>1. key \in [DOMAIN results -> Int]
  BY OrderKeyType
<1>2. sorted = StableSort(results, key)
  BY DEF SortFinished
<1> HIDE DEF key, sorted
<1>3. DOMAIN sorted = DOMAIN results
  BY <1>1, <1>2, StableSortType
<1>4. PICK pos : SortsBy(results, key, pos)
  BY <1>1, StableSortPositions
<1>5. /\ pos \in [DOMAIN results -> DOMAIN results]
      /\ \A k \in DOMAIN results : sorted[k] = results[pos[k]]
  BY <1>2, <1>4 DEF SortsBy
<1>6. AllCancelled(sorted)
  BY <1>3, <1>5 DEF AllCancelled
<1> QED BY <1>6 DEF sorted

\* A cancelled result where nothing is queued, and only such results were kept.
LEMMA HandleResultVoid ==
    ASSUME ModelTypeOK, NEW c \in Conversations, NEW v \in View, v.pending = <<>>,
           AllCancelled(v.finished), NEW a \in ActionIds, NEW reason \in Reasons \cup {NoReason}
    PROVE  AllCancelled(HandleResult(c, v, a, "Cancelled", reason).finished)
<1> DEFINE u == WithoutRunning(v, a)
           w == Pushed(c, u, a, "Cancelled", reason)
           r == RecordResult(c, u, a, "Cancelled", reason)
<1>1. u \in View
  BY WithoutRunningType
<1>2. u.pending = <<>> /\ u.finished = v.finished
  BY DEF WithoutRunning, View
<1> HIDE DEF u
<1>3. "Cancelled" \in Results
  BY DEF Results
<1>4. /\ w \in View /\ Sorted(c, w) \in View
      /\ \/ u.running.ids # {} /\ r = w
         \/ u.running.ids = {} /\ u.pending # <<>> /\ r = TryExecuteAvailable(c, Sorted(c, w))
         \/ /\ u.running.ids = {} /\ u.pending = <<>>
            /\ \E st \in Statuses : r = [Sorted(c, w) EXCEPT !.status = st]
  BY <1>1, <1>3, RecordResultForms
<1>5. w.finished = Append(u.finished, [id |-> a, res |-> "Cancelled"])
  BY <1>1 DEF Pushed, View
<1>6. r = HandleResult(c, v, a, "Cancelled", reason)
  BY DEF HandleResult, u
<1> HIDE DEF w, r
<1>7. AllCancelled(w.finished)
  <2>1. PICK s \in Seq(Result), x \in Result : s = u.finished /\ x = [id |-> a, res |-> "Cancelled"]
    BY <1>1, <1>3 DEF View, Result
  <2>2. AllCancelled(s) /\ x.res = "Cancelled" /\ w.finished = Append(s, x)
    BY <1>2, <1>5, <2>1
  <2> QED BY <2>1, <2>2 DEF AllCancelled
<1>8. Sorted(c, w).finished = SortFinished(c, w.finished) /\ w.finished \in Seq(Result)
  BY <1>4 DEF Sorted, View
<1>9. AllCancelled(Sorted(c, w).finished)
  BY <1>7, <1>8, SortFinishedVoid
<1>10. AllCancelled(r.finished)
  <2>1. PICK x : x = Sorted(c, w)
    OBVIOUS
  <2>2. \A st \in Statuses : [x EXCEPT !.status = st].finished = x.finished
    BY <1>4, <2>1 DEF View
  <2> QED BY <1>2, <1>4, <1>7, <1>9, <2>1, <2>2
<1> QED BY <1>6, <1>10

\* All events but the first are still there after it.
LEMMA TailKeeps ==
    ASSUME effects \in Seq(ControllerEvent), ~Idle, NEW e \in Elems(effects), e # Head(effects)
    PROVE  e \in Elems(Tail(effects))
<1>1. PICK i \in DOMAIN effects : e = effects[i]
  BY DEF Elems
<1>2. i \in 1..Len(effects) /\ Len(effects) \in Nat /\ i # 1 /\ effects # <<>>
  BY <1>1 DEF Idle
<1>3. i - 1 \in DOMAIN Tail(effects) /\ Tail(effects)[i - 1] = effects[i]
  BY <1>2
<1> QED BY <1>1, <1>3 DEF Elems

\* A result arrives: its action is announced as finished; where the agent is asked
\* meanwhile, it is a cancelled action's.
LEMMA DeliverExecutorFinishedReaches ==
    ASSUME ReachState, DeliverExecutorFinished, UNCHANGED streamVars, NEW d \in Conversations
    PROVE  ReachIn(d)'
<1>1. /\ TurnState /\ ModelTypeOK /\ ReachIn(d) /\ effects \in Seq(ControllerEvent) /\ ~Idle
      /\ UNCHANGED <<stream, resume>>
  BY TurnStateParts DEF ReachState, FollowState, DeliverExecutorFinished, streamVars
<1>2. PICK c \in Conversations : \E v : Delivers(c, v)
  BY <1>1, DeliverForm
<1>3. PICK v : Delivers(c, v)
  BY <1>2
<1>e. PICK e, queue : e = Head(effects) /\ queue = Tail(effects)
  OBVIOUS
<1>4. /\ e \in Elems(effects) /\ e.type = "ExecutorFinished" /\ e.conv = c
      /\ queue \in Seq(ControllerEvent) /\ Elems(queue) \subseteq Elems(effects)
      /\ Commit(c, v, queue, executing) /\ UNCHANGED preprocessing
      /\ v \in View /\ \A x \in Elems(v.events) : x.conv = c
  BY <1>1, <1>3, <1>e, HeadOfEffects DEF Delivers
<1>5. \A x \in Elems(effects) : x # e => x \in Elems(queue)
  BY <1>1, <1>e, TailKeeps
<1>6. e.id \in ActionIds /\ e.res \in Results /\ e.reason \in Reasons \cup {NoReason}
  <2>1. e \in ControllerEvent
    BY <1>1, <1>e, HeadOfEffects
  <2> QED BY <1>4, <2>1 DEF ControllerEvent, Event
<1>7. CASE d # c
  <2>1. \A x \in Elems(effects) : x.conv = d => x \in Elems(queue)
    BY <1>4, <1>5, <1>7
  <2> QED BY <1>1, <1>4, <1>7, <2>1, CommitBypasses, Bypassed
<1>8. CASE d = c
  <2>1. PICK w, a, res, reason : w = ViewOf(c) /\ a = e.id /\ res = e.res /\ reason = e.reason
    OBVIOUS
  <2>2. v = HandleResult(c, w, a, res, reason)
    BY <1>3, <1>e, <2>1 DEF Delivers
  <2>3. /\ w \in View /\ w.pending = pending[c] /\ w.finished = finished[c] /\ w.started = {}
        /\ w.events = <<>> /\ w.status \in Statuses
        /\ a \in ActionIds /\ res \in Results /\ reason \in Reasons \cup {NoReason}
    BY <1>1, <1>6, <2>1, ViewOfType DEF ViewOf, ModelTypeOK
  <2>4. v \in PursuedView(c)
    BY <1>1, <2>2, <2>3, HandleResultPursued
  <2>5. /\ Elems(effects') = Elems(queue) \cup Elems(v.events)
        /\ running'[c] = v.running /\ pending'[c] = v.pending
    BY <1>1, <1>4, CommitAnnounces
  <2>6. Pursued(c)'
    <3>1. Elems(v.events) \subseteq Elems(effects')
      BY <2>5
    <3> QED BY <2>4, <2>5, <3>1, CommitPursues
  <2>7. ASSUME Asked(c) PROVE Void(c)'
    <3>1. Void(c) /\ Asleep(c)
      BY <1>1, <1>8, <2>7, TurnStateParts DEF ReachIn, TurnIn, Awaits, Asked
    <3>2. res = "Cancelled" /\ AllCancelled(w.finished) /\ w.pending = <<>>
      BY <1>4, <2>1, <2>3, <3>1 DEF Void, AnswerTo, Asleep
    <3>3. AllCancelled(v.finished)
      <4>1. AllCancelled(HandleResult(c, w, a, "Cancelled", reason).finished)
        BY <1>1, <2>3, <3>2, HandleResultVoid
      <4> QED BY <2>2, <3>2, <4>1
    <3>4. finished'[c] = v.finished
      BY <1>1, <1>4 DEF Commit, ModelTypeOK
    <3>5. \A x \in Elems(v.events) : x.type = "Finished"
      <4>1. PICK S : S = Statuses
        OBVIOUS
      <4>2. Kept(reason, S) /\ w.status \in S
        BY <2>3, <4>1 DEF Kept, Statuses
      <4>3. /\ ModelTypeOK /\ w \in View /\ w.pending = <<>> /\ w.started = {} /\ w.events = <<>>
            /\ a \in ActionIds /\ res \in Results /\ reason \in Reasons \cup {NoReason}
        BY <1>1, <2>3, <3>2
      <4>4. \E p : /\ HandleResult(c, w, a, res, reason) \in ClosedView(c, reason, S, p)
                   /\ p.ids = w.running.ids \ {a}
        BY <4>2, <4>3, HandleResultClosed
      <4> QED BY <2>2, <4>4 DEF ClosedView
    <3>6. \A x \in Elems(effects') : AnswerTo(c, x) => x.res = "Cancelled"
      BY <1>4, <2>5, <3>1, <3>5 DEF Void, AnswerTo
    <3>7. AllCancelled(finished[c])'
      BY <3>3, <3>4 DEF AllCancelled
    <3> QED BY <3>6, <3>7 DEF Void
  <2>8. Asked(c)' => Asked(c)
    BY <1>1 DEF Asked, Streaming
  <2> QED BY <1>8, <2>6, <2>7, <2>8 DEF ReachIn
<1> QED BY <1>7, <1>8

\* An action was announced as finished: its conversation's results are followed up, or
\* another action of it is still under way.
LEMMA DeliverFinishedActionReaches ==
    ASSUME ReachState, ReasonsComplete, DeliverFinishedAction, NEW d \in Conversations
    PROVE  ReachIn(d)'
<1>e. PICK e : e = Head(effects)
  OBVIOUS
<1>c. PICK c : c = e.conv
  OBVIOUS
<1>1. /\ TurnState /\ ModelTypeOK /\ TurnTypeOK /\ ReachIn(d) /\ ~Idle
      /\ effects \in Seq(ControllerEvent) /\ e.type = "Finished" /\ effects' = Tail(effects)
      /\ UNCHANGED <<preprocessing, pending, running>>
      /\ FollowState /\ StopsOrQueries
  BY <1>e, TurnStateParts DEF ReachState, FollowState, DeliverFinishedAction
<1>2. /\ e \in ControllerEvent /\ e \in Elems(effects) /\ Elems(effects') \subseteq Elems(effects)
      /\ \A x \in Elems(effects) : x # e => x \in Elems(effects')
  BY <1>1, <1>e, HeadOfEffects, TailKeeps
<1>3. c \in Conversations /\ e.reason \in Reasons \cup {NoReason}
  BY <1>1, <1>2, <1>c DEF ControllerEvent, Event
<1>4. \/ FollowUp(c) /\ ~Streaming(c) /\ ~Quiet(c, e.reason)
      \/ /\ Quiet(c, e.reason) \/ ~WantsFollowUp(c, e.reason) \/ Streaming(c)
         /\ UNCHANGED <<finished, stream, resume>>
  BY <1>e, <1>c DEF DeliverFinishedAction
<1>5. CASE FollowUp(c) /\ ~Streaming(c) /\ ~Quiet(c, e.reason)
  <2>1. /\ finished' = [finished EXCEPT ![c] = <<>>]
        /\ stream' = [stream EXCEPT ![c] = Opened(TRUE)]
        /\ resume' = [resume EXCEPT ![c] = FALSE]
    BY <1>5 DEF FollowUp, DrainFinished, Request, ResumeAborted
  <2>2. CASE d # c
    <3>1. Bypasses(d)
      BY <1>1, <1>2, <1>c, <2>1, <2>2 DEF Bypasses, Reports, Asked, Streaming, ModelTypeOK, TurnTypeOK
    <3> QED BY <1>1, <3>1, Bypassed
  <2>3. CASE d = c
    <3>1. AllCancelled(finished[c])'
      BY <1>1, <1>3, <2>1, NothingFinished DEF ModelTypeOK
    <3>2. Streaming(c)'
      BY <1>1, <1>3, <2>1 DEF Streaming, Opened, TurnTypeOK
    <3>3. Unsettled(c)' = {}
      <4>1. [ControllerNext]_controllerVars
        BY DEF ControllerNext
      <4> QED BY <1>1, <1>3, <1>5, <3>2, <4>1, FollowUpStep DEF FollowsUp
    <3>4. \A x \in Elems(effects') : ~AnswerTo(c, x)
      BY <3>3, UnsettledParts, AnswersByElements
    <3> QED BY <2>3, <3>1, <3>4 DEF ReachIn, Void, Pursued
  <2> QED BY <2>2, <2>3
<1>6. CASE /\ Quiet(c, e.reason) \/ ~WantsFollowUp(c, e.reason) \/ Streaming(c)
           /\ UNCHANGED <<finished, stream, resume>>
  <2>1. CASE d # c
    <3>1. Bypasses(d)
      BY <1>1, <1>2, <1>6, <1>c, <2>1 DEF Bypasses, Reports, Asked, Streaming
    <3> QED BY <1>1, <3>1, Bypassed
  <2>2. CASE d = c
    <3>1. Asked(c)' => Void(c)'
      BY <1>1, <1>2, <1>6, <2>2 DEF ReachIn, Asked, Streaming, Void, AllCancelled
    <3>2. Unsettled(c)' = Unsettled(c)
      <4>1. AnsweredFor(c, effects') = AnsweredFor(c, effects)
        BY <1>1, <1>3, <1>e, QuietDelivery
      <4>2. PreprocessingIds(c)' = PreprocessingIds(c)
        BY <1>1 DEF PreprocessingIds
      <4> QED BY <1>1, <4>1, <4>2, UnsettledParts
    <3>3. ASSUME Unsettled(c) = {}, ~AllCancelled(finished[c]) PROVE FALSE
      <4>1. ~Streaming(c)
        BY <1>1, <2>2, <3>3 DEF ReachIn, Asked, Void
      <4>2. ~HasUnfinished(c)
        <5>1. Elems(pending[c]) = {} /\ running[c].ids = {}
          BY <3>3, UnsettledParts
        <5>2. PICK q \in Seq(ActionIds) : q = pending[c]
          BY <1>1, <1>3 DEF ModelTypeOK
        <5>3. q # <<>> => 1 \in DOMAIN q
          OBVIOUS
        <5>4. q = <<>>
          BY <5>1, <5>2, <5>3 DEF Elems
        <5> QED BY <5>1, <5>2, <5>4 DEF HasUnfinished
      <4>3. finished[c] # <<>>
        BY <3>3, NothingFinished
      <4>4. e.reason # "FinalizedExternally" /\ e.reason # "Succeeded"
        BY <1>1, <1>3 DEF StopsOrQueries, NoReason
      <4> QED BY <1>6, <3>3, <4>1, <4>2, <4>3, <4>4 DEF Quiet, WantsFollowUp
    <3>4. Pursued(c)'
      <4>1. AllCancelled(finished[c])' \/ Unsettled(c)' # {}
        BY <1>6, <3>2, <3>3 DEF AllCancelled
      <4> QED BY <4>1 DEF Pursued
    <3> QED BY <2>2, <3>1, <3>4 DEF ReachIn
  <2> QED BY <2>1, <2>2
<1> QED BY <1>4, <1>5, <1>6

\* Steps that are not about actions.
LEMMA OtherReaches ==
    ASSUME ReachState, NEW d \in Conversations,
           \/ DeliverStreamCancelled
           \/ \E c \in Conversations : SelectConversation(c) \/ AutoResume(c)
           \/ ChangeSettings /\ UNCHANGED streamVars
           \/ UNCHANGED controllerVars
    PROVE  ReachIn(d)'
<1>1. /\ TurnState /\ TurnTypeOK /\ ReachIn(d) /\ effects \in Seq(ControllerEvent)
  BY TurnStateParts DEF ReachState, FollowState
<1>2. CASE DeliverStreamCancelled
  <2>1. PICK e : e = Head(effects)
    OBVIOUS
  <2>2. /\ ~Idle /\ e.type = "StreamCancelled" /\ ~e.resumes /\ effects' = Tail(effects)
        /\ resume' = [resume EXCEPT ![e.conv] = @ \/ e.resumes]
        /\ UNCHANGED <<preprocessing, pending, running, finished, stream>>
    BY <1>1, <1>2, <2>1, HeadTurn DEF DeliverStreamCancelled
  <2>3. resume'[d] = resume[d]
    BY <1>1, <2>2 DEF TurnTypeOK
  <2>4. /\ Elems(effects') \subseteq Elems(effects)
        /\ \A x \in Elems(effects) : x # e => x \in Elems(effects')
    BY <1>1, <2>1, <2>2, HeadOfEffects, TailKeeps
  <2>5. Bypasses(d)
    BY <2>2, <2>3, <2>4 DEF Bypasses, Reports, Asked, Streaming
  <2> QED BY <1>1, <2>5, Bypassed
<1>3. ASSUME NEW c \in Conversations, AutoResume(c) PROVE ReachIn(d)'
  <2>1. Asked(d)' => Asked(d)
    <3>1. CASE d = c
      BY <1>3, <3>1 DEF AutoResume, Asked
    <3>2. CASE d # c
      BY <1>1, <1>3, <3>2 DEF AutoResume, Asked, Streaming, Request, ResumeAborted, TurnTypeOK
    <3> QED BY <3>1, <3>2
  <2>2. Bypasses(d)
    BY <1>3, <2>1 DEF AutoResume, Bypasses
  <2> QED BY <1>1, <2>2, Bypassed
<1>4. CASE \/ \E c \in Conversations : SelectConversation(c)
           \/ ChangeSettings /\ UNCHANGED streamVars
           \/ UNCHANGED controllerVars
  <2>1. UNCHANGED <<preprocessing, pending, running, finished, effects, stream, resume>>
    BY <1>4 DEF SelectConversation, ChangeSettings, vars, streamVars, controllerVars
  <2>2. Bypasses(d)
    BY <2>1 DEF Bypasses, Asked, Streaming
  <2> QED BY <1>1, <2>2, Bypassed
<1> QED BY <1>2, <1>3, <1>4

LEMMA ReachStep ==
    ASSUME ReachState, ReasonsComplete, [ControllerNext]_controllerVars PROVE ReachState'
<1>1. FollowState' /\ StopsOrQueries
  BY FollowStep DEF ReachState
<1>2. ASSUME NEW d \in Conversations PROVE ReachIn(d)'
  <2>1. ASSUME NEW c \in Conversations, ActionStep(c) \/ StreamStep(c) \/ SendQuery(c)
        PROVE  ReachIn(d)'
    BY <2>1, ActionStepReaches, StreamStepReaches, SendQueryReaches
  <2>2. ASSUME NEW c \in Conversations, NEW reason \in UserReasons,
               CancelConversationProgress(c, reason)
        PROVE  ReachIn(d)'
    BY <2>2, CancelProgressReaches
  <2>3. \A c \in Conversations : ~ShellExits(c)
    BY <1>1 DEF ShellExits, StopsOrQueries
  <2>4. CASE DeliverExecutorFinished /\ UNCHANGED streamVars
    BY <2>4, DeliverExecutorFinishedReaches
  <2>5. CASE DeliverFinishedAction
    BY <2>5, DeliverFinishedActionReaches
  <2> QED BY <2>1, <2>2, <2>3, <2>4, <2>5, OtherReaches DEF ControllerNext
<1> QED BY <1>1, <1>2 DEF ReachState, StopsOrQueries

LEMMA ReachInit ==
    ASSUME ControllerInit, NEW c \in Conversations PROVE ReachIn(c)
<1>1. AllCancelled(finished[c])
  BY NothingFinished DEF ControllerInit, Init
<1>2. ~Asked(c)
  BY DEF ControllerInit, Init, Asked, Streaming, NoStream
<1> QED BY <1>1, <1>2 DEF ReachIn, Pursued

-----------------------------------------------------------------------------
(***************************************************************************)
(* The theorems, for any conversations, outputs, settings and numbers of   *)
(* queries.  They assume of the constants that the agent does not use an   *)
(* identifier in two conversations, that the reasons include those of a    *)
(* query, and that the user is slow.                                       *)
(***************************************************************************)
TurnAssumptions == DistinctIdentifiers /\ ReasonsComplete /\ UserIsSlow

\* The inductive invariant holds in every reachable state.
LEMMA TurnStateHolds == TurnAssumptions => (ControllerSpec => []TurnState)
<1>1. SUFFICES ASSUME TurnAssumptions PROVE ControllerSpec => []TurnState
  OBVIOUS
<1>2. ControllerInit => TurnState
  BY <1>1, TurnInit DEF TurnAssumptions
<1>3. TurnState /\ [ControllerNext]_controllerVars => TurnState'
  BY <1>1, TurnStep DEF TurnAssumptions
<1> QED
  BY <1>2, <1>3, PTL DEF ControllerSpec

\* Under the controller, too, an action is in one place (ActionsAreInOnePlace): no order
\* of queries, stops, streams and results loses or doubles an action.
THEOREM ControllerPlacesCorrect ==
    TurnAssumptions => (ControllerSpec => []ActionsAreInOnePlace)
<1>1. TurnState => ActionsAreInOnePlace
  BY TurnPlaces
<1> QED
  BY <1>1, TurnStateHolds, PTL

\* What is being answered is shown as in progress (AnswerIsInProgress), in the only
\* conversation there is: neither the late results of the actions that its request
\* superseded nor the end of its previous stream ends it.
THEOREM AnswersAreInProgress ==
    (TurnAssumptions /\ OneConversation) => (ControllerSpec => []AnswerIsInProgress)
<1>1. SUFFICES ASSUME TurnAssumptions, OneConversation
               PROVE  ControllerSpec => []AnswerIsInProgress
  OBVIOUS
<1>2. ControllerInit => AnswerState
  BY <1>1, TurnInit, SourcesInit, AnswerInit DEF TurnAssumptions, AnswerState
<1>3. AnswerState /\ [ControllerNext]_controllerVars => AnswerState'
  BY <1>1, AnswerStep DEF TurnAssumptions
<1>4. AnswerState => AnswerIsInProgress
  BY DEF AnswerState, AnswerIn, AnswerIsInProgress
<1> QED
  BY <1>2, <1>3, <1>4, PTL DEF ControllerSpec

\* No result that the agent waits for is left behind (ResultsReachTheAgent), where actions
\* are cancelled by a stop or a query only: after the exit of a shell, and when a revert or
\* the end of a long-running command is itself the outcome, the controller sends none.
THEOREM ResultsReach ==
    (TurnAssumptions /\ ResultsAlone /\ StopsOrQueries) => (ControllerSpec => []ResultsReachTheAgent)
<1>1. SUFFICES ASSUME TurnAssumptions, ResultsAlone, StopsOrQueries
               PROVE  ControllerSpec => []ResultsReachTheAgent
  OBVIOUS
<1>2. ControllerInit => ReachState
  BY <1>1, TurnInit, SourcesInit, FollowInit, ReachInit DEF TurnAssumptions, FollowState, ReachState
<1>3. ReachState /\ [ControllerNext]_controllerVars => ReachState'
  BY <1>1, ReachStep DEF TurnAssumptions
<1>4. ReachState => ResultsReachTheAgent
  BY DEF ReachState, ReachIn, Pursued, ResultsReachTheAgent, Idle, Elems
<1> QED
  BY <1>2, <1>3, <1>4, PTL DEF ControllerSpec

\* A conversation that has failed stays so until another request is sent for it
\* (ErrorIsFinal): no late result, event or answer moves it back.
THEOREM ErrorsAreFinal == TurnAssumptions => (ControllerSpec => ErrorIsFinal)
<1>1. SUFFICES ASSUME TurnAssumptions PROVE ControllerSpec => ErrorIsFinal
  OBVIOUS
<1>2. TurnState /\ [ControllerNext]_controllerVars => ErrorsKept
  BY <1>1, ErrorStep DEF TurnAssumptions
<1>3. ControllerSpec => []TurnState
  BY <1>1, TurnStateHolds
<1>4. ErrorsKept => \A c \in Conversations :
                        (status[c] = "Error" /\ status[c]' # "Error") => stream[c]'.phase = "Open"
  BY DEF ErrorsKept
<1> QED
  BY <1>2, <1>3, <1>4, PTL DEF ControllerSpec, ErrorIsFinal
=============================================================================
