------------------------ MODULE ResponseStreamProofs ------------------------
(***************************************************************************)
(* Proofs about ResponseStream: its types and the retry budget, and, for   *)
(* transports that end a stream with its answer or error, that it acts     *)
(* once, is settled once, waits only for a retry that will run and         *)
(* implements StreamContract, for any number of retries and outages.       *)
(***************************************************************************)
EXTENDS ResponseStream, FiniteSetTheorems, TLAPS

(***************************************************************************)
(* Who waits is an attempt up to the latest one, and not the last that the *)
(* budget allows: its callback finds a retry left.  If it is the current   *)
(* one, its retry is parked.                                               *)
(***************************************************************************)
WaitersHaveBudget ==
    \A w \in waiting :
        w.id <= retryCount /\ w.id < MaxRetries /\ (w.id = current => parked)

TypeInv == StreamTypeOK /\ WaitersHaveBudget

-----------------------------------------------------------------------------
(* The types.                                                              *)

\* The initial state has the types.
LEMMA TypeInit ==
    ASSUME Init PROVE TypeInv
<1>1. retryCount \in Attempts /\ current = retryCount
  BY MaxRetriesAssumption DEF Init, Attempts
<1>2. transport \in [Attempts -> Transports]
  BY DEF Init, Transports
<1>3. {acted, finished, errored, parked, resumes, resumable, online} \subseteq BOOLEAN
  BY DEF Init
<1>4. outages \in 0..MaxOutages /\ outcomes \in Nat
  BY MaxOutagesAssumption DEF Init
<1> QED BY <1>1, <1>2, <1>3, <1>4 DEF Init, TypeInv, StreamTypeOK, WaitersHaveBudget

\* Moving an attempt keeps the type of transport.
LEMMA MovedType ==
    ASSUME transport \in [Attempts -> Transports], NEW r \in Attempts,
           NEW state \in Transports
    PROVE  Moved(r, state) \in [Attempts -> Transports]
BY DEF Moved

\* A retry within the budget keeps the types.
LEMMA RetryType ==
    ASSUME TypeInv, retryCount < MaxRetries,
           NEW next \in [Attempts -> Transports], NEW phase \in {seen, "Open"},
           Retry(next, phase), waiting' \subseteq waiting,
           UNCHANGED <<resumable, online, outages>>
    PROVE  TypeInv'
<1>1. retryCount' \in Attempts /\ current' = retryCount'
  BY MaxRetriesAssumption DEF TypeInv, StreamTypeOK, Retry, Attempts
<1>2. transport' \in [Attempts -> Transports]
  BY DEF Retry, Transports
<1>3. {acted, finished, errored, parked, resumes, resumable, online}' \subseteq BOOLEAN
  BY DEF TypeInv, StreamTypeOK, Retry, FlagsReset
<1>4. cancellable' \in BOOLEAN /\ seen' \in {"Open", "Waiting", "Completed", "Failed", "Ended", "Cancelled"}
  BY DEF TypeInv, StreamTypeOK, Retry
<1>5. outages' \in 0..MaxOutages /\ outcomes' \in Nat /\ applied' \subseteq Attempts
      /\ waiting' \subseteq [id : Attempts, woken : BOOLEAN]
  BY DEF TypeInv, StreamTypeOK, Retry
<1>6. WaitersHaveBudget'
  BY MaxRetriesAssumption DEF TypeInv, StreamTypeOK, WaitersHaveBudget, Retry, Attempts
<1> QED BY <1>1, <1>2, <1>3, <1>4, <1>5, <1>6 DEF TypeInv, StreamTypeOK

\* Parking a retry of the current attempt keeps the types.
LEMMA DeferType ==
    ASSUME TypeInv, current # NoRequest, retryCount < MaxRetries,
           NEW next \in [Attempts -> Transports], Defer(next),
           UNCHANGED <<resumable, online, outages>>
    PROVE  TypeInv'
<1>1. current = retryCount /\ retryCount \in Attempts /\ online \in BOOLEAN
  BY DEF TypeInv, StreamTypeOK
<1>2. waiting' \subseteq [id : Attempts, woken : BOOLEAN]
  BY <1>1 DEF TypeInv, StreamTypeOK, Defer
<1>3. WaitersHaveBudget'
  BY <1>1, MaxRetriesAssumption DEF TypeInv, StreamTypeOK, WaitersHaveBudget, Defer, Attempts
<1>4. {acted, finished, errored, parked, resumes, resumable, online}' \subseteq BOOLEAN
  BY DEF TypeInv, StreamTypeOK, Defer
<1> QED BY <1>2, <1>3, <1>4 DEF TypeInv, StreamTypeOK, Defer

\* Surfacing an error keeps the types.
LEMMA SurfaceType ==
    ASSUME TypeInv, NEW next \in [Attempts -> Transports],
           NEW resume \in BOOLEAN, NEW atEnd \in BOOLEAN, Surface(next, resume, atEnd),
           UNCHANGED <<resumable, online, outages>>
    PROVE  TypeInv'
<1>1. {acted, finished, errored, parked, resumes, resumable, online}' \subseteq BOOLEAN
  BY DEF TypeInv, StreamTypeOK, Surface
<1>2. cancellable' \in BOOLEAN
  BY DEF TypeInv, StreamTypeOK, Surface
<1>3. outcomes' \in Nat /\ seen' \in {"Ended", "Failed"}
  BY DEF TypeInv, StreamTypeOK, Surface
<1> QED BY <1>1, <1>2, <1>3 DEF TypeInv, StreamTypeOK, Surface, WaitersHaveBudget

\* Dropping a callback keeps the types.
LEMMA DroppedType ==
    ASSUME TypeInv, NEW next \in [Attempts -> Transports], Dropped(next),
           UNCHANGED <<resumable, online, outages>>
    PROVE  TypeInv'
BY DEF TypeInv, StreamTypeOK, Dropped, WaitersHaveBudget, flags

\* Recovering from a failure of the current attempt keeps the types.
LEMMA RecoverType ==
    ASSUME TypeInv, current # NoRequest, NEW next \in [Attempts -> Transports],
           NEW recoverable \in BOOLEAN, NEW atEnd \in BOOLEAN,
           Recover(next, recoverable, atEnd),
           UNCHANGED <<resumable, online, outages>>
    PROVE  TypeInv'
<1>1. CASE Recovery(recoverable) = "RetryNow"
  <2>1. retryCount < MaxRetries BY <1>1 DEF Recovery
  <2>2. Retry(next, seen) /\ waiting' = waiting BY <1>1 DEF Recover
  <2> QED BY <2>1, <2>2, RetryType
<1>2. CASE Recovery(recoverable) = "RetryWhenOnline"
  <2>1. retryCount < MaxRetries BY <1>2 DEF Recovery
  <2>2. Defer(next) BY <1>2 DEF Recover
  <2> QED BY <2>1, <2>2, DeferType
<1>3. CASE Recovery(recoverable) \in {"Resume", "Fail"}
  <2>1. Surface(next, Recovery(recoverable) = "Resume", atEnd) BY <1>3 DEF Recover
  <2>2. (Recovery(recoverable) = "Resume") \in BOOLEAN OBVIOUS
  <2> QED BY <2>1, <2>2, SurfaceType
<1> QED BY <1>1, <1>2, <1>3 DEF Recovery

(***************************************************************************)
(* The step of every action keeps the types.                               *)
(***************************************************************************)
LEMMA TypeStep ==
    ASSUME TypeInv, [Next]_vars
    PROVE  TypeInv'
<1> USE DEF NoRequest
<1>0. transport \in [Attempts -> Transports] /\ current \in {retryCount, NoRequest}
      /\ retryCount \in Attempts /\ outcomes \in Nat
  BY DEF TypeInv, StreamTypeOK
<1>live. ASSUME NEW r \in Attempts, Live(r) PROVE current # NoRequest
  BY <1>live, MaxRetriesAssumption DEF Live, Attempts
<1>1. ASSUME NEW r \in Attempts, Refreshed(r) PROVE TypeInv'
  <2>1. (IF Live(r) THEN "Sending" ELSE "Over") \in Transports BY DEF Transports
  <2>2. Moved(r, IF Live(r) THEN "Sending" ELSE "Over") \in [Attempts -> Transports]
    BY <1>0, <2>1, MovedType
  <2> QED BY <1>1, <2>2, DroppedType DEF Refreshed
<1>2. ASSUME NEW r \in Attempts, RefreshFails(r) PROVE TypeInv'
  <2>1. Moved(r, "Over") \in [Attempts -> Transports] BY <1>0, MovedType DEF Transports
  <2> QED BY <1>2, <2>1, DroppedType, SurfaceType DEF RefreshFails
<1>3. ASSUME NEW r \in Attempts, StreamOpens(r) PROVE TypeInv'
  <2>1. Moved(r, "Streaming") \in [Attempts -> Transports] BY <1>0, MovedType DEF Transports
  <2> QED BY <1>3, <2>1, DroppedType DEF StreamOpens
<1>4. ASSUME NEW r \in Attempts, ConversionFails(r) PROVE TypeInv'
  <2>1. Moved(r, "Over") \in [Attempts -> Transports] BY <1>0, MovedType DEF Transports
  <2> QED BY <1>4, <2>1, DroppedType, SurfaceType DEF ConversionFails
<1>5. ASSUME NEW r \in Attempts, StreamCloses(r) PROVE TypeInv'
  <2>1. Moved(r, "Over") \in [Attempts -> Transports] BY <1>0, MovedType DEF Transports
  <2>2. CASE ~Live(r) \/ parked
    BY <1>5, <2>1, <2>2, DroppedType DEF StreamCloses
  <2>3. CASE Live(r) /\ ~parked /\ Truncated
    BY <1>5, <1>live, <2>1, <2>3, RecoverType DEF StreamCloses
  <2>4. CASE Live(r) /\ ~parked /\ ~Truncated
    BY <1>5, <2>1, <2>4 DEF StreamCloses, TypeInv, StreamTypeOK, WaitersHaveBudget, flags
  <2> QED BY <2>2, <2>3, <2>4
<1>6. ASSUME NEW r \in Attempts, ActionsArrive(r) PROVE TypeInv'
  <2>1. {acted, finished, errored, parked, resumes, resumable, online}' \subseteq BOOLEAN
    BY <1>6 DEF ActionsArrive, TypeInv, StreamTypeOK
  <2>2. applied' \subseteq Attempts
    BY <1>6 DEF ActionsArrive, TypeInv, StreamTypeOK
  <2> QED BY <1>6, <2>1, <2>2 DEF ActionsArrive, TypeInv, StreamTypeOK, WaitersHaveBudget
<1>7. ASSUME NEW r \in Attempts, FinishArrives(r) PROVE TypeInv'
  <2>1. {acted, finished, errored, parked, resumes, resumable, online}' \subseteq BOOLEAN
    BY <1>7 DEF FinishArrives, TypeInv, StreamTypeOK
  <2>2. Moved(r, AfterLast) \in [Attempts -> Transports]
    BY <1>0, MovedType DEF AfterLast, Transports
  <2>3. outcomes' \in Nat
        /\ seen' \in {"Open", "Waiting", "Completed", "Failed", "Ended", "Cancelled"}
    BY <1>7 DEF FinishArrives, TypeInv, StreamTypeOK
  <2> QED BY <1>7, <2>1, <2>2, <2>3 DEF FinishArrives, TypeInv, StreamTypeOK, WaitersHaveBudget
<1>8. ASSUME NEW r \in Attempts, ErrorArrives(r) PROVE TypeInv'
  <2>1. Moved(r, AfterLast) \in [Attempts -> Transports]
    BY <1>0, MovedType DEF AfterLast, Transports
  <2> QED BY <1>8, <1>live, <2>1, DroppedType, RecoverType DEF ErrorArrives
<1>9. ASSUME GoOffline PROVE TypeInv'
  <2>1. {acted, finished, errored, parked, resumes, resumable, online}' \subseteq BOOLEAN
    BY <1>9 DEF GoOffline, TypeInv, StreamTypeOK, flags
  <2>2. outages' \in 0..MaxOutages
    BY <1>9, MaxOutagesAssumption DEF GoOffline, TypeInv, StreamTypeOK, flags
  <2> QED BY <1>9, <2>1, <2>2 DEF GoOffline, TypeInv, StreamTypeOK, flags, WaitersHaveBudget
<1>10. ASSUME GoOnline PROVE TypeInv'
  <2>1. {acted, finished, errored, parked, resumes, resumable, online}' \subseteq BOOLEAN
    BY <1>10 DEF GoOnline, TypeInv, StreamTypeOK, flags
  <2>2. waiting' \subseteq [id : Attempts, woken : BOOLEAN]
    BY <1>10 DEF GoOnline, TypeInv, StreamTypeOK, flags
  <2>3. ASSUME NEW x \in waiting'
        PROVE  x.id <= retryCount' /\ x.id < MaxRetries /\ (x.id = current' => parked')
    <3>1. PICK w \in waiting : x = [w EXCEPT !.woken = TRUE] BY <1>10 DEF GoOnline
    <3>2. x.id = w.id BY <3>1 DEF TypeInv, StreamTypeOK
    <3> QED BY <1>10, <3>2 DEF GoOnline, flags, TypeInv, WaitersHaveBudget
  <2> QED
    BY <1>10, <2>1, <2>2, <2>3 DEF GoOnline, TypeInv, StreamTypeOK, flags, WaitersHaveBudget
<1>11. ASSUME NEW w \in waiting, RetryFires(w) PROVE TypeInv'
  <2>1. w.id \in Attempts BY DEF TypeInv, StreamTypeOK
  <2>2. CASE Live(w.id)
    <3>1. retryCount < MaxRetries
      BY <1>0, <1>live, <2>1, <2>2 DEF TypeInv, WaitersHaveBudget, Live
    <3> QED BY <1>0, <1>11, <2>2, <3>1, RetryType DEF RetryFires
  <2>3. CASE ~Live(w.id)
    BY <1>11, <2>3 DEF RetryFires, TypeInv, StreamTypeOK, WaitersHaveBudget, flags
  <2> QED BY <2>2, <2>3
<1>12. ASSUME Cancel PROVE TypeInv'
  <2>1. seen' \in {"Open", "Waiting", "Completed", "Failed", "Ended", "Cancelled"}
    BY <1>12 DEF Cancel, TypeInv, StreamTypeOK
  <2>2. \A w \in waiting : w.id # NoRequest
    BY MaxRetriesAssumption DEF TypeInv, StreamTypeOK, Attempts
  <2>3. WaitersHaveBudget' BY <1>12, <2>2 DEF Cancel, TypeInv, WaitersHaveBudget
  <2> QED BY <1>12, <2>1, <2>3 DEF Cancel, TypeInv, StreamTypeOK, flags
<1>13. ASSUME UNCHANGED vars PROVE TypeInv'
  BY <1>13 DEF vars, flags, TypeInv, StreamTypeOK, WaitersHaveBudget
<1> QED
  BY <1>1, <1>2, <1>3, <1>4, <1>5, <1>6, <1>7, <1>8, <1>9, <1>10, <1>11, <1>12, <1>13
     DEF Next, Progress

(***************************************************************************)
(* The types are invariant; among them that no more than MAX_RETRIES       *)
(* attempts follow the first, whatever callbacks run late.                 *)
(***************************************************************************)
THEOREM StreamTypeCorrect == Spec => []StreamTypeOK
<1>1. Init => TypeInv BY TypeInit
<1>2. TypeInv /\ [Next]_vars => TypeInv' BY TypeStep
<1>3. TypeInv => StreamTypeOK BY DEF TypeInv
<1> QED BY <1>1, <1>2, <1>3, PTL DEF Spec

-----------------------------------------------------------------------------
(* The life of a stream.                                                   *)

(***************************************************************************)
(* The stages of the current attempt.  They say where it is on its way,    *)
(* what the flags are and what the controller was told.                    *)
(***************************************************************************)
Undecided ==
    /\ ~parked /\ ~finished /\ ~errored /\ ~resumes
    /\ seen = "Open" /\ outcomes = 0 /\ cancellable
    /\ transport[current] \in {"Refreshing", "Sending", "Streaming"}

Parked ==
    /\ parked /\ ~finished /\ ~errored /\ ~resumes /\ ~acted
    /\ seen = "Waiting" /\ outcomes = 0 /\ cancellable
    /\ transport[current] \in {"Ending", "Over"}
    /\ \E w \in waiting : w.id = current

Decided ==
    /\ ~parked /\ (finished \/ errored)
    /\ seen \in {"Completed", "Failed"} /\ outcomes = 1 /\ cancellable
    /\ transport[current] = "Ending"

Closed ==
    /\ ~parked
    /\ seen = "Ended" /\ outcomes = 1
    /\ transport[current] = "Over"

\* A cancelled stream has no current attempt.
Gone == current = NoRequest /\ seen = "Cancelled" /\ outcomes <= 1

Stage == current = retryCount /\ (Undecided \/ Parked \/ Decided \/ Closed)

\* Only the latest attempt has acted, and the current one knows if it has.
ActedLast ==
    /\ applied \subseteq {retryCount}
    /\ current # NoRequest /\ ~acted => applied = {}

StreamInv == TypeInv /\ ActedLast /\ (Gone \/ Stage)

\* A step of the promised stream, or none.
ContractStep == [Contract!Next]_(Contract!vars)

\* The initial state is in the invariant.
LEMMA StreamInit ==
    ASSUME Init PROVE StreamInv
<1>1. current \in Attempts /\ transport[current] \in {"Refreshing", "Sending"}
  BY MaxRetriesAssumption DEF Init, Attempts
<1> QED BY <1>1, TypeInit DEF Init, StreamInv, ActedLast, Stage, Undecided

\* The current attempt is the latest, and no number of it is NoRequest.
LEMMA LiveIsLatest ==
    ASSUME StreamInv, NEW r \in Attempts, Live(r)
    PROVE  current = r /\ retryCount = r /\ current # NoRequest /\ Stage
BY MaxRetriesAssumption DEF StreamInv, TypeInv, StreamTypeOK, Live, Gone, Stage, Attempts, NoRequest

\* What is not current may move without any effect.
LEMMA StaleMoves ==
    ASSUME StreamInv, TypeInv', NEW r \in Attempts, ~Live(r), NEW state,
           transport' = Moved(r, state),
           UNCHANGED <<retryCount, current, cancellable, flags, resumes, resumable,
                       waiting, seen, outcomes, applied>>
    PROVE  StreamInv' /\ ContractStep
<1>1. current # NoRequest => current \in Attempts /\ transport'[current] = transport[current]
  BY DEF StreamInv, TypeInv, StreamTypeOK, Live, Moved
<1>2. Stage /\ current # NoRequest => Stage'
  BY <1>1 DEF Stage, Undecided, Parked, Decided, Closed, flags
<1>3. Stage => current # NoRequest
  BY MaxRetriesAssumption DEF Stage, StreamInv, TypeInv, StreamTypeOK, Attempts, NoRequest
<1>4. Gone => Gone' BY DEF Gone
<1>5. ActedLast' BY DEF StreamInv, ActedLast, flags
<1>6. ContractStep BY DEF ContractStep, Contract!vars
<1> QED BY <1>2, <1>3, <1>4, <1>5, <1>6 DEF StreamInv

\* The next attempt starts undecided.
LEMMA RetryStarts ==
    ASSUME StreamInv, TypeInv', current # NoRequest, Stage, retryCount < MaxRetries, ~acted,
           outcomes = 0, ~resumes, NEW next \in [Attempts -> Transports], Retry(next, "Open")
    PROVE  StreamInv'
<1>1. retryCount + 1 \in Attempts
  BY MaxRetriesAssumption DEF StreamInv, TypeInv, StreamTypeOK, Attempts
<1>2. transport'[current'] \in {"Refreshing", "Sending"}
  BY <1>1 DEF Retry
<1>3. Undecided' BY <1>2 DEF Undecided, Retry, FlagsReset
<1>4. Stage' BY <1>3 DEF Stage, Retry
<1>5. ActedLast' BY DEF ActedLast, StreamInv, Retry
<1> QED BY <1>4, <1>5 DEF StreamInv

\* A retry that is put off is parked.
LEMMA DeferParks ==
    ASSUME StreamInv, TypeInv', current # NoRequest, Stage, Undecided, ~acted,
           NEW state \in {"Ending", "Over"}, Defer(Moved(current, state)),
           UNCHANGED resumable
    PROVE  StreamInv' /\ ContractStep
<1>1. current \in Attempts /\ transport \in [Attempts -> Transports]
  BY DEF StreamInv, TypeInv, StreamTypeOK
<1>2. transport'[current'] \in {"Ending", "Over"} BY <1>1 DEF Defer, Moved
<1>3. [id |-> current, woken |-> online] \in waiting' /\ current' = current BY DEF Defer
<1>4. Parked' BY <1>2, <1>3 DEF Parked, Undecided, Defer
<1>5. Stage' BY <1>4 DEF Stage, Defer
<1>6. ActedLast' BY DEF ActedLast, StreamInv, Defer
<1>7. ContractStep
  BY DEF ContractStep, Contract!Next, Contract!Waits, Contract!Moves, Defer, Undecided
<1> QED BY <1>5, <1>6, <1>7 DEF StreamInv

\* An error that is surfaced decides the stream or, at its end, closes it.
LEMMA SurfaceSettles ==
    ASSUME StreamInv, TypeInv', current # NoRequest, Stage, Undecided,
           NEW resume \in BOOLEAN, resume => resumable, NEW atEnd \in BOOLEAN,
           Surface(Moved(current, IF atEnd THEN "Over" ELSE "Ending"), resume, atEnd),
           UNCHANGED resumable
    PROVE  StreamInv' /\ ContractStep
<1>1. current \in Attempts /\ transport \in [Attempts -> Transports] /\ resumable \in BOOLEAN
  BY DEF StreamInv, TypeInv, StreamTypeOK
<1>2. transport'[current'] = IF atEnd THEN "Over" ELSE "Ending" BY <1>1 DEF Surface, Moved
<1>3. ~parked' /\ errored' /\ outcomes' = 1 BY DEF Undecided, Surface
<1>4. Stage'
  <2>1. CASE atEnd
    <3>1. seen' = "Ended" BY <2>1 DEF Surface
    <3> QED BY <1>2, <1>3, <2>1, <3>1 DEF Stage, Closed, Surface
  <2>2. CASE ~atEnd
    <3>1. seen' = "Failed" /\ cancellable' BY <2>2 DEF Surface, Undecided
    <3> QED BY <1>2, <1>3, <2>2, <3>1 DEF Stage, Decided, Surface
  <2> QED BY <2>1, <2>2
<1>5. ActedLast' BY DEF ActedLast, StreamInv, Surface
<1>6. resumes' \in {FALSE, resumable} BY <1>1 DEF Surface, Undecided
<1>7. Contract!Fails("Ended") \/ Contract!Fails("Failed")
  BY <1>6 DEF Contract!Fails, Surface, Undecided
<1>8. ContractStep BY <1>7 DEF ContractStep, Contract!Next
<1> QED BY <1>4, <1>5, <1>8 DEF StreamInv

\* However the current attempt is recovered from, the stream stays in order.
LEMMA RecoverSettles ==
    ASSUME StreamInv, TypeInv', current # NoRequest, Stage, Undecided,
           NEW recoverable \in BOOLEAN, NEW atEnd \in BOOLEAN,
           Recover(Moved(current, IF atEnd THEN "Over" ELSE "Ending"), recoverable, atEnd),
           UNCHANGED resumable
    PROVE  StreamInv' /\ ContractStep
<1> DEFINE next == Moved(current, IF atEnd THEN "Over" ELSE "Ending")
<1>0. next \in [Attempts -> Transports]
  BY MovedType DEF StreamInv, TypeInv, StreamTypeOK, Transports, Stage
<1>1. CASE Recovery(recoverable) = "RetryNow"
  <2>1. retryCount < MaxRetries /\ ~acted BY <1>1 DEF Recovery
  <2>2. Retry(next, seen) BY <1>1 DEF Recover
  <2>3. seen = "Open" /\ outcomes = 0 /\ ~resumes BY DEF Undecided
  <2>4. StreamInv' BY <1>0, <2>1, <2>2, <2>3, RetryStarts
  <2>5. ContractStep BY <2>2 DEF ContractStep, Contract!vars, Retry
  <2> QED BY <2>4, <2>5
<1>2. CASE Recovery(recoverable) = "RetryWhenOnline"
  <2>1. ~acted BY <1>2 DEF Recovery
  <2>2. Defer(next) BY <1>2 DEF Recover
  <2> QED BY <2>1, <2>2, DeferParks
<1>3. CASE Recovery(recoverable) \in {"Resume", "Fail"}
  <2> DEFINE resume == Recovery(recoverable) = "Resume"
  <2>1. Surface(next, resume, atEnd) BY <1>3 DEF Recover
  <2>2. resume \in BOOLEAN OBVIOUS
  <2>3. resume => resumable BY DEF Recovery
  <2> HIDE DEF resume
  <2> QED BY <2>1, <2>2, <2>3, SurfaceSettles
<1> QED BY <1>1, <1>2, <1>3 DEF Recovery

(***************************************************************************)
(* Every step keeps the invariant and is one of the promised stream or     *)
(* none, if the transport sends nothing after an answer or an error.       *)
(***************************************************************************)
LEMMA StreamStep ==
    ASSUME WellFormed, StreamInv, [Next]_vars
    PROVE  StreamInv' /\ ContractStep
<1>0. TypeInv' BY TypeStep DEF StreamInv
<1>types. /\ transport \in [Attempts -> Transports] /\ retryCount \in Attempts
          /\ {resumes, resumable} \subseteq BOOLEAN
  BY DEF StreamInv, TypeInv, StreamTypeOK
<1>1. ASSUME NEW r \in Attempts, Refreshed(r) PROVE StreamInv' /\ ContractStep
  <2>1. CASE ~Live(r) BY <1>0, <1>1, <2>1, StaleMoves DEF Refreshed, Dropped
  <2>2. CASE Live(r)
    <3>1. current = r /\ Stage /\ Undecided
      BY <1>1, <2>2, LiveIsLatest DEF Refreshed, Stage, Undecided, Parked, Decided, Closed
    <3>2. transport'[r] = "Sending" BY <1>1, <1>types, <2>2 DEF Refreshed, Dropped, Moved
    <3>3. Undecided' BY <1>1, <3>1, <3>2 DEF Refreshed, Dropped, Undecided, flags
    <3>4. Stage' BY <1>1, <3>1, <3>3 DEF Stage, Refreshed, Dropped
    <3>5. ActedLast' BY <1>1 DEF StreamInv, ActedLast, Refreshed, Dropped, flags
    <3>6. ContractStep BY <1>1 DEF Refreshed, Dropped, ContractStep, Contract!vars
    <3> QED BY <1>0, <3>4, <3>5, <3>6 DEF StreamInv
  <2> QED BY <2>1, <2>2
<1>2. ASSUME NEW r \in Attempts, RefreshFails(r) PROVE StreamInv' /\ ContractStep
  <2>1. CASE ~Live(r) BY <1>0, <1>2, <2>1, StaleMoves DEF RefreshFails, Dropped
  <2>2. CASE Live(r)
    <3>1. current = r /\ current # NoRequest /\ Stage /\ Undecided
      BY <1>2, <2>2, LiveIsLatest DEF RefreshFails, Stage, Undecided, Parked, Decided, Closed
    <3>2. Surface(Moved(current, IF TRUE THEN "Over" ELSE "Ending"), FALSE, TRUE)
      BY <1>2, <2>2, <3>1 DEF RefreshFails
    <3> QED BY <1>0, <1>2, <3>1, <3>2, SurfaceSettles DEF RefreshFails
  <2> QED BY <2>1, <2>2
<1>3. ASSUME NEW r \in Attempts, StreamOpens(r) PROVE StreamInv' /\ ContractStep
  <2>1. CASE ~Live(r) BY <1>0, <1>3, <2>1, StaleMoves DEF StreamOpens, Dropped
  <2>2. CASE Live(r)
    <3>1. current = r /\ Stage /\ Undecided
      BY <1>3, <2>2, LiveIsLatest DEF StreamOpens, Stage, Undecided, Parked, Decided, Closed
    <3>2. transport'[r] = "Streaming" BY <1>3, <1>types DEF StreamOpens, Dropped, Moved
    <3>3. Undecided' BY <1>3, <3>1, <3>2 DEF StreamOpens, Dropped, Undecided, flags
    <3>4. Stage' BY <1>3, <3>1, <3>3 DEF Stage, StreamOpens, Dropped
    <3>5. ActedLast' BY <1>3 DEF StreamInv, ActedLast, StreamOpens, Dropped, flags
    <3>6. ContractStep BY <1>3 DEF StreamOpens, Dropped, ContractStep, Contract!vars
    <3> QED BY <1>0, <3>4, <3>5, <3>6 DEF StreamInv
  <2> QED BY <2>1, <2>2
<1>4. ASSUME NEW r \in Attempts, ConversionFails(r) PROVE StreamInv' /\ ContractStep
  <2>1. CASE ~Live(r) BY <1>0, <1>4, <2>1, StaleMoves DEF ConversionFails, Dropped
  <2>2. CASE Live(r)
    <3>1. current = r /\ current # NoRequest /\ Stage /\ Undecided
      BY <1>4, <2>2, LiveIsLatest DEF ConversionFails, Stage, Undecided, Parked, Decided, Closed
    <3>2. Surface(Moved(current, IF TRUE THEN "Over" ELSE "Ending"), FALSE, TRUE)
      BY <1>4, <2>2, <3>1 DEF ConversionFails
    <3> QED BY <1>0, <1>4, <3>1, <3>2, SurfaceSettles DEF ConversionFails
  <2> QED BY <2>1, <2>2
<1>5. ASSUME NEW r \in Attempts, StreamCloses(r) PROVE StreamInv' /\ ContractStep
  <2>1. CASE ~Live(r) BY <1>0, <1>5, <2>1, StaleMoves DEF StreamCloses, Dropped
  <2>2. CASE Live(r) /\ parked
    <3>1. current = r /\ Stage /\ Parked
      BY <1>5, <2>2, LiveIsLatest DEF StreamCloses, Stage, Undecided, Parked, Decided, Closed
    <3>2. transport'[r] = "Over" BY <1>5, <1>types, <2>2 DEF StreamCloses, Dropped, Moved
    <3>3. Parked' BY <1>5, <2>2, <3>1, <3>2 DEF StreamCloses, Dropped, Parked, flags
    <3>4. Stage' BY <1>5, <2>2, <3>1, <3>3 DEF Stage, StreamCloses, Dropped
    <3>5. ActedLast' BY <1>5, <2>2 DEF StreamInv, ActedLast, StreamCloses, Dropped, flags
    <3>6. ContractStep
      BY <1>5, <2>2 DEF StreamCloses, Dropped, ContractStep, Contract!vars
    <3> QED BY <1>0, <3>4, <3>5, <3>6 DEF StreamInv
  <2>3. CASE Live(r) /\ ~parked /\ Truncated
    <3>1. current = r /\ current # NoRequest /\ Stage /\ Undecided
      BY <1>5, <2>3, LiveIsLatest
         DEF StreamCloses, Truncated, Stage, Undecided, Parked, Decided, Closed
    <3>2. Recover(Moved(current, IF TRUE THEN "Over" ELSE "Ending"), TRUE, TRUE)
      BY <1>5, <2>3, <3>1 DEF StreamCloses
    <3> QED BY <1>0, <1>5, <3>1, <3>2, RecoverSettles DEF StreamCloses
  <2>4. CASE Live(r) /\ ~parked /\ ~Truncated
    <3>1. current = r /\ Stage /\ Decided
      BY <1>5, <2>4, LiveIsLatest
         DEF StreamCloses, Truncated, Stage, Undecided, Parked, Decided, Closed
    <3>2. transport'[r] = "Over" /\ seen' = "Ended"
      BY <1>5, <1>types, <2>4 DEF StreamCloses, Moved
    <3>3. Closed' BY <1>5, <2>4, <3>1, <3>2 DEF StreamCloses, Decided, Closed, flags
    <3>4. Stage' BY <1>5, <2>4, <3>1, <3>3 DEF Stage, StreamCloses
    <3>5. ActedLast' BY <1>5, <2>4 DEF StreamInv, ActedLast, StreamCloses, flags
    <3>6. Contract!Ends BY <1>5, <2>4, <3>1, <3>2 DEF StreamCloses, Decided, Contract!Ends, Contract!Moves
    <3>7. ContractStep BY <3>6 DEF ContractStep, Contract!Next
    <3> QED BY <1>0, <3>4, <3>5, <3>7 DEF StreamInv
  <2> QED BY <2>1, <2>2, <2>3, <2>4
<1>6. ASSUME NEW r \in Attempts, ActionsArrive(r) PROVE StreamInv' /\ ContractStep
  <2>1. ContractStep BY <1>6 DEF ActionsArrive, ContractStep, Contract!vars
  <2>2. CASE ~Live(r)
    BY <1>0, <1>6, <2>1, <2>2
       DEF ActionsArrive, StreamInv, ActedLast, Gone, Stage, Undecided, Parked, Decided, Closed
  <2>3. CASE Live(r)
    <3>1. current = r /\ retryCount = r /\ Stage /\ Undecided
      BY <1>6, <2>3, LiveIsLatest DEF ActionsArrive, Stage, Undecided, Parked, Decided, Closed
    <3>2. Stage' BY <1>6, <3>1 DEF ActionsArrive, Undecided, Stage
    <3>3. ActedLast' BY <1>6, <2>3, <3>1 DEF ActionsArrive, StreamInv, ActedLast
    <3> QED BY <1>0, <2>1, <3>2, <3>3 DEF StreamInv
  <2> QED BY <2>2, <2>3
<1>7. ASSUME NEW r \in Attempts, FinishArrives(r) PROVE StreamInv' /\ ContractStep
  <2>0. AfterLast = "Ending" BY DEF AfterLast
  <2>1. CASE ~Live(r) BY <1>0, <1>7, <2>1, StaleMoves DEF FinishArrives, flags
  <2>2. CASE Live(r)
    <3>1. current = r /\ Stage /\ Undecided
      BY <1>7, <2>2, LiveIsLatest DEF FinishArrives, Stage, Undecided, Parked, Decided, Closed
    <3>2. transport'[r] = "Ending" BY <1>7, <1>types, <2>0 DEF FinishArrives, Moved
    <3>3. Decided' BY <1>7, <2>2, <3>1, <3>2 DEF FinishArrives, Undecided, Decided
    <3>4. Stage' BY <1>7, <3>1, <3>3 DEF Stage, FinishArrives
    <3>5. ActedLast' BY <1>7 DEF StreamInv, ActedLast, FinishArrives
    <3>6. Contract!Completes \/ Contract!Fails("Failed")
      <4>1. seen = "Open" /\ seen' \in {"Completed", "Failed"}
            /\ resumes = FALSE /\ UNCHANGED <<resumes, resumable>>
        BY <1>7, <1>types, <2>2, <3>1 DEF FinishArrives, Undecided
      <4> QED BY <4>1 DEF Contract!Completes, Contract!Moves, Contract!Fails
    <3>7. ContractStep BY <3>6 DEF ContractStep, Contract!Next
    <3> QED BY <1>0, <3>4, <3>5, <3>7 DEF StreamInv
  <2> QED BY <2>1, <2>2
<1>8. ASSUME NEW r \in Attempts, ErrorArrives(r) PROVE StreamInv' /\ ContractStep
  <2>0. AfterLast = "Ending" BY DEF AfterLast
  <2>1. CASE ~Live(r) BY <1>0, <1>8, <2>1, StaleMoves DEF ErrorArrives, Dropped
  <2>2. CASE Live(r)
    <3>1. current = r /\ current # NoRequest /\ Stage /\ Undecided
      BY <1>8, <2>2, LiveIsLatest DEF ErrorArrives, Stage, Undecided, Parked, Decided, Closed
    <3>2. PICK recoverable \in BOOLEAN :
            Recover(Moved(current, IF FALSE THEN "Over" ELSE "Ending"), recoverable, FALSE)
      BY <1>8, <2>0, <2>2, <3>1 DEF ErrorArrives
    <3> QED BY <1>0, <1>8, <3>1, <3>2, RecoverSettles DEF ErrorArrives
  <2> QED BY <2>1, <2>2
<1>9. ASSUME GoOffline PROVE StreamInv' /\ ContractStep
  BY <1>0, <1>9
     DEF GoOffline, StreamInv, ActedLast, Gone, Stage, Undecided, Parked, Decided, Closed,
         flags, ContractStep, Contract!vars
<1>10. ASSUME GoOnline PROVE StreamInv' /\ ContractStep
  <2>1. (\E w \in waiting : w.id = current) => \E w \in waiting' : w.id = current'
    <3> SUFFICES ASSUME NEW w \in waiting, w.id = current
                 PROVE  \E x \in waiting' : x.id = current'
      OBVIOUS
    <3>1. [w EXCEPT !.woken = TRUE] \in waiting' /\ current' = current BY <1>10 DEF GoOnline
    <3>2. [w EXCEPT !.woken = TRUE].id = w.id
      BY DEF StreamInv, TypeInv, StreamTypeOK
    <3> QED BY <3>1, <3>2
  <2> QED
    BY <1>0, <1>10, <2>1
       DEF GoOnline, StreamInv, ActedLast, Gone, Stage, Undecided, Parked, Decided, Closed,
           flags, ContractStep, Contract!vars
<1>11. ASSUME NEW w \in waiting, RetryFires(w) PROVE StreamInv' /\ ContractStep
  <2>1. w.id \in Attempts /\ w.id < MaxRetries
    BY DEF StreamInv, TypeInv, StreamTypeOK, WaitersHaveBudget
  <2>2. CASE ~Live(w.id)
    <3>1. Parked => \E x \in waiting' : x.id = current'
      BY <1>11, <2>2 DEF RetryFires, Parked, Live
    <3> QED
      BY <1>0, <1>11, <2>2, <3>1
         DEF RetryFires, StreamInv, ActedLast, Gone, Stage, Undecided, Parked, Decided,
             Closed, flags, ContractStep, Contract!vars
  <2>3. CASE Live(w.id)
    <3>1. current = w.id /\ retryCount = w.id /\ current # NoRequest /\ Stage
      BY <2>1, <2>3, LiveIsLatest
    <3>2. Retry(transport, "Open") /\ UNCHANGED resumable BY <1>11, <2>3 DEF RetryFires
    <3>3. Parked
      BY <3>1 DEF StreamInv, TypeInv, WaitersHaveBudget, Stage, Undecided, Decided, Closed
    <3>4. retryCount < MaxRetries /\ ~acted /\ outcomes = 0 /\ ~resumes /\ seen = "Waiting"
      BY <2>1, <3>1, <3>3 DEF Parked
    <3>5. StreamInv' BY <1>0, <1>types, <3>1, <3>2, <3>4, RetryStarts
    <3>6. Contract!Returns BY <3>2, <3>4 DEF Retry, Contract!Returns, Contract!Moves
    <3> QED BY <3>5, <3>6 DEF ContractStep, Contract!Next
  <2> QED BY <2>2, <2>3
<1>12. ASSUME Cancel PROVE StreamInv' /\ ContractStep
  <2>1. seen \notin {"Ended", "Cancelled"} BY <1>12 DEF Cancel
  <2>2. Stage /\ cancellable /\ outcomes <= 1 /\ seen \in Contract!Phases \ Contract!Settled
    BY <2>1 DEF StreamInv, Gone, Stage, Undecided, Parked, Decided, Closed,
       Contract!Phases, Contract!Settled
  <2>3. Gone' BY <1>12, <2>2 DEF Cancel, Gone
  <2>4. ActedLast' BY <1>12 DEF Cancel, StreamInv, ActedLast, flags
  <2>5. Contract!Cancels BY <1>12, <2>2 DEF Cancel, Contract!Cancels, Contract!Moves
  <2> QED BY <1>0, <2>3, <2>4, <2>5 DEF StreamInv, ContractStep, Contract!Next
<1>13. ASSUME UNCHANGED vars PROVE StreamInv' /\ ContractStep
  BY <1>0, <1>13
     DEF vars, flags, StreamInv, ActedLast, Gone, Stage, Undecided, Parked, Decided,
         Closed, ContractStep, Contract!vars
<1> QED
  BY <1>1, <1>2, <1>3, <1>4, <1>5, <1>6, <1>7, <1>8, <1>9, <1>10, <1>11, <1>12, <1>13
     DEF Next, Progress

-----------------------------------------------------------------------------
(* What follows from the invariant.                                        *)

\* The invariant implies what is promised of a state.
LEMMA StreamInvImplies ==
    ASSUME StreamInv
    PROVE  ActionsOfOneAttempt /\ EndIsSettled /\ WaitingIsParked
<1>1. ActionsOfOneAttempt
  <2>1. applied = {} \/ applied = {retryCount} BY DEF StreamInv, ActedLast
  <2>2. Cardinality({}) = 0 BY FS_EmptySet
  <2>3. Cardinality({retryCount}) = 1 BY FS_Singleton
  <2> QED BY <2>1, <2>2, <2>3 DEF ActionsOfOneAttempt
<1>2. EndIsSettled
  BY DEF StreamInv, EndIsSettled, Gone, Stage, Undecided, Parked, Decided, Closed
<1>3. WaitingIsParked
  BY DEF StreamInv, WaitingIsParked, Live, Gone, Stage, Undecided, Parked, Decided, Closed
<1> QED BY <1>1, <1>2, <1>3

(***************************************************************************)
(* The actions of at most one attempt are applied: a request that acted is *)
(* not sent again, however often the network fails and callbacks run late. *)
(***************************************************************************)
THEOREM ActsOnce ==
    ASSUME WellFormed PROVE Spec => []ActionsOfOneAttempt
<1>1. Init => StreamInv BY StreamInit
<1>2. StreamInv /\ [Next]_vars => StreamInv' BY StreamStep
<1>3. StreamInv => ActionsOfOneAttempt BY StreamInvImplies
<1> QED BY <1>1, <1>2, <1>3, PTL DEF Spec

(***************************************************************************)
(* The controller is given at most one answer or error, and exactly one if *)
(* the stream ends by itself.                                              *)
(***************************************************************************)
THEOREM EndsSettled ==
    ASSUME WellFormed PROVE Spec => []EndIsSettled
<1>1. Init => StreamInv BY StreamInit
<1>2. StreamInv /\ [Next]_vars => StreamInv' BY StreamStep
<1>3. StreamInv => EndIsSettled BY StreamInvImplies
<1> QED BY <1>1, <1>2, <1>3, PTL DEF Spec

(***************************************************************************)
(* The conversation waits for the network only while a retry is parked     *)
(* whose callback is still to run.                                         *)
(***************************************************************************)
THEOREM WaitsForRetry ==
    ASSUME WellFormed PROVE Spec => []WaitingIsParked
<1>1. Init => StreamInv BY StreamInit
<1>2. StreamInv /\ [Next]_vars => StreamInv' BY StreamStep
<1>3. StreamInv => WaitingIsParked BY StreamInvImplies
<1> QED BY <1>1, <1>2, <1>3, PTL DEF Spec

(***************************************************************************)
(* What the controller sees of a request is a promised stream: every step  *)
(* of its attempts is a step of StreamContract or invisible to it.         *)
(***************************************************************************)
THEOREM StreamImplementsContract ==
    ASSUME WellFormed PROVE Spec => ImplementsContract
<1>1. Init => StreamInv BY StreamInit
<1>2. StreamInv /\ [Next]_vars => StreamInv' /\ ContractStep BY StreamStep
<1>3. Init => Contract!Init BY DEF Init, Contract!Init
<1> QED
  BY <1>1, <1>2, <1>3, PTL DEF Spec, ImplementsContract, Contract!Spec, ContractStep
=============================================================================
