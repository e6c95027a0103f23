--------------------------- MODULE PreprocessQueue ---------------------------
(***************************************************************************)
(* The queue of action batches under preprocessing of one conversation:    *)
(* PendingPreprocessedActions in                                           *)
(* app/src/ai/blocklist/action_model/preprocess.rs, driven as              *)
(* BlocklistAIActionModel::queue_actions drives it: one insertion per      *)
(* agent output, one future per batch, each future completing once.        *)
(***************************************************************************)
EXTENDS OrderedSeqs, SequencesExt

CONSTANTS ActionIds,  \* identifiers of actions
          Outputs     \* the batches an agent output may contain

ASSUME OutputsAssumption == Outputs \subseteq {o \in Seq(ActionIds) : o # <<>> /\ Injective(o)}

VARIABLES batches,  \* the VecDeque<PreprocessActionBatch>
          queued    \* history: what handle_preprocess_actions_result returned

vars == <<batches, queued>>

Pending == "Pending"
Done    == "Done"

Batch == [id : ActionIds, status : {Pending, Done}, actions : Outputs]

ActionIdsOf(batch) == Elems(batch.actions)

Received == Elems(queued) \cup UNION {ActionIdsOf(batches[i]) : i \in DOMAIN batches}

Init == batches = <<>> /\ queued = <<>>

(***************************************************************************)
(* insert_preprocess_action_batch.  The fresh PreprocessId is the first    *)
(* action's identifier.                                                    *)
(***************************************************************************)
InsertBatch(output) ==
    /\ Elems(output) \cap Received = {}
    /\ batches' = Append(batches, [id |-> output[1], status |-> Pending, actions |-> output])
    /\ UNCHANGED queued

\* Mutant: only the batch just before is looked at.
HasPendingJustBefore(i) == i > 1 /\ batches[i - 1].status = Pending

HasPendingBefore(i) == \E j \in 1..(i - 1) : batches[j].status = Pending

\* Mutant: the loop over the completed batches behind the current one is missing.
LastReadyCurrentOnly(i) == i

\* The last batch of the run of completed batches that follows batch i.
LastReady(i) ==
    CHOOSE k \in i..Len(batches) :
        /\ \A j \in (i + 1)..k : batches[j].status = Done
        /\ k < Len(batches) => batches[k + 1].status = Pending

(***************************************************************************)
(* handle_preprocess_actions_result for the batch at position i: either it *)
(* waits behind an earlier pending batch, or it comes out together with    *)
(* the completed batches around it.                                        *)
(***************************************************************************)
MarkDone(i) ==
    /\ HasPendingBefore(i)
    /\ batches' = [batches EXCEPT ![i].status = Done]
    /\ UNCHANGED queued

Release(i) ==
    LET k == LastReady(i) IN
    /\ ~HasPendingBefore(i)
    /\ queued' = queued \o FlattenSeq([j \in 1..k |-> batches[j].actions])
    /\ batches' = DropFirst(batches, k)

HandlePreprocessActionsResult(i) ==
    /\ batches[i].status = Pending
    /\ MarkDone(i) \/ Release(i)

\* The completion of the future that preprocesses the batch named b.
FutureCompletes(b) ==
    \E i \in DOMAIN batches : batches[i].id = b /\ HandlePreprocessActionsResult(i)

Next == \/ \E output \in Outputs : InsertBatch(output)
        \/ \E i \in DOMAIN batches : HandlePreprocessActionsResult(i)

\* join_all of a batch's preprocessing futures resolves eventually.
Spec == Init /\ [][Next]_vars /\ \A b \in ActionIds : WF_vars(FutureCompletes(b))

-----------------------------------------------------------------------------
(***************************************************************************)
(* Every action an agent output contained is eventually handed to the      *)
(* action model, however the preprocessing of the batches overlaps.        *)
(***************************************************************************)
EveryActionReleased ==
    \A a \in ActionIds : (a \in Received) ~> (a \in Elems(queued))

\* The held batches as the flat list of actions of the promise.
FlatEntries ==
    FlattenSeq([i \in DOMAIN batches |->
        [j \in DOMAIN batches[i].actions |->
            [id    |-> batches[i].actions[j],
             batch |-> batches[i].id,
             done  |-> batches[i].status = Done]]])

Promise == INSTANCE InOrderRelease WITH entries <- FlatEntries

(***************************************************************************)
(* The queue implements its promise: actions come out in insertion order,  *)
(* each as soon as nothing before it is outstanding (preprocess.rs:31-32).  *)
(***************************************************************************)
ReleasesInOrder == Promise!Spec
=============================================================================
