--------------------------- MODULE InOrderRelease ---------------------------
(***************************************************************************)
(* What PendingPreprocessedActions promises its caller                     *)
(* (action_model/preprocess.rs): batches of actions are preprocessed        *)
(* concurrently and complete in any order, yet the actions come out in the *)
(* order in which they were inserted, each as soon as its own batch and    *)
(* every batch inserted before it have completed.                          *)
(***************************************************************************)
EXTENDS OrderedSeqs

CONSTANTS ActionIds,  \* identifiers of actions
          Outputs     \* the batches an agent output may contain

VARIABLES entries,  \* actions not yet released: [id, batch, done]
          queued    \* every action released so far, in order of release

vars == <<entries, queued>>

\* A batch is named by its first action: identifiers are never reused.
Tagged(batch) ==
    [i \in DOMAIN batch |-> [id |-> batch[i], batch |-> batch[1], done |-> FALSE]]

\* The entries once preprocessing of the batch b has completed.
Completed(es, b) ==
    [i \in DOMAIN es |-> [es[i] EXCEPT !.done = @ \/ es[i].batch = b]]

\* How many entries can be released: the longest prefix of completed ones.
ReleasableLen(es) == PrefixLen({i \in DOMAIN es : es[i].done}, Len(es))

ReleasedIds(es) == [i \in 1..ReleasableLen(es) |-> es[i].id]

PendingBatches(es) == {es[i].batch : i \in {j \in DOMAIN es : ~es[j].done}}

Init == entries = <<>> /\ queued = <<>>

Insert(batch) ==
    /\ Elems(batch) \cap (Elems(queued) \cup {entries[i].id : i \in DOMAIN entries}) = {}
    /\ entries' = entries \o Tagged(batch)
    /\ UNCHANGED queued

Complete(b) ==
    LET es == Completed(entries, b) IN
    /\ b \in PendingBatches(entries)
    /\ queued' = queued \o ReleasedIds(es)
    /\ entries' = DropFirst(es, ReleasableLen(es))

Next == \/ \E batch \in Outputs : Insert(batch)
        \/ \E b \in ActionIds : Complete(b)

\* Preprocessing futures complete, whatever else happens.
Spec == Init /\ [][Next]_vars /\ \A b \in ActionIds : WF_vars(Complete(b))
=============================================================================
