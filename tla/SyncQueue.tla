------------------------------ MODULE SyncQueue ------------------------------
(***************************************************************************)
(* Objects of the user (notebooks, workflows, settings...) are edited      *)
(* locally and sent to the server by SyncQueue in                          *)
(* app/src/server/sync_queue.rs.  Its items wait for the items they depend *)
(* on; its events tell UpdateManager (cloud_objects/update_manager.rs),    *)
(* which keeps the state of the objects in CloudModel and in SQLite.       *)
(*                                                                         *)
(* A handler of the main thread is one step; the events it emits are       *)
(* delivered before any other handler runs.  The server is external: it    *)
(* applies a request and answers, or the answer is lost and the request is *)
(* sent again.  Left out: folders, logout, deletion, and reverts.          *)
(***************************************************************************)
EXTENDS OrderedSeqs

CONSTANTS
    Notebooks,      \* kept when the server rejects them, as are AI profiles
    Workflows,      \* overwritten when the server rejects them
    Enums,          \* so are these; workflows refer to them
    Facts,          \* nothing is done when the server rejects them
    Preferences,    \* never rejected; unique by a key, created in bulk
    References,     \* the enums each workflow refers to
    TeamObjects,    \* the objects that are created in a team's drive
    NoObject,       \* in the dependency on a whole item
    MayDangle,      \* workflows are sent although an enum could not be created
    Impatient,      \* actions are reported on objects that are not created yet
    MaxItems,       \* bound: which objects exist together, and the items then enqueued
    MaxEdits,       \* bound: the edits of others
    MaxRetries,     \* DEFAULT_RETRY_OPTION
    MaxRestarts     \* bound: the restarts of the program

Objects == Notebooks \cup Workflows \cup Enums \cup Facts \cup Preferences

ASSUME KindsAssumption ==
    /\ IsFiniteSet(Objects) /\ NoObject \notin Objects
    /\ Notebooks \cap (Workflows \cup Enums \cup Facts \cup Preferences) = {}
    /\ Workflows \cap (Enums \cup Facts \cup Preferences) = {}
    /\ Enums \cap (Facts \cup Preferences) = {} /\ Facts \cap Preferences = {}
ASSUME ReferencesAssumption ==
    \A w \in Workflows : References[w] \subseteq Enums /\ Cardinality(References[w]) <= 1
ASSUME FlagsAssumption == {MayDangle, Impatient} \subseteq BOOLEAN
ASSUME BoundsAssumption == {MaxEdits, MaxRetries, MaxRestarts} \subseteq Nat

VARIABLES
    sync,           \* the SyncQueue
    model,          \* CloudModel: the objects in memory
    saved,          \* the objects in SQLite
    actions,        \* ObjectActions: those pending
    server,         \* the server's objects: [rev, content]
    next,           \* the number of the next item
    edits,          \* the edits of others
    restarts,       \* of the program
    disturbed       \* others edited the object, or an answer was lost

bounds == <<next, edits, restarts>>
vars == <<sync, model, saved, actions, server, bounds, disturbed>>

(***************************************************************************)
(* CloudObjectSyncStatus; a positive number is that of InFlight.           *)
(***************************************************************************)
NoLocalChanges == 0
Errored        == -1
InConflict     == -2

\* has_pending_content_changes
IsPending(status) == status \notin {NoLocalChanges, InConflict}

NoConflict == [rev |-> 0, content |-> 0]

(***************************************************************************)
(* An object of CloudModel.  Its content is the number of the item with    *)
(* the edit, or negative if another user made it.                          *)
(***************************************************************************)
Unborn == [id |-> "None", rev |-> 0, content |-> 0, status |-> NoLocalChanges,
           conflict |-> NoConflict, team |-> FALSE]
Exists(object) == object.id \in {"Client", "Server"}

\* upsert_event: what SQLite keeps of an object.
Upsert(object) ==
    [id |-> object.id, rev |-> object.rev, content |-> object.content,
     pending |-> IsPending(object.status), team |-> object.team]

Init ==
    /\ sync = [queue |-> <<>>, sent |-> {}, mapped |-> {}, running |-> FALSE,
               events |-> <<>>]
    /\ model = [o \in Objects |-> Unborn]
    /\ saved = [o \in Objects |-> Upsert(Unborn)]
    /\ actions = {}
    /\ server = [o \in Objects |-> NoConflict]
    /\ next = 1 /\ edits = 0 /\ restarts = 0
    /\ disturbed = {}

-----------------------------------------------------------------------------
(***************************************************************************)
(* The SyncQueue v.  Its items are                                         *)
(*   [n, op, objs, client, refs, rev, content, deps]                       *)
(* where client says that the object is named by its client id, refs are   *)
(* the enums a workflow names so, and deps is its entry in                 *)
(* queue_dependencies.  v.sent has the requests, which are the items in    *)
(* waiting_response; v.mapped has the keys of client_id_to_server.         *)
(***************************************************************************)
Creations == {"Create", "Bulk"}
IsContent(item) == item.op \in Creations \cup {"Update"}

Event(kind, o, n, object) ==
    [kind |-> kind, o |-> o, n |-> n, rev |-> object.rev, content |-> object.content]
FailureOf(item) == Event("Failed", item.objs[1], item.n, NoConflict)
Emit(v, event) == [v EXCEPT !.events = Append(@, event)]

\* QueueDependency: of a bulk creation, one depends on an object of it.
DependencyOn(item, o) == <<item.n, IF item.op = "Bulk" THEN o ELSE NoObject>>

\* get_items_with_object_id, for client ids, server ids, or both.
ItemsWithId(v, o, clientIds) ==
    LET queued == {i \in Elems(v.queue) :
                      \/ i.op \in Creations /\ TRUE \in clientIds
                      \/ i.op = "Update" /\ i.client \in clientIds}
        inFlight == {r \in v.sent :
                        \/ r.op \in Creations /\ TRUE \in clientIds
                        \/ r.op = "Update" /\ FALSE \in clientIds}
    IN  {DependencyOn(i, o) : i \in {i \in queued \cup inFlight : o \in Elems(i.objs)}}

\* Mutant: an object is looked for under one of its ids only.
UpdateDependenciesOfId(v, item) == ItemsWithId(v, item.objs[1], {item.client})

\* get_update_dependencies
UpdateDependencies(v, item) ==
    ItemsWithId(v, item.objs[1],
                IF item.objs[1] \in v.mapped THEN BOOLEAN ELSE {item.client})

(***************************************************************************)
(* add_inferred_dependencies.  An enum that has no server id and that no   *)
(* item creates fails the item, twice, but the item is queued even so.     *)
(***************************************************************************)
Inferred(v, item) ==
    LET refs    == item.refs \ v.mapped
        missing == {e \in refs : ItemsWithId(v, e, {TRUE}) = {}}
        own     == IF item.op = "Update" THEN UpdateDependencies(v, item) ELSE {}
        enums   == IF missing # {} THEN {}
                   ELSE UNION {ItemsWithId(v, e, {TRUE}) : e \in refs}
    IN  [item |-> [item EXCEPT !.refs = refs,
                               !.deps = (own \cup enums) \ {<<item.n, NoObject>>}],
         events |-> IF missing = {} THEN <<>>
                    ELSE <<FailureOf(item), FailureOf(item)>>]

(***************************************************************************)
(* handle_dependency_failure: what depends on one of ds fails, and what    *)
(* depends on that, and so on.  The events of different items commute.     *)
(***************************************************************************)
DependentsOf(v, ds) ==
    LET items == Elems(v.queue)
        IsClosed(S) == \A i \in items :
            i.deps \cap (ds \cup {<<j.n, NoObject>> : j \in S}) # {} => i \in S
    IN  {i \in items : \A S \in SUBSET items : IsClosed(S) => i \in S}

\* Mutant: what depends on the failed items stays in the queue.
FailKeeping(v, ds, events) == [v EXCEPT !.events = @ \o events]

Fail(v, ds, events) ==
    LET doomed   == DependentsOf(v, ds)
        failures == Filter(v.queue, doomed)
    IN  [v EXCEPT !.queue = Filter(@, Elems(@) \ doomed),
                  !.events = @ \o [k \in DOMAIN failures |-> FailureOf(failures[k])] \o events]

\* Mutant: dependents wait for ever.
ReleaseNothing(v, d) == v

\* handle_dependency_success
Release(v, d) ==
    LET released == [k \in DOMAIN v.queue |-> [v.queue[k] EXCEPT !.deps = @ \ {d}]]
    IN  [v EXCEPT !.queue = released]

\* Mutant: queued updates keep the revision they were made with.
WithOldRevision(v, o, rev) == v

\* update_items_with_new_revision
WithNewRevision(v, o, rev) ==
    LET current(i) == i.op = "Update" /\ i.objs[1] = o /\ (i.client => o \in v.mapped)
    IN  [v EXCEPT !.queue = [k \in DOMAIN @ |->
            IF current(@[k]) THEN [@[k] EXCEPT !.rev = rev] ELSE @[k]]]

\* A request: the item, the server's answer with its objects, and how often it was resent.
Request(item) ==
    [n |-> item.n, op |-> item.op, objs |-> item.objs, client |-> item.client,
     refs |-> item.refs, rev |-> item.rev, content |-> item.content,
     answer |-> "None", found |-> <<>>, resent |-> 0]

\* The object of an update or an action has no server id yet.
IsUnsendable(v, item) == item.op \notin Creations /\ item.client /\ item.objs[1] \notin v.mapped

(***************************************************************************)
(* dequeue sends the first item that waits for nothing.  An update that    *)
(* cannot be sent fails, an action is skipped, and the next item is tried. *)
(***************************************************************************)
Dequeue(v) ==
    LET ready    == {k \in DOMAIN v.queue : v.queue[k].deps = {}}
        sendable == {k \in ready : ~IsUnsendable(v, v.queue[k])}
        sent     == {k \in sendable : \A other \in sendable : k <= other}
        skipped  == {k \in ready \ sendable : \A other \in sendable : k < other}
        failing  == Filter(v.queue, {v.queue[k] : k \in {k \in skipped : v.queue[k].op # "Record"}})
        rest     == Filter(v.queue, {v.queue[k] : k \in DOMAIN v.queue \ (sent \cup skipped)})
        requests == {Request(v.queue[k]) : k \in sent}
    IN  IF ~v.running THEN v
        ELSE Fail([v EXCEPT !.queue = rest, !.sent = @ \cup requests],
                  {<<i.n, NoObject>> : i \in Elems(failing)},
                  [k \in DOMAIN failing |-> FailureOf(failing[k])])

\* enqueue
Enqueue(v, item) ==
    LET inferred == Inferred(v, item)
    IN  Dequeue([v EXCEPT !.queue = Append(@, inferred.item),
                          !.events = @ \o inferred.events])

-----------------------------------------------------------------------------
(***************************************************************************)
(* The server.  An update is accepted if it has the revision of the        *)
(* server's object; preferences are always overwritten.  Enums are denied  *)
(* only if MayDangle.                                                      *)
(***************************************************************************)
Quiet == sync.events = <<>>

\* The answer carries the objects as the server then has them.
Answer(r, answer) ==
    /\ sync' = [sync EXCEPT !.sent = (@ \ {r}) \cup
                   {[r EXCEPT !.answer = answer, !.found = [o \in Elems(r.objs) |-> server'[o]]]}]
    /\ UNCHANGED <<model, saved, actions, bounds>>

Written(o, content) == [rev |-> server[o].rev + 1, content |-> content]

ApplyCreation(r) ==
    /\ r.op \in Creations
    /\ server' = [o \in Objects |-> IF o \in Elems(r.objs) THEN Written(o, r.content) ELSE server[o]]
    /\ Answer(r, "Created")

DenyCreation(r) ==
    /\ r.op = "Create" /\ r.objs[1] \notin Preferences
    /\ MayDangle \/ r.objs[1] \notin Enums
    /\ UNCHANGED server /\ Answer(r, "Denied")

FindKeyConflict(r) ==
    /\ r.op \in Creations /\ Elems(r.objs) \subseteq Preferences
    /\ UNCHANGED server /\ Answer(r, "KeyConflict")

ApplyUpdate(r) ==
    LET o == r.objs[1]
        isCurrent == o \in Preferences \/ r.rev = server[o].rev
    IN  /\ r.op = "Update"
        /\ IF isCurrent
           THEN /\ server' = [server EXCEPT ![o] = Written(o, r.content)]
                /\ Answer(r, "Accepted")
           ELSE UNCHANGED server /\ Answer(r, "Rejected")

ApplyRecord(r) == r.op = "Record" /\ UNCHANGED server /\ Answer(r, "Recorded")

Serve(r) ==
    /\ Quiet /\ r.answer = "None"
    /\ ApplyCreation(r) \/ DenyCreation(r) \/ FindKeyConflict(r) \/ ApplyUpdate(r) \/ ApplyRecord(r)
    /\ UNCHANGED disturbed

\* The answer is lost and the request sent again: spawn_with_retry_on_error.
LoseAnswer(r) ==
    /\ Quiet /\ r.answer # "None" /\ r.resent < MaxRetries
    /\ sync' = [sync EXCEPT !.sent = (@ \ {r}) \cup
                   {[r EXCEPT !.answer = "None", !.found = <<>>, !.resent = @ + 1]}]
    /\ disturbed' = disturbed \cup Elems(r.objs)
    /\ UNCHANGED <<model, saved, actions, server, bounds>>

\* Another user edits the object.
OthersEdit(o) ==
    /\ Quiet /\ edits < MaxEdits /\ server[o].rev > 0
    /\ edits' = edits + 1
    /\ server' = [server EXCEPT ![o] = Written(o, 0 - edits')]
    /\ disturbed' = disturbed \cup {o}
    /\ UNCHANGED <<sync, model, saved, actions, next, restarts>>

-----------------------------------------------------------------------------
(***************************************************************************)
(* SyncQueue takes an answer: handle_success_response and the failures.    *)
(***************************************************************************)
Without(r) == [sync EXCEPT !.sent = @ \ {r}]
Whole(r) == <<r.n, NoObject>>

OnAccepted(r) ==
    LET o == r.objs[1]
        now == r.found[o]
    IN  /\ r.answer = "Accepted"
        /\ sync' = Dequeue(Emit(WithNewRevision(Release(Without(r), Whole(r)), o, now.rev),
                                Event("Updated", o, r.n, now)))
        /\ UNCHANGED disturbed

OnRejected(r) ==
    LET o == r.objs[1]
    IN  /\ r.answer = "Rejected"
        /\ sync' = Dequeue(Release(Emit(Without(r), Event("Rejected", o, r.n, r.found[o])), Whole(r)))
        /\ UNCHANGED disturbed

\* update_dependencies_on_creation: workflows that wait for the enum name it by its server id.
Renamed(v, o, d) ==
    LET renamed == [k \in DOMAIN v.queue |->
                       IF d \in v.queue[k].deps THEN [v.queue[k] EXCEPT !.refs = @ \ {o}] ELSE v.queue[k]]
    IN  IF o \notin Enums THEN v ELSE [v EXCEPT !.queue = renamed]

ObjectCreated(v, r, o) ==
    LET d == DependencyOn(r, o)
        named == [Renamed(v, o, d) EXCEPT !.mapped = @ \cup {o}]
        now == r.found[o]
    IN  Dequeue(Emit(WithNewRevision(Release(named, d), o, now.rev), Event("Created", o, r.n, now)))

\* The queue after the first k objects of a creation.
CreatedEach(v, r) ==
    LET created[k \in 0..Len(r.objs)] ==
            IF k = 0 THEN v ELSE ObjectCreated(created[k - 1], r, r.objs[k])
    IN  created

OnCreated(r) ==
    /\ r.answer = "Created"
    /\ sync' = CreatedEach(Without(r), r)[Len(r.objs)]
    /\ UNCHANGED disturbed

\* CreationResponseType::UserFacingError releases what depends on the creation.
OnDenied(r) ==
    /\ r.answer = "Denied"
    /\ sync' = Dequeue(Emit(Release(Without(r), Whole(r)), Event("Denied", r.objs[1], r.n, NoConflict)))
    /\ UNCHANGED disturbed

\* The objects of a bulk creation fail one after the other.
FailAll(r, kind) ==
    Fail(Without(r), {DependencyOn(r, o) : o \in Elems(r.objs)},
         [k \in DOMAIN r.objs |-> Event(kind, r.objs[k], r.n, NoConflict)])

\* handle_unique_key_creation_failure_response
OnKeyConflict(r) ==
    /\ r.answer = "KeyConflict"
    /\ sync' = Dequeue(FailAll(r, "KeyConflict"))
    /\ UNCHANGED disturbed

OnRecorded(r) ==
    /\ r.answer = "Recorded"
    /\ sync' = Dequeue(Emit(Release(Without(r), Whole(r)), Event("Recorded", r.objs[1], r.n, NoConflict)))
    /\ UNCHANGED disturbed

Receive(r) ==
    /\ Quiet
    /\ OnAccepted(r) \/ OnRejected(r) \/ OnCreated(r) \/ OnDenied(r) \/ OnKeyConflict(r) \/ OnRecorded(r)
    /\ UNCHANGED <<model, saved, actions, server, bounds>>

(***************************************************************************)
(* RequestState::RequestFailed and maybe_dequeue_on_error.  The server may *)
(* have applied the request.                                               *)
(***************************************************************************)
RequestFailed(r) ==
    LET v == FailAll(r, IF IsContent(r) THEN "Failed" ELSE "NotRecorded")
    IN  /\ Quiet
        /\ sync' \in {v, Dequeue(v)}
        /\ disturbed' = IF r.answer = "None" THEN disturbed ELSE disturbed \cup Elems(r.objs)
        /\ UNCHANGED <<model, saved, actions, server, bounds>>

-----------------------------------------------------------------------------
(***************************************************************************)
(* UpdateManager handles the events of SyncQueue: handle_model_event.      *)
(***************************************************************************)
\* Mutant: an answer leaves the object in flight.
DecrementNone(status, idle) == IF status = 1 THEN idle ELSE status

\* decrement_in_flight_request_count
Decrement(status, idle) == IF status > 1 THEN status - 1
                           ELSE IF status = 1 THEN idle ELSE status

\* Mutant: the first answer ends them all.
AnyAnswer(status) == TRUE

\* what decrement_in_flight_request_count returns
NoLongerInFlight(status) == status <= 1

\* The enums that a workflow names by their client ids.
Refs(o, object) ==
    IF o \in Workflows /\ object.content > 0
    THEN {e \in References[o] : model[e].id = "Client"} ELSE {}

NewItem(op, o, object, n) ==
    [n |-> n, op |-> op, objs |-> <<o>>, client |-> object.id = "Client",
     refs |-> Refs(o, object), rev |-> object.rev, content |-> object.content, deps |-> {}]

\* create_object_queue_item, or else update_object_queue_item
SyncItem(o, object, n) ==
    NewItem(IF object.id = "Client" THEN "Create" ELSE "Update", o, object, n)

Delivered == [sync EXCEPT !.events = Tail(@)]

\* MarkObjectAsSynced, unless more requests are in flight.
MarkSynced(row, status, rev) ==
    IF NoLongerInFlight(status) THEN [row EXCEPT !.pending = FALSE, !.rev = rev] ELSE row

\* Workflows that name a created enum name it by its server id, in SQLite too.
HandleCreated(e) ==
    LET object == model[e.o]
        naming == {w \in Workflows : e.o \in Refs(w, model[w])}
    IN  /\ e.kind = "Created"
        /\ model' = [model EXCEPT ![e.o] =
                        [object EXCEPT !.id = "Server", !.rev = e.rev, !.status = Decrement(@, NoLocalChanges)]]
        /\ saved' = [o \in Objects |->
                        IF o = e.o THEN MarkSynced([saved[o] EXCEPT !.id = "Server"], object.status, e.rev)
                        ELSE IF o \in naming THEN Upsert(model[o]) ELSE saved[o]]
        /\ actions' = {a \in actions : ~(a.o = e.o /\ a.client)}
        /\ sync' = Delivered /\ UNCHANGED next

\* Mutant: the conflict with an echo of the update stays.
ClearsOlder(conflict, rev) == conflict.rev < rev

\* check_and_maybe_clear_current_conflict
ClearsConflict(conflict, rev) == conflict.rev <= rev

HandleUpdated(e) ==
    LET object == model[e.o]
    IN  /\ e.kind = "Updated"
        /\ model' = [model EXCEPT ![e.o] =
                        [object EXCEPT !.rev = e.rev, !.status = Decrement(@, NoLocalChanges),
                                       !.conflict = IF ClearsConflict(@, e.rev) THEN NoConflict ELSE @]]
        /\ saved' = [saved EXCEPT ![e.o] = MarkSynced(@, object.status, e.rev)]
        /\ sync' = Delivered /\ UNCHANGED <<actions, next>>

\* handle_failure_response
HandleFailed(e) ==
    /\ \/ e.kind = "Failed"
       \/ e.kind = "Denied" /\ ~model[e.o].team
    /\ model' = [model EXCEPT ![e.o].status = Decrement(@, Errored)]
    /\ sync' = Delivered /\ UNCHANGED <<saved, actions, next>>

\* should_clear_on_unique_key_conflict
HandleKeyConflict(e) ==
    /\ e.kind = "KeyConflict"
    /\ model' = [model EXCEPT ![e.o] = [Unborn EXCEPT !.id = "Deleted"]]
    /\ saved' = [saved EXCEPT ![e.o] = Upsert(model'[e.o])]
    /\ sync' = Delivered /\ UNCHANGED <<actions, next>>

\* handle_creation_denied_response: the object is created in the personal drive.
HandleDenied(e) ==
    LET moved == [model[e.o] EXCEPT !.team = FALSE]
    IN  /\ e.kind = "Denied" /\ model[e.o].team
        /\ model' = [model EXCEPT ![e.o] = moved]
        /\ saved' = [saved EXCEPT ![e.o] = Upsert(moved)]
        /\ sync' = Enqueue(Delivered, SyncItem(e.o, moved, next))
        /\ next' = next + 1
        /\ UNCHANGED actions

\* handle_conflicting_object
KeepLocalContent(e) ==
    /\ e.o \in Notebooks
    /\ model' = [model EXCEPT ![e.o] =
                    [@ EXCEPT !.conflict = [rev |-> e.rev, content |-> e.content], !.status = InConflict]]
    /\ UNCHANGED saved

TakeServerContent(e) ==
    /\ e.o \in Workflows \cup Enums
    /\ model' = [model EXCEPT ![e.o] =
                    [model[e.o] EXCEPT !.content = e.content, !.rev = e.rev,
                                       !.status = Decrement(@, NoLocalChanges)]]
    /\ saved' = [saved EXCEPT ![e.o] = Upsert(model'[e.o])]

IgnoreRejection(e) == e.o \in Facts \cup Preferences /\ UNCHANGED <<model, saved>>

HandleRejected(e) ==
    /\ e.kind = "Rejected"
    /\ KeepLocalContent(e) \/ TakeServerContent(e) \/ IgnoreRejection(e)
    /\ sync' = Delivered /\ UNCHANGED <<actions, next>>

\* remove_pending_object_action
HandleRecorded(e) ==
    /\ e.kind \in {"Recorded", "NotRecorded"}
    /\ actions' = {a \in actions : a.n # e.n}
    /\ sync' = Delivered /\ UNCHANGED <<model, saved, next>>

Deliver ==
    /\ ~Quiet
    /\ LET e == Head(sync.events)
       IN  \/ HandleCreated(e) \/ HandleUpdated(e) \/ HandleFailed(e) \/ HandleKeyConflict(e)
           \/ HandleDenied(e) \/ HandleRejected(e) \/ HandleRecorded(e)
    /\ UNCHANGED <<server, edits, restarts, disturbed>>

-----------------------------------------------------------------------------
(***************************************************************************)
(* The user.  A workflow is created or edited after the enums it refers to;*)
(* unless MayDangle, only while each of them has an id or is being created.*)
(***************************************************************************)
\* The objects there are, and the bound of what is enqueued for objs.
Present == {o \in Objects : model[o].id # "None"}

IsBounded(objs) ==
    /\ Quiet
    /\ \E S \in DOMAIN MaxItems : Present \cup objs \subseteq S /\ next <= MaxItems[S]

MayEnqueue(item) == MayDangle \/ \A e \in item.refs : ItemsWithId(sync, e, {TRUE}) # {}

Save(o, object) ==
    /\ model' = [model EXCEPT ![o] = object]
    /\ saved' = [saved EXCEPT ![o] = Upsert(object)]

EnqueueNext(item) ==
    /\ MayEnqueue(item)
    /\ sync' = Enqueue(sync, item)
    /\ next' = next + 1
    /\ UNCHANGED <<server, edits, restarts, disturbed>>

\* UpdateManager::create_object
Create(o) ==
    LET object == [Unborn EXCEPT !.id = "Client", !.content = next, !.status = 1,
                                 !.team = o \in TeamObjects]
    IN  /\ IsBounded({o}) /\ model[o].id = "None"
        /\ o \in Workflows => \A e \in References[o] : Exists(model[e])
        /\ Save(o, object)
        /\ EnqueueNext(NewItem("Create", o, object, next))
        /\ UNCHANGED actions

\* bulk_create_generic_string_objects
BulkCreate(objs) ==
    LET object == [Unborn EXCEPT !.id = "Client", !.content = next, !.status = 1]
        item == [NewItem("Bulk", objs[1], object, next) EXCEPT !.objs = objs]
    IN  /\ IsBounded(Elems(objs)) /\ \A o \in Elems(objs) : model[o].id = "None"
        /\ model' = [o \in Objects |-> IF o \in Elems(objs) THEN object ELSE model[o]]
        /\ saved' = [o \in Objects |-> IF o \in Elems(objs) THEN Upsert(object) ELSE saved[o]]
        /\ EnqueueNext(item)
        /\ UNCHANGED actions

\* UpdateManager::update_object.  A notebook that shows its conflict is not edited.
Update(o) ==
    LET object == [model[o] EXCEPT !.content = next, !.status = IF @ > 0 THEN @ + 1 ELSE 1]
    IN  /\ IsBounded({o}) /\ Exists(model[o])
        /\ o \in Notebooks => model[o].conflict = NoConflict \/ IsPending(model[o].status)
        /\ Save(o, object)
        /\ EnqueueNext(NewItem("Update", o, object, next))
        /\ UNCHANGED actions

\* UpdateManager::record_object_action
Record(o) ==
    LET item == [NewItem("Record", o, model[o], next) EXCEPT !.refs = {}]
    IN  /\ IsBounded({o}) /\ Exists(model[o]) /\ (item.client => Impatient)
        /\ actions' = actions \cup {[o |-> o, n |-> next, client |-> item.client]}
        /\ EnqueueNext(item)
        /\ UNCHANGED <<model, saved>>

\* UpdateManager::resync_object, when the user retries.
Resync(o) ==
    /\ IsBounded({o}) /\ sync.running
    /\ Exists(model[o]) /\ model[o].status = Errored
    /\ model' = [model EXCEPT ![o].status = 1]
    /\ EnqueueNext(SyncItem(o, model[o], next))
    /\ UNCHANGED <<saved, actions>>

\* replace_object_with_conflict, when the user takes the server's notebook.
ReplaceWithConflict(o) ==
    /\ Quiet /\ o \in Notebooks
    /\ model[o].conflict # NoConflict /\ ~IsPending(model[o].status)
    /\ Save(o, [model[o] EXCEPT !.status = NoLocalChanges, !.conflict = NoConflict,
                                !.rev = model[o].conflict.rev, !.content = model[o].conflict.content])
    /\ UNCHANGED <<sync, actions, server, bounds, disturbed>>

-----------------------------------------------------------------------------
(***************************************************************************)
(* handle_cloud_object_changed_event: an update of a newer revision comes  *)
(* from the server, perhaps the echo of an edit of this client.            *)
(***************************************************************************)
Refresh(o) ==
    LET object == model[o]
        conflicts == IsPending(object.status) \/ object.conflict # NoConflict
    IN  /\ Quiet /\ object.id = "Server" /\ server[o].rev > object.rev
        /\ Save(o, IF conflicts THEN [object EXCEPT !.conflict = server[o]]
                   ELSE [object EXCEPT !.rev = server[o].rev, !.content = server[o].content])
        /\ UNCHANGED <<sync, actions, server, bounds, disturbed>>

\* Each successful poll starts the dequeueing.
Poll ==
    /\ Quiet
    /\ sync' = Dequeue([sync EXCEPT !.running = TRUE])
    /\ UNCHANGED <<model, saved, actions, server, bounds, disturbed>>

\* NetworkStatusKind::Offline
GoOffline ==
    /\ Quiet /\ sync.running
    /\ sync' = [sync EXCEPT !.running = FALSE]
    /\ UNCHANGED <<model, saved, actions, server, bounds, disturbed>>

(***************************************************************************)
(* The program ends and starts again.  What is pending in SQLite is queued *)
(* in any order, the actions last, before dependencies are inferred.  This *)
(* fails no item, so that no event is lost here: an enum that is named by  *)
(* its client id is one that the server does not know, is pending in       *)
(* SQLite, and is queued as well.                                          *)
(***************************************************************************)
Loaded(row) ==
    [Unborn EXCEPT !.id = row.id, !.rev = row.rev, !.content = row.content, !.team = row.team,
                   !.status = IF row.pending THEN 1 ELSE NoLocalChanges]

Restart ==
    LET loaded  == [o \in Objects |-> Loaded(saved[o])]
        pending == {o \in Objects : Exists(loaded[o]) /\ IsPending(loaded[o].status)}
        enums(o) == IF o \in Workflows /\ loaded[o].content > 0
                    THEN {e \in References[o] : loaded[e].id = "Client"} ELSE {}
        known   == {a \in actions : Exists(loaded[a.o]) /\ (a.client => loaded[a.o].id = "Client")}
        Item(o, k) == [SyncItem(o, loaded[o], next + k) EXCEPT !.refs = enums(o)]
        Action(a) == [NewItem("Record", a.o, loaded[a.o], a.n) EXCEPT !.refs = {}]
    IN  /\ Quiet /\ restarts < MaxRestarts
        /\ restarts' = restarts + 1
        /\ model' = loaded
        /\ \E order \in Orderings(pending), reports \in Orderings(known) :
              LET objects == [k \in DOMAIN order |-> Item(order[k], k)]
                  acts    == [k \in DOMAIN reports |-> Action(reports[k])]
                  v == [queue |-> objects \o acts, sent |-> {}, mapped |-> {}, running |-> FALSE, events |-> <<>>]
              IN  sync' = [v EXCEPT !.queue = [k \in DOMAIN @ |-> Inferred(v, @[k]).item]]
        /\ next' = next + 1 + Cardinality(pending)
        /\ disturbed' = disturbed \cup pending
        /\ UNCHANGED <<saved, actions, server, edits>>

-----------------------------------------------------------------------------
Next ==
    \/ Deliver
    \/ \E r \in sync.sent : Serve(r) \/ LoseAnswer(r) \/ Receive(r) \/ RequestFailed(r)
    \/ \E o \in Objects : Create(o) \/ Update(o) \/ Record(o) \/ Resync(o)
                          \/ ReplaceWithConflict(o) \/ Refresh(o) \/ OthersEdit(o)
    \/ \E p, q \in Preferences : p # q /\ BulkCreate(<<p, q>>)
    \/ Poll \/ GoOffline \/ Restart

(***************************************************************************)
(* Events are delivered; polls recur; requests end, as their retries are   *)
(* bounded and a dead connection is noticed (http2_keep_alive_timeout).    *)
(***************************************************************************)
Answers == \E r \in sync.sent : Serve(r) \/ Receive(r) \/ RequestFailed(r)

Fairness ==
    /\ WF_vars(Deliver) /\ WF_vars(Poll)
    /\ []<>(~Quiet \/ sync.sent = {}) \/ []<><<Answers>>_vars   \* WF_vars(Answers)
Spec == Init /\ [][Next]_vars /\ Fairness

-----------------------------------------------------------------------------
Outstanding == Elems(sync.queue) \cup sync.sent
ContentItemsOf(o) == {i \in Outstanding : IsContent(i) /\ o \in Elems(i.objs)}

(***************************************************************************)
(* The variables have the shapes described above.                          *)
(***************************************************************************)
Rows == [id : {"None", "Client", "Server", "Deleted"}, rev : Nat, content : Int,
         pending : BOOLEAN, team : BOOLEAN]
TypeOK ==
    /\ \A o \in Objects : Upsert(model[o]) \in Rows /\ saved[o] \in Rows
    /\ \A i \in Outstanding :
          /\ i.op \in {"Create", "Bulk", "Update", "Record"}
          /\ i.n < next /\ Elems(i.objs) \subseteq Objects /\ i.refs \subseteq Enums
    /\ sync.mapped \subseteq Objects /\ sync.running \in BOOLEAN
    /\ \A e \in Elems(sync.events) : e.o \in Objects

(***************************************************************************)
(* The edits of an object are sent one at a time, in the order they were   *)
(* made, under whichever of its ids they name it (get_update_dependencies).*)
(* But an object whose creation in a team is denied is created again,      *)
(* while edits of it may wait for something else.                          *)
(***************************************************************************)
UpdatesInOrder ==
    \A r \in sync.sent, i \in Outstanding :
        (IsContent(r) /\ IsContent(i) /\ (Elems(r.objs) \cap Elems(i.objs)) \ TeamObjects # {})
            => i = r \/ (i \notin sync.sent /\ r.n < i.n)

(***************************************************************************)
(* The server does not reject an edit because of an earlier edit of this   *)
(* client: queued edits take the revisions of those before them            *)
(* (update_items_with_new_revision).                                       *)
(***************************************************************************)
OwnUpdatesAreAccepted ==
    \A r \in sync.sent :
        (r.op = "Update" /\ r.answer = "None" /\ r.objs[1] \notin Preferences \cup disturbed)
            => r.rev = server[r.objs[1]].rev

(***************************************************************************)
(* The count of InFlight is the number of requests that are outstanding,   *)
(* and no other status has any.  Rejections break it for notebooks and     *)
(* facts.                                                                  *)
(***************************************************************************)
StatusIsTrue ==
    Quiet => \A o \in Workflows \cup Enums \cup Preferences :
        Cardinality(ContentItemsOf(o)) = IF model[o].status > 0 THEN model[o].status ELSE 0

(***************************************************************************)
(* What an item waits for is itself queued or in flight, so that an answer *)
(* or a failure will release it.                                           *)
(***************************************************************************)
DependenciesArePending ==
    \A i \in Elems(sync.queue) : \A d \in i.deps :
        \E j \in Outstanding :
            d \in {<<j.n, NoObject>>} \cup (IF j.op = "Bulk" THEN {<<j.n, o>> : o \in Elems(j.objs)} ELSE {})

(***************************************************************************)
(* A workflow is never sent with the client id of an enum, as the comment  *)
(* at sync_queue.rs:477-478 says; it is, if MayDangle.                     *)
(***************************************************************************)
WorkflowsNameServerIds ==
    \A r \in sync.sent : r.objs[1] \in Workflows => r.refs = {}

(***************************************************************************)
(* Once nothing of an object is outstanding, and no error is shown for it, *)
(* memory, SQLite and the server agree on it, and an echo of its own edits *)
(* has left no conflict (check_and_maybe_clear_current_conflict).          *)
(***************************************************************************)
SettledIsSynced ==
    Quiet => \A o \in Objects \ disturbed :
        (Exists(model[o]) /\ ContentItemsOf(o) = {} /\ model[o].status # Errored)
            => /\ model[o].id = "Server" /\ model[o].conflict = NoConflict
               /\ [rev |-> model[o].rev, content |-> model[o].content] = server[o]
               /\ saved[o] = Upsert(model[o])

(***************************************************************************)
(* An edit that has not reached the server is in SQLite and marked to be   *)
(* sent after a restart.                                                   *)
(***************************************************************************)
EditsSurviveRestart ==
    Quiet => \A o \in Objects :
        (Exists(model[o]) /\ IsPending(model[o].status))
            => /\ saved[o].pending
               /\ saved[o].id = model[o].id /\ saved[o].content = model[o].content

(***************************************************************************)
(* While the queue runs it empties: every item is answered or fails, and   *)
(* so does what waits for it.                                              *)
(***************************************************************************)
QueueEmpties == Outstanding # {} ~> (Outstanding = {} \/ ~sync.running)

-----------------------------------------------------------------------------
(***************************************************************************)
(* Three more things that comments of the code say and the code does not   *)
(* do; no run checks them.  First: an action on an object is sent once the *)
(* object has a server id.                                                 *)
(***************************************************************************)
ActionsAreReported ==
    [][restarts' = restarts =>
          \A i \in Outstanding :
              i.op = "Record" => \/ \E j \in Outstanding' : j.n = i.n
                                \/ \E e \in Elems(sync'.events) : e.n = i.n]_vars

(***************************************************************************)
(* A notebook in conflict stays pending in SQLite                          *)
(* (handle_conflicting_object).                                            *)
(***************************************************************************)
ConflictsStayPending ==
    \A o \in Notebooks : model[o].status = InConflict => saved[o].pending

(***************************************************************************)
(* A fact that is InFlight is in the sync queue (CloudObjectSyncStatus).   *)
(***************************************************************************)
InFlightIsQueued ==
    Quiet => \A o \in Facts : model[o].status > 0 => ContentItemsOf(o) # {}
=============================================================================
