--------------------------- MODULE SyncOrderProofs ---------------------------
(***************************************************************************)
(* Proofs about the queue of the edits of cloud objects that follow one    *)
(* object: its edits are sent in order, its status counts them, and what   *)
(* of it has not reached the server is kept for a restart.                 *)
(***************************************************************************)
EXTENDS SyncQueueProofs

-----------------------------------------------------------------------------
(* What is under way for an object.                                        *)

\* The items of the object o.
ContentOf(v, o) == {i \in Pending(v) : IsContent(i) /\ o \in Elems(i.objs)}
Waiting(v, o) == {i.n : i \in ContentOf(v, o)}

\* The events that end a request for an object's content.
Settling == {"Created", "Updated", "Rejected", "Denied", "KeyConflict", "Failed"}
About(e, o) == e.o = o /\ e.kind \in Settling
Announced(events, o) ==
    {events[p].n : p \in {p \in DOMAIN events : About(events[p], o)}}

Live(v, o) == Waiting(v, o) \cup Announced(v.events, o)

\* Each edit waits for all earlier ones.
Chained(v, o) ==
    \A i, j \in ContentOf(v, o) :
        i.n < j.n => j \in Elems(v.queue) /\ j.op = "Update" /\ DependencyOn(i, o) \in j.deps

\* The events tell of each item once, of none in rest, and a conflict of keys is the last of them.
TellsOnce(events, o, rest) ==
    /\ \A p, q \in DOMAIN events :
          (About(events[p], o) /\ About(events[q], o) /\ events[p].n = events[q].n) => p = q
    /\ \A p \in DOMAIN events : About(events[p], o) =>
          /\ events[p].n \notin rest
          /\ events[p].kind = "KeyConflict" =>
                rest = {} /\ \A q \in DOMAIN events : q > p => ~About(events[q], o)

\* The items name the object as the object names itself, until the event of its creation.
Named(v, o, id) ==
    /\ id = "None" => o \notin v.mapped
    /\ (id = "Client" /\ o \notin v.mapped) =>
          \A i \in ContentOf(v, o) : i.op \in Creations \/ (i \in Elems(v.queue) /\ i.client)
    /\ (id = "Client" /\ o \in v.mapped) =>
          \E p \in DOMAIN v.events : v.events[p].kind = "Created" /\ v.events[p].o = o
    /\ (id = "Server" /\ o \notin v.mapped) =>
          \A i \in ContentOf(v, o) : i.op = "Update" /\ (i \in Elems(v.queue) => ~i.client)
    /\ \A p \in DOMAIN v.events : v.events[p].o = o =>
          /\ v.events[p].kind = "Created" => o \in v.mapped
          /\ v.events[p].kind = "Rejected" => o \notin Preferences /\ id \notin {"None", "Client"}

(***************************************************************************)
(* All of it, for an object with this id; the events about the items owed  *)
(* are still to come in the same step.                                     *)
(***************************************************************************)
InOrder(v, o, id, owed) ==
    /\ Chained(v, o) /\ Named(v, o, id)
    /\ Waiting(v, o) \cap owed = {}
    /\ TellsOnce(v.events, o, Waiting(v, o) \cup owed)

\* None of the keys is of an item that is pending.
Fresh(v, D) == \A d \in D : \A i \in Pending(v) : d[1] # i.n

-----------------------------------------------------------------------------
(* Events that follow others.                                              *)

LEMMA JoinedEvents ==
    ASSUME NEW x \in Seq(Events), NEW y \in Seq(Events)
    PROVE  LET z == x \o y
           IN  /\ z \in Seq(Events) /\ Len(x) \in Nat
               /\ \A p \in DOMAIN z : p \in Nat
               /\ \A p \in DOMAIN z : p \in DOMAIN x \/ p - Len(x) \in DOMAIN y
               /\ \A p \in DOMAIN x : p \in DOMAIN z /\ z[p] = x[p] /\ p <= Len(x)
               /\ \A p \in DOMAIN y : /\ p + Len(x) \in DOMAIN z /\ z[p + Len(x)] = y[p]
                                      /\ p > 0 /\ p \in Nat
<1> DEFINE z == x \o y
<1>1. z \in Seq(Events)
  OBVIOUS
<1>2. /\ Len(x) \in Nat /\ Len(y) \in Nat
      /\ DOMAIN x = 1..Len(x) /\ DOMAIN y = 1..Len(y) /\ DOMAIN z = 1..(Len(x) + Len(y))
      /\ \A k \in 1..Len(x) : z[k] = x[k]
      /\ \A k \in 1..Len(y) : z[Len(x) + k] = y[k]
  OBVIOUS
<1> HIDE DEF z
<1>3. \A p \in DOMAIN z : p \in Nat /\ (p \in DOMAIN x \/ p - Len(x) \in DOMAIN y)
  BY <1>2
<1>4. \A p \in DOMAIN x : p \in DOMAIN z /\ z[p] = x[p] /\ p <= Len(x)
  BY <1>2
<1>5. \A p \in DOMAIN y : /\ p + Len(x) \in DOMAIN z /\ z[p + Len(x)] = y[p] /\ p > 0 /\ p \in Nat
  BY <1>2
<1> QED
  BY <1>1, <1>2, <1>3, <1>4, <1>5 DEF z

LEMMA TellsJoin ==
    ASSUME NEW x \in Seq(Events), NEW y \in Seq(Events), NEW o, NEW U, NEW W,
           TellsOnce(x, o, U), TellsOnce(y, o, W), Announced(y, o) = U \ W, W \subseteq U
    PROVE  /\ TellsOnce(x \o y, o, W)
           /\ Announced(x \o y, o) = Announced(x, o) \cup Announced(y, o)
<1> DEFINE z == x \o y
           m == Len(x)
<1>1. /\ z \in Seq(Events) /\ m \in Nat
      /\ \A p \in DOMAIN z : p \in Nat
      /\ \A p \in DOMAIN z : p \in DOMAIN x \/ p - m \in DOMAIN y
      /\ \A p \in DOMAIN x : p \in DOMAIN z /\ z[p] = x[p] /\ p <= m
      /\ \A p \in DOMAIN y : /\ p + m \in DOMAIN z /\ z[p + m] = y[p] /\ p > 0 /\ p \in Nat
  BY JoinedEvents
<1> HIDE DEF z, m
<1>2. \A p \in DOMAIN z : p \in DOMAIN x \/ \E k \in DOMAIN y : p = k + m /\ z[p] = y[k] /\ p > m
  <2>1. SUFFICES ASSUME NEW p \in DOMAIN z, p \notin DOMAIN x
                 PROVE  \E k \in DOMAIN y : p = k + m /\ z[p] = y[k] /\ p > m
    OBVIOUS
  <2>2. PICK k \in DOMAIN y : k = p - m
    BY <1>1, <2>1
  <2>3. p = k + m
    BY <1>1, <2>2
  <2> QED BY <1>1, <2>3
<1>3. \A k \in DOMAIN y : About(y[k], o) => y[k].n \in U \ W
  BY DEF Announced
<1>4. \A p \in DOMAIN x : About(x[p], o) => x[p].n \notin U
  BY DEF TellsOnce
<1>5. ASSUME NEW p \in DOMAIN z, NEW q \in DOMAIN z, About(z[p], o), About(z[q], o), z[p].n = z[q].n
      PROVE  p = q
  <2>1. CASE p \in DOMAIN x /\ q \in DOMAIN x
    BY <2>1, <1>1, <1>5 DEF TellsOnce
  <2>2. CASE p \in DOMAIN x /\ q \notin DOMAIN x
    BY <2>2, <1>1, <1>2, <1>3, <1>4, <1>5
  <2>3. CASE p \notin DOMAIN x /\ q \in DOMAIN x
    BY <2>3, <1>1, <1>2, <1>3, <1>4, <1>5
  <2>4. CASE p \notin DOMAIN x /\ q \notin DOMAIN x
    <3>1. PICK k \in DOMAIN y, l \in DOMAIN y :
              p = k + m /\ z[p] = y[k] /\ q = l + m /\ z[q] = y[l]
      BY <2>4, <1>2
    <3>2. k = l
      BY <3>1, <1>5 DEF TellsOnce
    <3> QED BY <3>1, <3>2
  <2> QED BY <2>1, <2>2, <2>3, <2>4
<1>6. ASSUME NEW p \in DOMAIN z, About(z[p], o)
      PROVE  /\ z[p].n \notin W
             /\ z[p].kind = "KeyConflict" =>
                   W = {} /\ \A q \in DOMAIN z : q > p => ~About(z[q], o)
  <2>1. CASE p \in DOMAIN x
    <3>1. z[p].n \notin W
      BY <2>1, <1>1, <1>4, <1>6
    <3>2. ASSUME z[p].kind = "KeyConflict"
          PROVE  W = {} /\ \A q \in DOMAIN z : q > p => ~About(z[q], o)
      <4>1. U = {} /\ \A q \in DOMAIN x : q > p => ~About(x[q], o)
        BY <2>1, <3>2, <1>1, <1>6 DEF TellsOnce
      <4>2. \A k \in DOMAIN y : ~About(y[k], o)
        BY <4>1, <1>3
      <4> QED BY <4>1, <4>2, <1>1, <1>2
    <3> QED BY <3>1, <3>2
  <2>2. CASE p \notin DOMAIN x
    <3>1. PICK k \in DOMAIN y : p = k + m /\ z[p] = y[k] /\ p > m
      BY <2>2, <1>2
    <3>2. /\ y[k].n \notin W
          /\ y[k].kind = "KeyConflict" =>
                W = {} /\ \A q \in DOMAIN y : q > k => ~About(y[q], o)
      BY <3>1, <1>6 DEF TellsOnce
    <3>3. ASSUME z[p].kind = "KeyConflict", NEW q \in DOMAIN z, q > p PROVE ~About(z[q], o)
      <4>1. q \notin DOMAIN x
        BY <3>1, <3>3, <1>1
      <4>2. PICK l \in DOMAIN y : q = l + m /\ z[q] = y[l]
        BY <4>1, <1>2
      <4>3. l > k
        BY <3>1, <3>3, <4>2, <1>1
      <4> QED BY <3>1, <3>2, <3>3, <4>2, <4>3
    <3> QED BY <3>1, <3>2, <3>3
  <2> QED BY <2>1, <2>2
<1>7. Announced(z, o) = Announced(x, o) \cup Announced(y, o)
  <2>1. ASSUME NEW n \in Announced(z, o) PROVE n \in Announced(x, o) \cup Announced(y, o)
    <3>1. PICK p \in DOMAIN z : About(z[p], o) /\ n = z[p].n
      BY DEF Announced
    <3> QED BY <3>1, <1>1, <1>2 DEF Announced
  <2>2. ASSUME NEW n \in Announced(x, o) PROVE n \in Announced(z, o)
    <3>1. PICK p \in DOMAIN x : About(x[p], o) /\ n = x[p].n
      BY DEF Announced
    <3> QED BY <3>1, <1>1 DEF Announced
  <2>3. ASSUME NEW n \in Announced(y, o) PROVE n \in Announced(z, o)
    <3>1. PICK p \in DOMAIN y : About(y[p], o) /\ n = y[p].n
      BY DEF Announced
    <3>2. p + m \in DOMAIN z /\ z[p + m] = y[p]
      BY <1>1
    <3> QED BY <3>1, <3>2 DEF Announced
  <2> QED BY <2>1, <2>2, <2>3
<1> QED
  BY <1>5, <1>6, <1>7 DEF TellsOnce, z

LEMMA NothingTold ==
    ASSUME NEW o, NEW rest
    PROVE  TellsOnce(<<>>, o, rest) /\ Announced(<<>>, o) = {}
BY DEF TellsOnce, Announced

LEMMA OneTold ==
    ASSUME NEW o, NEW rest, NEW e
    PROVE  /\ ~About(e, o) => TellsOnce(<<e>>, o, rest) /\ Announced(<<e>>, o) = {}
           /\ About(e, o) /\ e.n \notin rest /\ e.kind # "KeyConflict" =>
                  TellsOnce(<<e>>, o, rest) /\ Announced(<<e>>, o) = {e.n}
<1>1. DOMAIN <<e>> = {1} /\ <<e>>[1] = e
  OBVIOUS
<1>2. PICK s : s = <<e>>
  OBVIOUS
<1>3. DOMAIN s = {1} /\ s[1] = e
  BY <1>1, <1>2
<1> QED
  BY <1>2, <1>3 DEF TellsOnce, Announced

-----------------------------------------------------------------------------
(* One step of the queue.                                                  *)

\* Where the items of w come from.
LEMMA ItemSources ==
    ASSUME NEW v, NEW w, NEW D, NEW o, Evolves(v, w, D)
    PROVE  \A i \in ContentOf(w, o) : \E j \in ContentOf(v, o) :
               /\ Same(i, j)
               /\ \/ i \in Elems(w.queue) /\ j \in Elems(v.queue) /\ StemsFrom(i, j, D)
                  \/ i \in w.sent \ v.sent /\ j \in Elems(v.queue) /\ SentFrom(i, j, D, w.mapped)
                  \/ i \in v.sent /\ j = i
<1>1. SUFFICES ASSUME NEW i \in ContentOf(w, o)
               PROVE  \E j \in ContentOf(v, o) :
                          /\ Same(i, j)
                          /\ \/ i \in Elems(w.queue) /\ j \in Elems(v.queue) /\ StemsFrom(i, j, D)
                             \/ i \in w.sent \ v.sent /\ j \in Elems(v.queue) /\ SentFrom(i, j, D, w.mapped)
                             \/ i \in v.sent /\ j = i
  OBVIOUS
<1>2. i \in Elems(w.queue) \cup w.sent /\ IsContent(i) /\ o \in Elems(i.objs)
  BY DEF ContentOf, Pending
<1>3. \A j \in Pending(v) : Same(i, j) => j \in ContentOf(v, o)
  BY <1>2 DEF ContentOf, Same, IsContent
<1>4. CASE i \in Elems(w.queue)
  <2>1. PICK j \in Elems(v.queue) : StemsFrom(i, j, D)
    BY <1>4 DEF Evolves
  <2>2. j \in Pending(v) /\ Same(i, j)
    BY <2>1 DEF Pending, StemsFrom
  <2> QED BY <2>1, <2>2, <1>3, <1>4
<1>5. CASE i \in w.sent \ v.sent
  <2>1. PICK j \in Elems(v.queue) : SentFrom(i, j, D, w.mapped)
    BY <1>5 DEF Evolves
  <2>2. j \in Pending(v) /\ Same(i, j)
    BY <2>1 DEF Pending, SentFrom
  <2> QED BY <2>1, <2>2, <1>3, <1>5
<1>6. CASE i \in v.sent
  <2>1. i \in Pending(v) /\ Same(i, i)
    BY <1>6 DEF Pending, Same
  <2> QED BY <2>1, <1>3, <1>6
<1> QED
  BY <1>2, <1>4, <1>5, <1>6

\* Numbers name items.
LEMMA OneItem ==
    ASSUME NEW v, NEW N, QueueOK(v, N), NEW i \in Pending(v), NEW j \in Pending(v), i.n = j.n
    PROVE  i = j /\ (i \in Elems(v.queue) => i \notin v.sent)
<1>1. NumbersDiffer(v)
  BY DEF QueueOK
<1>2. ASSUME i \in Elems(v.queue), j \in Elems(v.queue) PROVE i = j
  BY <1>1, <1>2 DEF NumbersDiffer, Elems
<1> QED
  BY <1>1, <1>2 DEF NumbersDiffer, Pending

LEMMA ChainedKept ==
    ASSUME NEW v, NEW w, NEW N, NEW M, NEW D, QueueOK(v, N), QueueOK(w, M), Evolves(v, w, D),
           Fresh(v, D), NEW o, Chained(v, o)
    PROVE  Chained(w, o) /\ Waiting(w, o) \subseteq Waiting(v, o)
<1>1. \A i \in ContentOf(w, o) : \E j \in ContentOf(v, o) :
               /\ Same(i, j)
               /\ \/ i \in Elems(w.queue) /\ j \in Elems(v.queue) /\ StemsFrom(i, j, D)
                  \/ i \in w.sent \ v.sent /\ j \in Elems(v.queue) /\ SentFrom(i, j, D, w.mapped)
                  \/ i \in v.sent /\ j = i
  BY ItemSources
<1>2. ASSUME NEW i \in ContentOf(w, o), NEW j \in ContentOf(w, o), i.n < j.n
      PROVE  j \in Elems(w.queue) /\ j.op = "Update" /\ DependencyOn(i, o) \in j.deps
  <2>1. PICK i0 \in ContentOf(v, o) : Same(i, i0)
    BY <1>1
  <2>2. PICK j0 \in ContentOf(v, o) :
               /\ Same(j, j0)
               /\ \/ j \in Elems(w.queue) /\ j0 \in Elems(v.queue) /\ StemsFrom(j, j0, D)
                  \/ j \in w.sent \ v.sent /\ j0 \in Elems(v.queue) /\ SentFrom(j, j0, D, w.mapped)
                  \/ j \in v.sent /\ j0 = j
    BY <1>1
  <2>3. j0 \in Elems(v.queue) /\ j0.op = "Update" /\ DependencyOn(i0, o) \in j0.deps
    BY <2>1, <2>2, <1>2 DEF Chained, Same
  <2>4. DependencyOn(i, o) = DependencyOn(i0, o) /\ DependencyOn(i0, o)[1] = i0.n
    BY <2>1 DEF DependencyOn, Same
  <2>5. DependencyOn(i0, o) \notin D
    BY <2>4 DEF Fresh, ContentOf
  <2>6. j \notin v.sent
    <3>1. SUFFICES ASSUME j \in v.sent PROVE FALSE
      OBVIOUS
    <3>2. j \in Pending(v) /\ j0 \in Pending(v) /\ j.n = j0.n
      BY <2>2, <3>1 DEF Pending, Same
    <3>3. j = j0 /\ j0 \notin v.sent
      BY <2>3, <3>2, OneItem
    <3> QED BY <3>1, <3>3
  <2>7. ~(j \in w.sent \ v.sent /\ SentFrom(j, j0, D, w.mapped))
    BY <2>3, <2>5 DEF SentFrom
  <2> QED BY <2>2, <2>3, <2>4, <2>5, <2>6, <2>7 DEF StemsFrom, Same
<1>3. Waiting(w, o) \subseteq Waiting(v, o)
  BY <1>1 DEF Waiting, Same
<1> QED
  BY <1>2, <1>3 DEF Chained

\* What the events of a step say of the names of the object o.
NamesWell(v, w, o, id, ys) ==
    /\ o \in w.mapped \ v.mapped =>
          id # "None" /\ \E k \in DOMAIN ys : ys[k].kind = "Created" /\ ys[k].o = o
    /\ \A k \in DOMAIN ys : ys[k].o = o =>
          /\ ys[k].kind = "Created" => o \in w.mapped
          /\ ys[k].kind = "Rejected" => o \notin Preferences /\ id \notin {"None", "Client"}

LEMMA NamedKept ==
    ASSUME NEW v, NEW w, NEW N, NEW M, NEW D, QueueOK(v, N), QueueOK(w, M), Evolves(v, w, D),
           NEW o, NEW id, Named(v, o, id),
           NEW ys \in Seq(Events), w.events = v.events \o ys, NamesWell(v, w, o, id, ys)
    PROVE  Named(w, o, id)
<1>1. \A i \in ContentOf(w, o) : \E j \in ContentOf(v, o) :
               /\ Same(i, j)
               /\ \/ i \in Elems(w.queue) /\ j \in Elems(v.queue) /\ StemsFrom(i, j, D)
                  \/ i \in w.sent \ v.sent /\ j \in Elems(v.queue) /\ SentFrom(i, j, D, w.mapped)
                  \/ i \in v.sent /\ j = i
  BY ItemSources
<1>2. v.mapped \subseteq w.mapped
  BY DEF Evolves
<1> DEFINE z == v.events \o ys
           x == v.events
           m == Len(v.events)
<1>3. /\ \A p \in DOMAIN z : p \in DOMAIN x \/ p - m \in DOMAIN ys
      /\ \A p \in DOMAIN z : p \in Nat
      /\ \A p \in DOMAIN x : p \in DOMAIN z /\ z[p] = x[p]
      /\ \A p \in DOMAIN ys : p + m \in DOMAIN z /\ z[p + m] = ys[p]
      /\ m \in Nat
  <2>1. v.events \in Seq(Events)
    BY DEF QueueOK, SyncQueues
  <2> QED BY <2>1, JoinedEvents
<1>4. w.events = z
  OBVIOUS
<1> HIDE DEF z, x, m
<1>5. \A p \in DOMAIN z : (p \in DOMAIN x /\ z[p] = x[p]) \/ \E k \in DOMAIN ys : z[p] = ys[k]
  <2>1. SUFFICES ASSUME NEW p \in DOMAIN z, p \notin DOMAIN x PROVE \E k \in DOMAIN ys : z[p] = ys[k]
    BY <1>3
  <2>2. p - m \in DOMAIN ys /\ (p - m) + m = p
    BY <2>1, <1>3
  <2> QED BY <2>2, <1>3
<1>6. id = "None" => o \notin w.mapped
  BY DEF Named, NamesWell
<1>7. ASSUME id = "Client", o \notin w.mapped, NEW i \in ContentOf(w, o)
      PROVE  i.op \in Creations \/ (i \in Elems(w.queue) /\ i.client)
  <2>1. PICK j \in ContentOf(v, o) :
               /\ Same(i, j)
               /\ \/ i \in Elems(w.queue) /\ j \in Elems(v.queue) /\ StemsFrom(i, j, D)
                  \/ i \in w.sent \ v.sent /\ j \in Elems(v.queue) /\ SentFrom(i, j, D, w.mapped)
                  \/ i \in v.sent /\ j = i
    BY <1>1
  <2>2. j.op \in Creations \/ (j \in Elems(v.queue) /\ j.client)
    BY <1>2, <1>7 DEF Named
  <2>3. ASSUME j.op \notin Creations PROVE i \in Elems(w.queue) /\ i.client
    <3>1. j \in Elems(v.queue) /\ j.client
      BY <2>2, <2>3
    <3>2. j \notin v.sent
      BY <3>1, OneItem DEF ContentOf
    <3>3. ~(i \in w.sent \ v.sent /\ SentFrom(i, j, D, w.mapped))
      <4>1. SUFFICES ASSUME SentFrom(i, j, D, w.mapped) PROVE FALSE
        OBVIOUS
      <4>2. j.objs[1] \in w.mapped
        BY <4>1, <3>1, <2>3 DEF SentFrom
      <4>3. j.op = "Update" /\ o \in Elems(j.objs) /\ j \in Pending(v)
        BY <2>3 DEF ContentOf, IsContent
      <4>4. Len(j.objs) = 1 /\ j \in Items
        <5>1. Elems(v.queue) \subseteq Items
          BY ElemsType DEF QueueOK, SyncQueues
        <5> QED BY <4>3, <3>1, <5>1 DEF QueueOK, ItemOK
      <4>5. o = j.objs[1]
        BY <4>3, <4>4 DEF Elems, Items, ObjectLists
      <4> QED BY <4>2, <4>5, <1>7
    <3> QED BY <2>1, <3>1, <3>2, <3>3 DEF Same
  <2> QED BY <2>1, <2>3 DEF Same
<1>8. ASSUME id = "Client", o \in w.mapped
      PROVE  \E p \in DOMAIN z : z[p].kind = "Created" /\ z[p].o = o
  <2>1. CASE o \in v.mapped
    BY <2>1, <1>3, <1>8 DEF Named, x
  <2>2. CASE o \notin v.mapped
    BY <2>2, <1>3, <1>8 DEF NamesWell
  <2> QED BY <2>1, <2>2
<1>9. ASSUME id = "Server", o \notin w.mapped, NEW i \in ContentOf(w, o)
      PROVE  i.op = "Update" /\ (i \in Elems(w.queue) => ~i.client)
  <2>1. PICK j \in ContentOf(v, o) :
               /\ Same(i, j)
               /\ \/ i \in Elems(w.queue) /\ j \in Elems(v.queue) /\ StemsFrom(i, j, D)
                  \/ i \in w.sent \ v.sent /\ j \in Elems(v.queue) /\ SentFrom(i, j, D, w.mapped)
                  \/ i \in v.sent /\ j = i
    BY <1>1
  <2>2. j.op = "Update" /\ (j \in Elems(v.queue) => ~j.client)
    BY <1>2, <1>9 DEF Named
  <2>3. ASSUME i \in Elems(w.queue) PROVE i \notin v.sent
    <3>1. v.sent \subseteq w.sent
      BY DEF Evolves
    <3>2. i \notin w.sent
      BY <2>3, OneItem DEF Pending
    <3> QED BY <3>1, <3>2
  <2>4. i \in Elems(w.queue) => i \notin w.sent
    BY OneItem DEF Pending
  <2> QED BY <2>1, <2>2, <2>3, <2>4 DEF Same
<1>10. ASSUME NEW p \in DOMAIN z, z[p].o = o
       PROVE  /\ z[p].kind = "Created" => o \in w.mapped
              /\ z[p].kind = "Rejected" => o \notin Preferences /\ id \notin {"None", "Client"}
  <2>1. CASE p \in DOMAIN x /\ z[p] = x[p]
    BY <2>1, <1>2, <1>10 DEF Named, x
  <2>2. CASE \E k \in DOMAIN ys : z[p] = ys[k]
    BY <2>2, <1>10 DEF NamesWell
  <2> QED BY <2>1, <2>2, <1>5
<1> QED
  BY <1>4, <1>6, <1>7, <1>8, <1>9, <1>10 DEF Named

\* One step of the queue, with its events.
Moves(v, w, N, D, o, id, ys) ==
    /\ QueueOK(v, N) /\ QueueOK(w, N) /\ Evolves(v, w, D) /\ Fresh(v, D)
    /\ ys \in Seq(Events) /\ w.events = v.events \o ys /\ NamesWell(v, w, o, id, ys)

\* The events tell of what is no longer pending, but for what is left to tell.
Tells(v, w, o, ys, owed, left) ==
    /\ left \subseteq owed
    /\ TellsOnce(ys, o, Waiting(w, o) \cup left)
    /\ Announced(ys, o) = (Waiting(v, o) \cup owed) \ (Waiting(w, o) \cup left)

Carries(v, w, o, id, owed, left) ==
    InOrder(w, o, id, left) /\ Live(w, o) \cup left = Live(v, o) \cup owed

LEMMA Carried ==
    ASSUME NEW v, NEW w, NEW N, NEW D, NEW o, NEW id, NEW owed, NEW left, NEW ys,
           Moves(v, w, N, D, o, id, ys), Tells(v, w, o, ys, owed, left), InOrder(v, o, id, owed)
    PROVE  Carries(v, w, o, id, owed, left)
<1> USE DEF Moves, Tells
<1>1. Chained(w, o) /\ Waiting(w, o) \subseteq Waiting(v, o)
  BY ChainedKept DEF InOrder
<1>2. Named(w, o, id)
  BY NamedKept DEF InOrder
<1>3. Waiting(w, o) \cap left = {}
  BY <1>1 DEF InOrder
<1> DEFINE U == Waiting(v, o) \cup owed
           W == Waiting(w, o) \cup left
<1>4. W \subseteq U /\ Announced(ys, o) = U \ W /\ TellsOnce(ys, o, W) /\ TellsOnce(v.events, o, U)
  BY <1>1 DEF InOrder
<1> HIDE DEF U, W
<1>5. v.events \in Seq(Events)
  BY DEF QueueOK, SyncQueues
<1>6. /\ TellsOnce(w.events, o, W)
      /\ Announced(w.events, o) = Announced(v.events, o) \cup Announced(ys, o)
  <2>1. PICK x : x = v.events
    OBVIOUS
  <2>2. /\ TellsOnce(x \o ys, o, W)
        /\ Announced(x \o ys, o) = Announced(x, o) \cup Announced(ys, o)
    BY <1>4, <1>5, <2>1, TellsJoin
  <2> QED BY <2>1, <2>2
<1>7. W \cup Announced(w.events, o) = U \cup Announced(v.events, o)
  BY <1>4, <1>6
<1> QED
  BY <1>1, <1>2, <1>3, <1>6, <1>7 DEF InOrder, Live, U, W, Carries

-----------------------------------------------------------------------------
(* Which items the functions of the queue keep, and what they tell of the  *)
(* others.                                                                 *)

Keeps(v, w) == \A j \in Pending(v) : \E i \in Pending(w) : Same(i, j)

LEMMA KeptInPlace ==
    ASSUME NEW v, NEW w, w.sent = v.sent, DOMAIN w.queue = DOMAIN v.queue,
           \A k \in DOMAIN v.queue : Same(w.queue[k], v.queue[k])
    PROVE  Keeps(v, w)
<1>1. \A r : Same(r, r)
  BY DEF Same
<1> QED
  BY <1>1 DEF Keeps, Pending, Elems

LEMMA KeepsTransitive ==
    ASSUME NEW u, NEW v, NEW w, Keeps(u, v), Keeps(v, w)
    PROVE  Keeps(u, w)
<1>1. SUFFICES ASSUME NEW j \in Pending(u) PROVE \E i \in Pending(w) : Same(i, j)
  BY DEF Keeps
<1>2. PICK k \in Pending(v) : Same(k, j)
  BY DEF Keeps
<1>3. PICK i \in Pending(w) : Same(i, k)
  BY DEF Keeps
<1>4. Same(i, j)
  BY <1>2, <1>3 DEF Same
<1> QED
  BY <1>4

LEMMA InPlaceKeeps ==
    ASSUME NEW v, NEW N \in Nat, QueueOK(v, N)
    PROVE  /\ \A d : Keeps(v, Release(v, d))
           /\ \A o, rev : Keeps(v, WithNewRevision(v, o, rev))
           /\ \A o, d : Keeps(v, [Renamed(v, o, d) EXCEPT !.mapped = @ \cup {o}])
           /\ \A e : Keeps(v, Emit(v, e))
<1>1. v \in SyncQueues /\ \A k \in DOMAIN v.queue : v.queue[k] \in Items
  BY DEF QueueOK, SyncQueues
<1>2. \A i, j : i = j => Same(i, j)
  BY DEF Same
<1>3. ASSUME NEW d PROVE Keeps(v, Release(v, d))
  <2> DEFINE q == [k \in DOMAIN v.queue |-> [v.queue[k] EXCEPT !.deps = @ \ {d}]]
             w == [v EXCEPT !.queue = q]
  <2>1. Release(v, d) = w
    BY DEF Release
  <2>2. \A k \in DOMAIN v.queue : Same(q[k], v.queue[k])
    BY <1>1 DEF Same, Items
  <2>3. DOMAIN q = DOMAIN v.queue
    OBVIOUS
  <2> HIDE DEF q
  <2>4. w.queue = q /\ w.sent = v.sent
    BY <1>1 DEF SyncQueues
  <2> HIDE DEF w
  <2>5. Keeps(v, w)
    BY <2>2, <2>3, <2>4, KeptInPlace
  <2> QED BY <2>1, <2>5
<1>4. ASSUME NEW o, NEW rev PROVE Keeps(v, WithNewRevision(v, o, rev))
  <2> DEFINE current(i) == i.op = "Update" /\ i.objs[1] = o /\ (i.client => o \in v.mapped)
             q == [k \in DOMAIN v.queue |->
                      IF current(v.queue[k]) THEN [v.queue[k] EXCEPT !.rev = rev] ELSE v.queue[k]]
             w == [v EXCEPT !.queue = q]
  <2>1. WithNewRevision(v, o, rev) = w
    BY DEF WithNewRevision
  <2> HIDE DEF current
  <2>2. \A k \in DOMAIN v.queue : Same(q[k], v.queue[k])
    BY <1>1 DEF Same, Items
  <2>3. DOMAIN q = DOMAIN v.queue
    OBVIOUS
  <2> HIDE DEF q
  <2>4. w.queue = q /\ w.sent = v.sent
    BY <1>1 DEF SyncQueues
  <2> HIDE DEF w
  <2>5. Keeps(v, w)
    BY <2>2, <2>3, <2>4, KeptInPlace
  <2> QED BY <2>1, <2>5
<1>5. ASSUME NEW o, NEW d PROVE Keeps(v, [Renamed(v, o, d) EXCEPT !.mapped = @ \cup {o}])
  <2> DEFINE q == IF o \notin Enums THEN v.queue
                  ELSE [k \in DOMAIN v.queue |->
                          IF d \in v.queue[k].deps THEN [v.queue[k] EXCEPT !.refs = @ \ {o}]
                          ELSE v.queue[k]]
             w == [v EXCEPT !.queue = q, !.mapped = @ \cup {o}]
  <2>1. [Renamed(v, o, d) EXCEPT !.mapped = @ \cup {o}] = w
    BY <1>1 DEF Renamed, SyncQueues
  <2>2. \A k \in DOMAIN v.queue : Same(q[k], v.queue[k])
    BY <1>1 DEF Same, Items
  <2>3. DOMAIN q = DOMAIN v.queue
    OBVIOUS
  <2> HIDE DEF q
  <2>4. w.queue = q /\ w.sent = v.sent
    BY <1>1 DEF SyncQueues
  <2> HIDE DEF w
  <2>5. Keeps(v, w)
    BY <2>2, <2>3, <2>4, KeptInPlace
  <2> QED BY <2>1, <2>5
<1>6. ASSUME NEW e PROVE Keeps(v, Emit(v, e))
  <2>1. Emit(v, e).queue = v.queue /\ Emit(v, e).sent = v.sent
    BY <1>1 DEF Emit, SyncQueues
  <2>2. \A k \in DOMAIN v.queue : Same(v.queue[k], v.queue[k])
    BY <1>2
  <2> DEFINE w == Emit(v, e)
  <2> HIDE DEF w
  <2>3. w.queue = v.queue /\ w.sent = v.sent
    BY <2>1 DEF w
  <2>4. Keeps(v, w)
    BY <2>2, <2>3, KeptInPlace
  <2> QED BY <2>4 DEF w
<1> QED
  BY <1>3, <1>4, <1>5, <1>6

\* The events ys tell of the failures of the items that left the queue, each once.
Reports(v, w, ys) ==
    /\ ys \in Seq(Events)
    /\ \A k \in DOMAIN ys :
          /\ ys[k].kind = "Failed"
          /\ \A l \in DOMAIN ys : ys[k].n = ys[l].n => k = l
          /\ \E j \in Elems(v.queue) :
                /\ IsContent(j) /\ j.objs = <<ys[k].o>> /\ j.n = ys[k].n
                /\ \A i \in Pending(w) : i.n # j.n
    /\ \A j \in Elems(v.queue) : IsContent(j) =>
          \/ \E i \in Pending(w) : Same(i, j)
          \/ \E k \in DOMAIN ys : ys[k] = FailureOf(j) /\ j.objs = <<ys[k].o>>

LEMMA ReportsTell ==
    ASSUME NEW v, NEW w, NEW N, NEW M, NEW D, QueueOK(v, N), QueueOK(w, M), Evolves(v, w, D),
           NEW ys, Reports(v, w, ys), NEW o
    PROVE  /\ Announced(ys, o) = Waiting(v, o) \ Waiting(w, o)
           /\ \A rest : rest \cap Announced(ys, o) = {} => TellsOnce(ys, o, rest)
           /\ \A k \in DOMAIN ys : ys[k].kind = "Failed"
<1>1. \A k \in DOMAIN ys :
          /\ ys[k].kind = "Failed"
          /\ \A l \in DOMAIN ys : ys[k].n = ys[l].n => k = l
  BY DEF Reports
<1>2. ASSUME NEW k \in DOMAIN ys, About(ys[k], o)
      PROVE  ys[k].n \in Waiting(v, o) \ Waiting(w, o)
  <2>1. PICK j \in Elems(v.queue) :
                /\ IsContent(j) /\ j.objs = <<ys[k].o>> /\ j.n = ys[k].n
                /\ \A i \in Pending(w) : i.n # j.n
    BY DEF Reports
  <2>2. o \in Elems(j.objs)
    BY <1>2, <2>1 DEF About, Elems
  <2>3. j \in ContentOf(v, o)
    BY <2>1, <2>2 DEF ContentOf, Pending
  <2> QED BY <2>1, <2>3 DEF Waiting, ContentOf
<1>3. ASSUME NEW n \in Waiting(v, o), n \notin Waiting(w, o) PROVE n \in Announced(ys, o)
  <2>1. PICK j \in ContentOf(v, o) : j.n = n
    BY DEF Waiting
  <2>2. ASSUME NEW i \in Pending(w), Same(i, j) PROVE FALSE
    <3>1. i \in ContentOf(w, o)
      BY <2>1, <2>2 DEF ContentOf, Same, IsContent
    <3> QED BY <3>1, <2>1, <2>2, <1>3 DEF Waiting, Same
  <2>3. j \in Elems(v.queue)
    <3>1. j \notin v.sent
      <4>1. SUFFICES ASSUME j \in v.sent PROVE FALSE
        OBVIOUS
      <4>2. j \in Pending(w) /\ Same(j, j)
        BY <4>1 DEF Evolves, Pending, Same
      <4> QED BY <4>2, <2>2
    <3> QED BY <3>1 DEF ContentOf, Pending
  <2>4. PICK k \in DOMAIN ys : ys[k] = FailureOf(j) /\ j.objs = <<ys[k].o>>
    BY <2>2, <2>3 DEF Reports, ContentOf
  <2>5. o = ys[k].o /\ ys[k].n = n
    <3>1. o \in Elems(j.objs) /\ j.objs = <<ys[k].o>>
      BY <2>4 DEF ContentOf
    <3>2. o = ys[k].o
      BY <3>1 DEF Elems
    <3>3. FailureOf(j).n = j.n
      BY DEF FailureOf, Event
    <3> QED BY <2>1, <2>4, <3>2, <3>3
  <2>6. About(ys[k], o)
    BY <1>1, <2>5 DEF About, Settling
  <2> QED BY <2>5, <2>6 DEF Announced
<1>4. Announced(ys, o) = Waiting(v, o) \ Waiting(w, o)
  BY <1>2, <1>3 DEF Announced
<1>5. ASSUME NEW rest, rest \cap Announced(ys, o) = {} PROVE TellsOnce(ys, o, rest)
  BY <1>1, <1>5 DEF TellsOnce, Announced
<1> QED
  BY <1>1, <1>4, <1>5

\* What depends on ds fails, and the events tell of it before those of es.
LEMMA FailReports ==
    ASSUME NEW v, NEW N \in Nat, QueueOK(v, N), NEW ds, NEW es \in Seq(Events)
    PROVE  \E fs : /\ Reports(v, Fail(v, ds, es), fs)
                   /\ Fail(v, ds, es).events = v.events \o fs \o es
<1> DEFINE doomed == DependentsOf(v, ds)
           failures == Filter(v.queue, doomed)
           fs == [k \in DOMAIN failures |-> FailureOf(failures[k])]
           left == Filter(v.queue, Elems(v.queue) \ doomed)
           w == [v EXCEPT !.queue = left, !.events = @ \o fs \o es]
<1>1. Fail(v, ds, es) = w
  BY DEF Fail
<1>2. /\ v \in SyncQueues /\ NumbersDiffer(v) /\ (\A i \in Elems(v.queue) : WaitOK(i))
      /\ \A i \in Pending(v) : ItemOK(i, N)
  BY DEF QueueOK
<1>3. v.queue \in Seq(Items) /\ v.events \in Seq(Events)
  BY <1>2 DEF SyncQueues
<1>4. doomed \subseteq Elems(v.queue) /\ \A i \in doomed : i.deps # {}
  BY DependentsProperties
<1> HIDE DEF doomed
<1>5. \A j, k \in DOMAIN v.queue : v.queue[j].n = v.queue[k].n => j = k
  BY <1>2 DEF NumbersDiffer
<1>6. Elems(left) = Elems(v.queue) \ doomed
  <2> DEFINE S == Elems(v.queue) \ doomed
  <2>1. Elems(v.queue) \cap S = S
    OBVIOUS
  <2> HIDE DEF S
  <2>2. /\ Filter(v.queue, S) \in Seq(Items) /\ Elems(Filter(v.queue, S)) = Elems(v.queue) \cap S
        /\ \A j, k \in DOMAIN Filter(v.queue, S) :
               Filter(v.queue, S)[j].n = Filter(v.queue, S)[k].n => j = k
    BY <1>3, <1>5, FilteredItems
  <2> QED BY <2>1, <2>2 DEF S
<1>7. /\ failures \in Seq(Items) /\ Elems(failures) = Elems(v.queue) \cap doomed
      /\ \A j, k \in DOMAIN failures : failures[j].n = failures[k].n => j = k
  BY <1>3, <1>5, FilteredItems
<1> HIDE DEF left, failures
<1>8. fs \in Seq(Events) /\ DOMAIN fs = DOMAIN failures
  BY <1>7, FailureEvents
<1>9. \A k \in DOMAIN fs : fs[k] = FailureOf(failures[k])
  OBVIOUS
<1> HIDE DEF fs
<1>10. w.queue = left /\ w.sent = v.sent /\ w.events = v.events \o fs \o es
  BY <1>2 DEF SyncQueues
<1> HIDE DEF w
<1>11. ASSUME NEW j \in Elems(v.queue), j \in doomed
       PROVE  /\ IsContent(j) /\ j.objs = <<j.objs[1]>>
              /\ FailureOf(j).n = j.n /\ FailureOf(j).o = j.objs[1] /\ FailureOf(j).kind = "Failed"
  <2>1. j \in Items /\ j.op \notin {"Bulk", "Record"} /\ Len(j.objs) = 1
    <3>1. j \in Items
      BY <1>3, ElemsType
    <3>2. j.op \notin {"Bulk", "Record"}
      BY <1>2, <1>4, <1>11 DEF WaitOK
    <3> QED BY <3>1, <3>2, <1>2 DEF Pending, ItemOK
  <2>2. j.objs = <<j.objs[1]>>
    BY <2>1 DEF Items, ObjectLists
  <2>3. IsContent(j)
    BY <2>1 DEF IsContent, Creations, Items, Operations
  <2> QED BY <2>2, <2>3 DEF FailureOf, Event
<1>12. ASSUME NEW j \in Elems(v.queue), j \in doomed, NEW i \in Pending(w) PROVE i.n # j.n
  <2>1. i \in Pending(v) /\ j \in Pending(v)
    BY <1>6, <1>10 DEF Pending
  <2>2. i # j
    <3>1. j \notin v.sent
      BY <1>2, <1>12 DEF NumbersDiffer
    <3> QED BY <3>1, <1>6, <1>10, <1>12 DEF Pending
  <2> QED BY <2>1, <2>2, OneItem
<1>13. ASSUME NEW k \in DOMAIN fs
       PROVE  /\ fs[k].kind = "Failed"
              /\ \A l \in DOMAIN fs : fs[k].n = fs[l].n => k = l
              /\ \E j \in Elems(v.queue) :
                    /\ IsContent(j) /\ j.objs = <<fs[k].o>> /\ j.n = fs[k].n
                    /\ \A i \in Pending(w) : i.n # j.n
  <2>1. \A l \in DOMAIN fs : failures[l] \in Elems(v.queue) /\ failures[l] \in doomed
    BY <1>7, <1>8 DEF Elems
  <2>2. \A l \in DOMAIN fs : fs[l].n = failures[l].n
    BY <2>1, <1>9, <1>11
  <2>3. fs[k].kind = "Failed" /\ failures[k].objs = <<fs[k].o>> /\ IsContent(failures[k])
    BY <2>1, <1>9, <1>11
  <2>4. \A l \in DOMAIN fs : fs[k].n = fs[l].n => k = l
    BY <2>2, <1>7, <1>8
  <2>5. \A i \in Pending(w) : i.n # failures[k].n
    BY <2>1, <1>12
  <2> QED BY <2>1, <2>2, <2>3, <2>4, <2>5
<1>14. ASSUME NEW j \in Elems(v.queue), IsContent(j)
       PROVE  \/ \E i \in Pending(w) : Same(i, j)
              \/ \E k \in DOMAIN fs : fs[k] = FailureOf(j) /\ j.objs = <<fs[k].o>>
  <2>1. CASE j \in doomed
    <3>1. PICK k \in DOMAIN fs : failures[k] = j
      BY <2>1, <1>7, <1>8 DEF Elems
    <3> QED BY <2>1, <3>1, <1>9, <1>11
  <2>2. CASE j \notin doomed
    <3>1. j \in Pending(w) /\ Same(j, j)
      BY <2>2, <1>6, <1>10 DEF Pending, Same
    <3> QED BY <3>1
  <2> QED BY <2>1, <2>2
<1>15. Reports(v, w, fs)
  BY <1>8, <1>13, <1>14 DEF Reports
<1> QED
  BY <1>1, <1>10, <1>15

LEMMA DequeueReports ==
    ASSUME NEW v, NEW N \in Nat, QueueOK(v, N)
    PROVE  \E ys : /\ Reports(v, Dequeue(v), ys)
                   /\ Dequeue(v).events = v.events \o ys
<1>1. CASE ~v.running
  <2>1. Dequeue(v) = v
    BY <1>1 DEF Dequeue
  <2>2. \A j : Same(j, j)
    BY DEF Same
  <2>3. Reports(v, v, <<>>)
    BY <2>2 DEF Reports, Pending
  <2>4. v.events \in Seq(Events)
    BY DEF QueueOK, SyncQueues
  <2>5. v.events \o <<>> = v.events
    BY <2>4
  <2> QED BY <2>1, <2>3, <2>5
<1>2. CASE v.running
  <2>1. PICK u, failing :
              /\ failing \in Seq(Items)
              /\ Dequeue(v) = Fail(u, {<<i.n, NoObject>> : i \in Elems(failing)},
                                   [k \in DOMAIN failing |-> FailureOf(failing[k])])
              /\ QueueOK(u, N) /\ Elems(u.queue) \subseteq Elems(v.queue) /\ v.sent \subseteq u.sent
              /\ u.events = v.events
              /\ \A i \in Elems(failing) : /\ i \in Elems(v.queue) /\ i.op = "Update"
                                           /\ \A j \in Pending(u) : i.n # j.n
              /\ \A j, k \in DOMAIN failing : failing[j].n = failing[k].n => j = k
              /\ \A j \in Elems(v.queue) :
                    j.op = "Record" \/ j \in Elems(failing) \/ \E i \in Pending(u) : Same(i, j)
    BY <1>2, DequeueParts
  <2> DEFINE ds == {<<i.n, NoObject>> : i \in Elems(failing)}
             es == [k \in DOMAIN failing |-> FailureOf(failing[k])]
             w == Fail(u, ds, es)
  <2>2. es \in Seq(Events) /\ DOMAIN es = DOMAIN failing
    BY <2>1, FailureEvents
  <2>3. \A k \in DOMAIN es : es[k] = FailureOf(failing[k])
    OBVIOUS
  <2>4. Dequeue(v) = w
    BY <2>1
  <2> HIDE DEF ds, es
  <2>5. PICK fs : Reports(u, w, fs) /\ w.events = u.events \o fs \o es
    <3>1. PICK a, b : a = ds /\ b = es
      OBVIOUS
    <3>2. QueueOK(u, N) /\ b \in Seq(Events)
      BY <2>1, <2>2, <3>1
    <3>3. \E fs : /\ Reports(u, Fail(u, a, b), fs)
                  /\ Fail(u, a, b).events = u.events \o fs \o b
      BY <3>2, FailReports
    <3> QED BY <3>1, <3>3
  <2>6. /\ w.sent = u.sent /\ Elems(w.queue) \subseteq Elems(u.queue) /\ Evolves(u, w, {})
    BY <2>1, <2>2, FailOK
  <2> HIDE DEF w
  <2> DEFINE ys == fs \o es
             m == Len(fs)
  <2>7. fs \in Seq(Events)
    BY <2>5 DEF Reports
  <2>8. /\ ys \in Seq(Events) /\ m \in Nat
        /\ \A p \in DOMAIN ys : p \in Nat
        /\ \A p \in DOMAIN ys : p \in DOMAIN fs \/ p - m \in DOMAIN es
        /\ \A p \in DOMAIN fs : p \in DOMAIN ys /\ ys[p] = fs[p] /\ p <= m
        /\ \A p \in DOMAIN es : /\ p + m \in DOMAIN ys /\ ys[p + m] = es[p] /\ p > 0 /\ p \in Nat
    BY <2>2, <2>7, JoinedEvents
  <2>9. w.events = v.events \o ys
    <3>1. PICK x : x = v.events
      OBVIOUS
    <3>2. x \in Seq(Events)
      BY <3>1 DEF QueueOK, SyncQueues
    <3>3. (x \o fs) \o es = x \o (fs \o es)
      BY <3>2, <2>2, <2>7
    <3> QED BY <3>1, <3>3, <2>1, <2>5
  <2> HIDE DEF ys, m
  <2>10. \A p \in DOMAIN ys :
            \/ p \in DOMAIN fs /\ ys[p] = fs[p]
            \/ \E k \in DOMAIN es : p = k + m /\ ys[p] = es[k]
    <3>1. SUFFICES ASSUME NEW p \in DOMAIN ys, p \notin DOMAIN fs
                   PROVE  \E k \in DOMAIN es : p = k + m /\ ys[p] = es[k]
      BY <2>8
    <3>2. PICK k \in DOMAIN es : k = p - m
      BY <3>1, <2>8
    <3>3. p = k + m
      BY <3>1, <3>2, <2>8
    <3> QED BY <3>3, <2>8
  <2>11. ASSUME NEW k \in DOMAIN es
         PROVE  /\ failing[k] \in Elems(failing) /\ failing[k] \in Elems(v.queue)
                /\ IsContent(failing[k]) /\ failing[k].objs = <<es[k].o>>
                /\ es[k].n = failing[k].n /\ es[k].kind = "Failed"
                /\ \A j \in Pending(u) : es[k].n # j.n
    <3>1. failing[k] \in Elems(failing)
      BY <2>2 DEF Elems
    <3>2. /\ failing[k] \in Elems(v.queue) /\ failing[k].op = "Update"
          /\ \A j \in Pending(u) : failing[k].n # j.n
      BY <3>1, <2>1
    <3>3. failing[k] \in Items /\ Len(failing[k].objs) = 1
      BY <2>1, <2>2, <3>2 DEF QueueOK, ItemOK, Pending
    <3>4. failing[k].objs = <<failing[k].objs[1]>>
      BY <3>3 DEF Items, ObjectLists
    <3>5. /\ es[k].n = failing[k].n /\ es[k].kind = "Failed" /\ es[k].o = failing[k].objs[1]
      BY <2>3 DEF FailureOf, Event
    <3> QED BY <3>1, <3>2, <3>4, <3>5 DEF IsContent
  <2>12. ASSUME NEW k \in DOMAIN fs
         PROVE  /\ fs[k].kind = "Failed"
                /\ \A l \in DOMAIN fs : fs[k].n = fs[l].n => k = l
                /\ \E j \in Elems(u.queue) :
                      /\ IsContent(j) /\ j.objs = <<fs[k].o>> /\ j.n = fs[k].n
                      /\ \A i \in Pending(w) : i.n # j.n
    BY <2>5 DEF Reports
  <2>13. Pending(w) \subseteq Pending(u)
    BY <2>6 DEF Pending
  <2>14. \A k \in DOMAIN fs, l \in DOMAIN es : fs[k].n # es[l].n
    <3>1. SUFFICES ASSUME NEW k \in DOMAIN fs, NEW l \in DOMAIN es PROVE fs[k].n # es[l].n
      OBVIOUS
    <3>2. PICK j \in Elems(u.queue) : j.n = fs[k].n
      BY <2>12
    <3>3. j \in Pending(u)
      BY DEF Pending
    <3> QED BY <3>2, <3>3, <2>11
  <2>15. \A k, l \in DOMAIN es : es[k].n = es[l].n => k = l
    BY <2>1, <2>2, <2>11
  <2>16. ASSUME NEW p \in DOMAIN ys
         PROVE  /\ ys[p].kind = "Failed"
                /\ \A q \in DOMAIN ys : ys[p].n = ys[q].n => p = q
                /\ \E j \in Elems(v.queue) :
                      /\ IsContent(j) /\ j.objs = <<ys[p].o>> /\ j.n = ys[p].n
                      /\ \A i \in Pending(w) : i.n # j.n
    <3>1. CASE p \in DOMAIN fs /\ ys[p] = fs[p]
      <4>1. ys[p].kind = "Failed"
        BY <3>1, <2>12
      <4>2. PICK j \in Elems(u.queue) :
                      /\ IsContent(j) /\ j.objs = <<ys[p].o>> /\ j.n = ys[p].n
                      /\ \A i \in Pending(w) : i.n # j.n
        BY <3>1, <2>12
      <4>3. j \in Elems(v.queue)
        BY <2>1
      <4>4. \A q \in DOMAIN ys : ys[p].n = ys[q].n => p = q
        BY <3>1, <2>10, <2>12, <2>14
      <4> QED BY <4>1, <4>2, <4>3, <4>4
    <3>2. CASE \E k \in DOMAIN es : p = k + m /\ ys[p] = es[k]
      <4>1. PICK k \in DOMAIN es : p = k + m /\ ys[p] = es[k]
        BY <3>2
      <4>2. \A i \in Pending(w) : i.n # failing[k].n
        BY <2>11, <2>13
      <4>3. \A q \in DOMAIN ys : ys[p].n = ys[q].n => p = q
        <5>1. SUFFICES ASSUME NEW q \in DOMAIN ys, ys[p].n = ys[q].n PROVE p = q
          OBVIOUS
        <5>2. CASE q \in DOMAIN fs /\ ys[q] = fs[q]
          BY <4>1, <5>1, <5>2, <2>14
        <5>3. CASE \E l \in DOMAIN es : q = l + m /\ ys[q] = es[l]
          BY <4>1, <5>1, <5>3, <2>15
        <5> QED BY <5>2, <5>3, <2>10
      <4> QED BY <4>1, <4>2, <4>3, <2>11
    <3> QED BY <3>1, <3>2, <2>10
  <2>17. ASSUME NEW j \in Elems(v.queue), IsContent(j)
         PROVE  \/ \E i \in Pending(w) : Same(i, j)
                \/ \E k \in DOMAIN ys : ys[k] = FailureOf(j) /\ j.objs = <<ys[k].o>>
    <3>1. j.op # "Record"
      BY <2>17 DEF IsContent, Creations
    <3>2. CASE j \in Elems(failing)
      <4>1. PICK k \in DOMAIN es : failing[k] = j
        BY <3>2, <2>2 DEF Elems
      <4>2. k + m \in DOMAIN ys /\ ys[k + m] = es[k]
        BY <2>8
      <4> QED BY <4>1, <4>2, <2>3, <2>11
    <3>3. ASSUME NEW i \in Pending(u), Same(i, j)
          PROVE  \/ \E k \in Pending(w) : Same(k, j)
                 \/ \E k \in DOMAIN ys : ys[k] = FailureOf(j) /\ j.objs = <<ys[k].o>>
      <4>1. IsContent(i) /\ FailureOf(i) = FailureOf(j) /\ i.objs = j.objs
        BY <3>3, <2>17 DEF Same, IsContent, FailureOf
      <4>2. CASE i \in u.sent
        BY <4>2, <3>3, <2>6 DEF Pending
      <4>3. CASE i \in Elems(u.queue) /\ \E k \in Pending(w) : Same(k, i)
        BY <4>3, <3>3 DEF Same
      <4>4. ASSUME NEW k \in DOMAIN fs, fs[k] = FailureOf(i), i.objs = <<fs[k].o>>
            PROVE  \E l \in DOMAIN ys : ys[l] = FailureOf(j) /\ j.objs = <<ys[l].o>>
        BY <4>1, <4>4, <2>8
      <4>5. i \in Elems(u.queue) =>
               \/ \E k \in Pending(w) : Same(k, i)
               \/ \E k \in DOMAIN fs : fs[k] = FailureOf(i) /\ i.objs = <<fs[k].o>>
        BY <4>1, <2>5 DEF Reports
      <4> QED BY <4>2, <4>3, <4>4, <4>5 DEF Pending
    <3> QED BY <3>1, <3>2, <3>3, <2>1
  <2>18. Reports(v, w, ys)
    BY <2>8, <2>16, <2>17 DEF Reports
  <2> QED BY <2>4, <2>9, <2>18
<1>3. v.running \in BOOLEAN
  BY DEF QueueOK, SyncQueues
<1> QED
  BY <1>1, <1>2, <1>3

-----------------------------------------------------------------------------
(* What is under way is carried along.                                     *)

LEMMA CarriesThen ==
    ASSUME NEW u, NEW v, NEW w, NEW o, NEW id, NEW a, NEW b, NEW c,
           Carries(u, v, o, id, a, b), Carries(v, w, o, id, b, c)
    PROVE  Carries(u, w, o, id, a, c)
BY DEF Carries

LEMMA DequeueCarries ==
    ASSUME NEW v, NEW N \in Nat, QueueOK(v, N), NEW o, NEW id, NEW owed, InOrder(v, o, id, owed)
    PROVE  QueueOK(Dequeue(v), N) /\ Carries(v, Dequeue(v), o, id, owed, owed)
<1>1. PICK w : w = Dequeue(v)
  OBVIOUS
<1>2. QueueOK(w, N) /\ Evolves(v, w, {}) /\ w.mapped = v.mapped
  BY <1>1, DequeueOK
<1>3. PICK ys : Reports(v, w, ys) /\ w.events = v.events \o ys
  BY <1>1, DequeueReports
<1>4. /\ Announced(ys, o) = Waiting(v, o) \ Waiting(w, o)
      /\ \A rest : rest \cap Announced(ys, o) = {} => TellsOnce(ys, o, rest)
      /\ \A k \in DOMAIN ys : ys[k].kind = "Failed"
  BY <1>2, <1>3, ReportsTell
<1>5. Waiting(v, o) \cap owed = {}
  BY DEF InOrder
<1>6. TellsOnce(ys, o, Waiting(w, o) \cup owed)
  BY <1>4, <1>5
<1>7. Announced(ys, o) = (Waiting(v, o) \cup owed) \ (Waiting(w, o) \cup owed)
  BY <1>4, <1>5
<1>8. NamesWell(v, w, o, id, ys)
  BY <1>2, <1>4 DEF NamesWell
<1>9. Moves(v, w, N, {}, o, id, ys)
  BY <1>2, <1>3, <1>8 DEF Moves, Reports, Fresh
<1>10. Tells(v, w, o, ys, owed, owed)
  BY <1>6, <1>7 DEF Tells
<1>11. Carries(v, w, o, id, owed, owed)
  BY <1>9, <1>10, Carried
<1> QED
  BY <1>1, <1>2, <1>11

LEMMA FailCarries ==
    ASSUME NEW v, NEW N \in Nat, QueueOK(v, N), NEW o, NEW id, NEW owed, InOrder(v, o, id, owed),
           NEW ds, NEW es \in Seq(Events),
           \A k \in DOMAIN es : es[k].kind \notin {"Created", "Rejected"},
           Announced(es, o) = owed, TellsOnce(es, o, Waiting(Fail(v, ds, es), o))
    PROVE  Carries(v, Fail(v, ds, es), o, id, owed, {})
<1>1. PICK w : w = Fail(v, ds, es)
  OBVIOUS
<1>2. QueueOK(w, N) /\ Evolves(v, w, {}) /\ w.mapped = v.mapped
  BY <1>1, FailOK
<1>3. PICK fs : Reports(v, w, fs) /\ w.events = v.events \o fs \o es
  <2>1. \E fs : /\ Reports(v, Fail(v, ds, es), fs)
                /\ Fail(v, ds, es).events = v.events \o fs \o es
    BY FailReports
  <2> QED BY <1>1, <2>1
<1>4. /\ Announced(fs, o) = Waiting(v, o) \ Waiting(w, o)
      /\ \A rest : rest \cap Announced(fs, o) = {} => TellsOnce(fs, o, rest)
      /\ \A k \in DOMAIN fs : fs[k].kind = "Failed"
  <2>1. QueueOK(v, N) /\ QueueOK(w, N) /\ Evolves(v, w, {}) /\ Reports(v, w, fs)
    BY <1>2, <1>3
  <2> QED BY <2>1, ReportsTell
<1>5. Waiting(v, o) \cap owed = {} /\ Waiting(w, o) \subseteq Waiting(v, o)
  <2>1. Fresh(v, {})
    BY DEF Fresh
  <2> QED BY <1>2, <2>1, ChainedKept DEF InOrder
<1>6. fs \in Seq(Events)
  BY <1>3 DEF Reports
<1> DEFINE U == Waiting(w, o) \cup owed
           W == Waiting(w, o)
           ys == fs \o es
<1>7. /\ TellsOnce(fs, o, U) /\ TellsOnce(es, o, W)
      /\ Announced(es, o) = U \ W /\ W \subseteq U
  BY <1>1, <1>4, <1>5
<1> HIDE DEF U, W
<1>8. TellsOnce(ys, o, W) /\ Announced(ys, o) = Announced(fs, o) \cup Announced(es, o)
  BY <1>6, <1>7, TellsJoin
<1>9. ys \in Seq(Events) /\ w.events = v.events \o ys
  <2>1. PICK x : x = v.events
    OBVIOUS
  <2>2. x \in Seq(Events)
    BY <2>1 DEF QueueOK, SyncQueues
  <2>3. (x \o fs) \o es = x \o (fs \o es)
    BY <2>2, <1>6
  <2>4. ys \in Seq(Events)
    BY <1>6
  <2> QED BY <2>1, <2>3, <2>4, <1>3
<1>10. NamesWell(v, w, o, id, ys)
  <2>1. \A p \in DOMAIN ys : ys[p] \in Elems(fs) \cup Elems(es)
    BY <1>6, ConcatElems DEF Elems
  <2>2. \A p \in DOMAIN ys : ys[p].kind \notin {"Created", "Rejected"}
    BY <2>1, <1>4 DEF Elems
  <2> QED BY <2>2, <1>2 DEF NamesWell
<1> HIDE DEF ys
<1>11. TellsOnce(ys, o, Waiting(w, o) \cup {})
  BY <1>8 DEF W
<1>12. Announced(ys, o) = (Waiting(v, o) \cup owed) \ (Waiting(w, o) \cup {})
  BY <1>4, <1>5, <1>8
<1>13. Moves(v, w, N, {}, o, id, ys)
  BY <1>2, <1>9, <1>10 DEF Moves, Fresh
<1>14. Tells(v, w, o, ys, owed, {})
  BY <1>11, <1>12 DEF Tells
<1>15. Carries(v, w, o, id, owed, {})
  BY <1>13, <1>14, Carried
<1> QED
  BY <1>1, <1>15

(***************************************************************************)
(* The step that ends one item: the queue changes in place, and one event  *)
(* is emitted.                                                             *)
(***************************************************************************)
Answered(v, w, D, e, N) ==
    /\ QueueOK(w, N) /\ Evolves(v, w, D) /\ Keeps(v, w)
    /\ w.events = v.events \o <<e>>
    /\ w.mapped = IF e.kind = "Created" THEN v.mapped \cup {e.o} ELSE v.mapped

LEMMA AnsweredCarries ==
    ASSUME NEW v, NEW w, NEW N, NEW D, NEW e \in Events, QueueOK(v, N), Answered(v, w, D, e, N),
           Fresh(v, D), NEW o, NEW id, NEW owed, NEW left, InOrder(v, o, id, owed),
           About(e, o) => owed = {e.n} /\ left = {} /\ e.kind # "KeyConflict",
           ~About(e, o) => left = owed,
           e.o = o => /\ e.kind = "Created" => id # "None"
                      /\ e.kind = "Rejected" => o \notin Preferences /\ id \notin {"None", "Client"}
    PROVE  Carries(v, w, o, id, owed, left)
<1>1. /\ QueueOK(w, N) /\ Evolves(v, w, D) /\ w.events = v.events \o <<e>>
      /\ left \subseteq owed
  BY DEF Answered
<1>2. Waiting(w, o) = Waiting(v, o)
  <2>1. Waiting(w, o) \subseteq Waiting(v, o)
    BY <1>1, ChainedKept DEF InOrder
  <2>2. ASSUME NEW n \in Waiting(v, o) PROVE n \in Waiting(w, o)
    <3>1. PICK j \in ContentOf(v, o) : j.n = n
      BY DEF Waiting
    <3>2. PICK i \in Pending(w) : Same(i, j)
      BY DEF Answered, Keeps, ContentOf
    <3>3. i \in ContentOf(w, o)
      BY <3>1, <3>2 DEF ContentOf, Same, IsContent
    <3> QED BY <3>1, <3>2, <3>3 DEF Waiting, Same
  <2> QED BY <2>1, <2>2
<1>3. Waiting(v, o) \cap owed = {}
  BY DEF InOrder
<1>4. PICK ys : ys = <<e>>
  OBVIOUS
<1>5. ys \in Seq(Events) /\ DOMAIN ys = {1} /\ ys[1] = e
  BY <1>4
<1>6. /\ ~About(e, o) => TellsOnce(ys, o, Waiting(w, o) \cup left) /\ Announced(ys, o) = {}
      /\ About(e, o) /\ e.n \notin (Waiting(w, o) \cup left) /\ e.kind # "KeyConflict" =>
                  TellsOnce(ys, o, Waiting(w, o) \cup left) /\ Announced(ys, o) = {e.n}
  BY <1>4, OneTold
<1>7. TellsOnce(ys, o, Waiting(w, o) \cup left)
  BY <1>2, <1>3, <1>6
<1>8. Announced(ys, o) = (Waiting(v, o) \cup owed) \ (Waiting(w, o) \cup left)
  BY <1>2, <1>3, <1>6
<1>9. NamesWell(v, w, o, id, ys)
  BY <1>5 DEF NamesWell, Answered
<1>10. Moves(v, w, N, D, o, id, ys)
  BY <1>1, <1>4, <1>5, <1>9 DEF Moves
<1>11. Tells(v, w, o, ys, owed, left)
  BY <1>1, <1>7, <1>8 DEF Tells
<1> QED
  BY <1>10, <1>11, Carried

-----------------------------------------------------------------------------
(* An answer is taken.                                                     *)

\* What is owed once the request is no longer outstanding.
Owed(r, o) == IF IsContent(r) /\ o \in Elems(r.objs) THEN {r.n} ELSE {}

LEMMA WithoutCarries ==
    ASSUME NEW N \in Nat, QueueOK(sync, N), NEW r \in sync.sent, NEW o, NEW id,
           InOrder(sync, o, id, {})
    PROVE  /\ Carries(sync, Without(r), o, id, {}, Owed(r, o))
           /\ Fresh(Without(r), KeysOf(r))
<1> DEFINE v == Without(r)
<1>1. /\ QueueOK(v, N) /\ v.queue = sync.queue /\ v.sent = sync.sent \ {r}
      /\ v.mapped = sync.mapped /\ v.events = sync.events
  BY WithoutOK
<1> HIDE DEF v
<1>2. ASSUME NEW i \in Pending(v) PROVE i \in Pending(sync) /\ i.n # r.n
  <2>1. i \in Pending(sync) /\ r \in Pending(sync)
    BY <1>1 DEF Pending
  <2>2. i # r
    <3>1. r \notin Elems(sync.queue)
      BY DEF QueueOK, NumbersDiffer
    <3> QED BY <3>1, <1>1 DEF Pending
  <2> QED BY <2>1, <2>2, OneItem
<1>3. ContentOf(v, o) \subseteq ContentOf(sync, o)
  BY <1>2 DEF ContentOf
<1>4. Waiting(v, o) \cup Owed(r, o) = Waiting(sync, o)
  <2>1. \A i \in ContentOf(sync, o) : i \in ContentOf(v, o) \/ i = r
    BY <1>1 DEF ContentOf, Pending
  <2>2. Owed(r, o) = IF r \in ContentOf(sync, o) THEN {r.n} ELSE {}
    BY DEF Owed, ContentOf, Pending
  <2> QED BY <2>1, <2>2, <1>3 DEF Waiting
<1>5. Waiting(v, o) \cap Owed(r, o) = {}
  BY <1>2 DEF Waiting, Owed, ContentOf
<1>6. Chained(v, o)
  BY <1>1, <1>3 DEF InOrder, Chained
<1>7. Named(v, o, id)
  BY <1>1, <1>3 DEF InOrder, Named
<1>8. TellsOnce(v.events, o, Waiting(v, o) \cup Owed(r, o))
  <2>1. TellsOnce(sync.events, o, Waiting(sync, o))
    <3>1. Waiting(sync, o) \cup {} = Waiting(sync, o)
      OBVIOUS
    <3> QED BY <3>1 DEF InOrder
  <2> QED BY <2>1, <1>1, <1>4
<1>9. InOrder(v, o, id, Owed(r, o))
  BY <1>5, <1>6, <1>7, <1>8 DEF InOrder
<1>10. Live(v, o) \cup Owed(r, o) = Live(sync, o) \cup {}
  BY <1>1, <1>4 DEF Live
<1>11. Fresh(v, KeysOf(r))
  <2>1. \A d \in KeysOf(r) : d[1] = r.n
    BY DEF KeysOf, DependencyOn
  <2> QED BY <2>1, <1>2 DEF Fresh
<1> QED
  BY <1>9, <1>10, <1>11 DEF Carries, v

LEMMA FreshKept ==
    ASSUME NEW v, NEW w, NEW D, NEW E, Evolves(v, w, E), Fresh(v, D)
    PROVE  Fresh(w, D)
<1>1. SUFFICES ASSUME NEW i \in Pending(w) PROVE \E j \in Pending(v) : i.n = j.n
  BY DEF Fresh
<1>2. CASE i \in Elems(w.queue)
  BY <1>2 DEF Evolves, StemsFrom, Same, Pending
<1>3. CASE i \in w.sent \ v.sent
  BY <1>3 DEF Evolves, SentFrom, Same, Pending
<1> QED
  BY <1>2, <1>3 DEF Pending

\* The queue changes in place.
InPlace(v, w, D, N) == QueueOK(w, N) /\ Evolves(v, w, D) /\ Keeps(v, w)

LEMMA InPlaceThen ==
    ASSUME NEW u, NEW v, NEW w, NEW D, NEW E, NEW N, InPlace(u, v, D, N), InPlace(v, w, E, N),
           E \subseteq D
    PROVE  InPlace(u, w, D, N)
<1>1. Evolves(v, w, D)
  BY EvolvesMore DEF InPlace
<1> QED
  BY <1>1, EvolvesTransitive, KeepsTransitive DEF InPlace

LEMMA InPlaceSteps ==
    ASSUME NEW v, NEW N \in Nat, QueueOK(v, N)
    PROVE  /\ \A d : InPlace(v, Release(v, d), {d}, N)
           /\ \A o : \A rev \in Nat : InPlace(v, WithNewRevision(v, o, rev), {}, N)
           /\ \A e \in Events : InPlace(v, Emit(v, e), {}, N)
           /\ \A o \in Objects : \A d :
                 InPlace(v, [Renamed(v, o, d) EXCEPT !.mapped = @ \cup {o}], {}, N)
<1>1. /\ \A d : Keeps(v, Release(v, d))
      /\ \A o, rev : Keeps(v, WithNewRevision(v, o, rev))
      /\ \A o, d : Keeps(v, [Renamed(v, o, d) EXCEPT !.mapped = @ \cup {o}])
      /\ \A e : Keeps(v, Emit(v, e))
  BY InPlaceKeeps
<1>2. \A d : InPlace(v, Release(v, d), {d}, N)
  BY <1>1, ReleaseOK DEF InPlace
<1>3. \A o : \A rev \in Nat : InPlace(v, WithNewRevision(v, o, rev), {}, N)
  BY <1>1, WithNewRevisionOK DEF InPlace
<1>4. \A e \in Events : InPlace(v, Emit(v, e), {}, N)
  BY <1>1, EmitOK DEF InPlace
<1>5. ASSUME NEW o \in Objects, NEW d
      PROVE  InPlace(v, [Renamed(v, o, d) EXCEPT !.mapped = @ \cup {o}], {}, N)
  <2> DEFINE named == [Renamed(v, o, d) EXCEPT !.mapped = @ \cup {o}]
  <2>1. /\ QueueOK(named, N) /\ Evolves(v, named, {})
        /\ named.events = v.events /\ named.sent = v.sent
        /\ named.mapped = v.mapped \cup {o}
    BY RenamedOK
  <2>2. Keeps(v, named)
    BY <1>1
  <2> QED BY <2>1, <2>2 DEF InPlace
<1> QED
  BY <1>2, <1>3, <1>4, <1>5

\* The steps that end one item.
LEMMA AnsweredSteps ==
    ASSUME NEW v, NEW N \in Nat, QueueOK(v, N), NEW d, NEW e \in Events, e.kind # "Created"
    PROVE  /\ Answered(v, Emit(Release(v, d), e), {d}, e, N)
           /\ Answered(v, Release(Emit(v, e), d), {d}, e, N)
           /\ \A o : \A rev \in Nat :
                 Answered(v, Emit(WithNewRevision(Release(v, d), o, rev), e), {d}, e, N)
<1>1. /\ InPlace(v, Release(v, d), {d}, N)
      /\ Release(v, d).events = v.events /\ Release(v, d).mapped = v.mapped
  BY InPlaceSteps, ReleaseOK
<1>2. v.events \in Seq(Events) /\ Append(v.events, e) = v.events \o <<e>>
  BY DEF QueueOK, SyncQueues
<1>3. ASSUME NEW u, InPlace(v, u, {d}, N), u.events = v.events, u.mapped = v.mapped
      PROVE  Answered(v, Emit(u, e), {d}, e, N)
  <2>1. QueueOK(u, N)
    BY <1>3 DEF InPlace
  <2>2. /\ InPlace(u, Emit(u, e), {}, N)
        /\ Emit(u, e).events = Append(u.events, e) /\ Emit(u, e).mapped = u.mapped
    BY <2>1, InPlaceSteps, EmitOK
  <2>3. InPlace(v, Emit(u, e), {d}, N)
    BY <1>3, <2>2, InPlaceThen
  <2> QED BY <1>2, <1>3, <2>2, <2>3 DEF Answered, InPlace
<1>4. ASSUME NEW o, NEW rev \in Nat
      PROVE  Answered(v, Emit(WithNewRevision(Release(v, d), o, rev), e), {d}, e, N)
  <2>1. PICK u : u = Release(v, d)
    OBVIOUS
  <2>2. QueueOK(u, N)
    BY <1>1, <2>1 DEF InPlace
  <2>3. /\ InPlace(u, WithNewRevision(u, o, rev), {}, N)
        /\ WithNewRevision(u, o, rev).events = u.events
        /\ WithNewRevision(u, o, rev).mapped = u.mapped
    BY <2>2, InPlaceSteps, WithNewRevisionOK
  <2>4. InPlace(v, WithNewRevision(u, o, rev), {d}, N)
    BY <1>1, <2>1, <2>3, InPlaceThen
  <2>5. Answered(v, Emit(WithNewRevision(u, o, rev), e), {d}, e, N)
    BY <1>1, <1>3, <2>1, <2>3, <2>4
  <2> QED BY <2>1, <2>5
<1>5. Answered(v, Release(Emit(v, e), d), {d}, e, N)
  <2>1. PICK u : u = Emit(v, e)
    OBVIOUS
  <2>2. /\ InPlace(v, u, {}, N)
        /\ u.events = Append(v.events, e) /\ u.mapped = v.mapped
    BY <2>1, InPlaceSteps, EmitOK
  <2>3. InPlace(v, u, {d}, N) /\ QueueOK(u, N)
    BY <2>2, EvolvesMore DEF InPlace
  <2>4. /\ InPlace(u, Release(u, d), {d}, N)
        /\ Release(u, d).events = u.events /\ Release(u, d).mapped = u.mapped
    BY <2>3, InPlaceSteps, ReleaseOK
  <2>5. InPlace(v, Release(u, d), {d}, N)
    BY <2>3, <2>4, InPlaceThen
  <2>6. Answered(v, Release(u, d), {d}, e, N)
    BY <1>2, <2>2, <2>4, <2>5 DEF Answered, InPlace
  <2> QED BY <2>1, <2>6
<1> QED
  BY <1>1, <1>3, <1>4, <1>5

\* The event e suits the object o, and ends what is owed but for what is left.
Suits(e, o, id, owed, left) ==
    /\ About(e, o) => owed = {e.n} /\ left = {} /\ e.kind # "KeyConflict"
    /\ ~About(e, o) => left = owed
    /\ e.o = o => /\ e.kind = "Created" => id # "None"
                  /\ e.kind = "Rejected" => o \notin Preferences /\ id \notin {"None", "Client"}

LEMMA TakenCarries ==
    ASSUME NEW v, NEW w, NEW N \in Nat, NEW D, NEW e \in Events, QueueOK(v, N),
           Answered(v, w, D, e, N), Fresh(v, D), NEW o, NEW id, NEW owed, NEW left,
           InOrder(v, o, id, owed), Suits(e, o, id, owed, left)
    PROVE  Carries(v, Dequeue(w), o, id, owed, left)
<1>1. Carries(v, w, o, id, owed, left)
  BY AnsweredCarries DEF Suits
<1>2. QueueOK(w, N) /\ InOrder(w, o, id, left)
  BY <1>1 DEF Answered, Carries
<1>3. Carries(w, Dequeue(w), o, id, left, left)
  BY <1>2, DequeueCarries
<1> QED
  BY <1>1, <1>3, CarriesThen

\* One object of a creation.
LEMMA ObjectCreatedAnswers ==
    ASSUME NEW v, NEW N \in Nat, QueueOK(v, N),
           NEW r \in Requests, AnswerFits(r), r.answer = "Created", NEW p \in Elems(r.objs)
    PROVE  \E w : \E e \in Events :
              /\ ObjectCreated(v, r, p) = Dequeue(w)
              /\ Answered(v, w, KeysOf(r), e, N)
              /\ e.kind = "Created" /\ e.o = p /\ e.n = r.n
<1> DEFINE d == DependencyOn(r, p)
           now == r.found[p]
           named == [Renamed(v, p, d) EXCEPT !.mapped = @ \cup {p}]
           released == Release(named, d)
           revised == WithNewRevision(released, p, now.rev)
           e == Event("Created", p, r.n, now)
           emitted == Emit(revised, e)
<1>1. p \in Objects /\ now \in Versions /\ e \in Events
  BY AnswerEvents DEF EventKinds
<1>2. now.rev \in Nat /\ e.kind = "Created" /\ e.o = p /\ e.n = r.n
  BY <1>1 DEF Versions, Event
<1>3. ObjectCreated(v, r, p) = Dequeue(emitted)
  BY DEF ObjectCreated
<1> HIDE DEF d, now, e
<1>4. /\ InPlace(v, named, {}, N) /\ named.events = v.events
      /\ named.mapped = v.mapped \cup {p}
  <2>1. /\ QueueOK(named, N) /\ Evolves(v, named, {})
        /\ named.events = v.events /\ named.sent = v.sent
        /\ named.mapped = v.mapped \cup {p}
    BY <1>1, RenamedOK
  <2>2. InPlace(v, named, {}, N)
    BY <1>1, InPlaceSteps
  <2> QED BY <2>1, <2>2
<1> HIDE DEF named
<1>5. QueueOK(named, N)
  BY <1>4 DEF InPlace
<1>6. /\ InPlace(named, released, {d}, N)
      /\ released.events = named.events /\ released.mapped = named.mapped
  BY <1>5, InPlaceSteps, ReleaseOK
<1> HIDE DEF released
<1>7. QueueOK(released, N)
  BY <1>6 DEF InPlace
<1>8. /\ InPlace(released, revised, {}, N)
      /\ revised.events = released.events /\ revised.mapped = released.mapped
  BY <1>2, <1>7, InPlaceSteps, WithNewRevisionOK
<1> HIDE DEF revised
<1>9. QueueOK(revised, N)
  BY <1>8 DEF InPlace
<1>10. /\ InPlace(revised, emitted, {}, N)
       /\ emitted.events = Append(revised.events, e) /\ emitted.mapped = revised.mapped
  BY <1>1, <1>9, InPlaceSteps, EmitOK
<1> HIDE DEF emitted
<1>11. InPlace(v, emitted, KeysOf(r), N)
  <2> DEFINE D == KeysOf(r)
  <2>1. d \in D
    BY DEF KeysOf, d
  <2> HIDE DEF D
  <2>2. InPlace(v, named, D, N)
    BY <1>4, EvolvesMore DEF InPlace
  <2>3. InPlace(v, released, D, N)
    BY <2>1, <2>2, <1>6, InPlaceThen
  <2>4. InPlace(v, revised, D, N)
    BY <2>3, <1>8, InPlaceThen
  <2>5. InPlace(v, emitted, D, N)
    BY <2>4, <1>10, InPlaceThen
  <2> QED BY <2>5 DEF D
<1>12. emitted.events = v.events \o <<e>>
  <2>1. PICK x : x = v.events
    OBVIOUS
  <2>2. x \in Seq(Events)
    BY <2>1 DEF QueueOK, SyncQueues
  <2>3. Append(x, e) = x \o <<e>>
    BY <1>1, <2>2
  <2> QED BY <1>4, <1>6, <1>8, <1>10, <2>1, <2>3
<1>13. Answered(v, emitted, KeysOf(r), e, N)
  BY <1>2, <1>4, <1>6, <1>8, <1>10, <1>11, <1>12 DEF Answered, InPlace
<1> QED
  BY <1>1, <1>2, <1>3, <1>13

\* All the objects of a creation.
LEMMA CreationCarries ==
    ASSUME NEW v, NEW N \in Nat, QueueOK(v, N), NEW r \in Requests, AnswerFits(r),
           r.answer = "Created", Injective(r.objs), Fresh(v, KeysOf(r)),
           NEW o, NEW id, InOrder(v, o, id, Owed(r, o)), o \in Elems(r.objs) => id # "None"
    PROVE  Carries(v, CreatedEach(v, r)[Len(r.objs)], o, id, Owed(r, o), {})
<1> DEFINE n == Len(r.objs)
           created == CreatedEach(v, r)
           left(k) == IF \E j \in 1..k : r.objs[j] = o THEN {} ELSE Owed(r, o)
           S == {k \in Nat : k <= n => /\ QueueOK(created[k], N) /\ Fresh(created[k], KeysOf(r))
                                       /\ Carries(v, created[k], o, id, Owed(r, o), left(k))}
<1>1. /\ n \in Nat /\ \A k \in 1..n : r.objs[k] \in Elems(r.objs)
      /\ DOMAIN r.objs = 1..n
  <2>1. r.objs \in Seq(Objects)
    BY DEF Requests, ObjectLists
  <2> QED BY <2>1 DEF Elems
<1>2. /\ created[0] = v
      /\ \A k \in 1..n : created[k] = ObjectCreated(created[k - 1], r, r.objs[k])
  BY CreatedEachSteps
<1>3. left(n) = {}
  BY <1>1 DEF Owed, Elems
<1> HIDE DEF created, n
<1>4. 0 \in S
  <2>1. left(0) = Owed(r, o)
    OBVIOUS
  <2> HIDE DEF left
  <2>2. Carries(v, v, o, id, Owed(r, o), left(0))
    BY <2>1 DEF Carries
  <2> QED BY <1>2, <2>2
<1>5. IsContent(r)
  BY DEF AnswerFits, IsContent
<1>6. ASSUME NEW k \in Nat, k \in S PROVE k + 1 \in S
  <2>1. SUFFICES ASSUME k + 1 <= n
                 PROVE  /\ QueueOK(created[k + 1], N) /\ Fresh(created[k + 1], KeysOf(r))
                        /\ Carries(v, created[k + 1], o, id, Owed(r, o), left(k + 1))
    OBVIOUS
  <2>2. k + 1 \in 1..n /\ (k + 1) - 1 = k /\ k <= n /\ 1..(k + 1) = (1..k) \cup {k + 1}
    BY <1>1, <2>1
  <2>3. PICK u, p : u = created[k] /\ p = r.objs[k + 1]
    OBVIOUS
  <2>4. p \in Elems(r.objs) /\ created[k + 1] = ObjectCreated(u, r, p)
    BY <1>1, <1>2, <2>2, <2>3
  <2>5. QueueOK(u, N) /\ Fresh(u, KeysOf(r)) /\ Carries(v, u, o, id, Owed(r, o), left(k))
    BY <1>6, <2>2, <2>3
  <2>6. PICK w : \E e \in Events :
              /\ ObjectCreated(u, r, p) = Dequeue(w)
              /\ Answered(u, w, KeysOf(r), e, N)
              /\ e.kind = "Created" /\ e.o = p /\ e.n = r.n
    BY <2>4, <2>5, ObjectCreatedAnswers
  <2>7. PICK e \in Events :
              /\ ObjectCreated(u, r, p) = Dequeue(w)
              /\ Answered(u, w, KeysOf(r), e, N)
              /\ e.kind = "Created" /\ e.o = p /\ e.n = r.n
    BY <2>6
  <2>8. Suits(e, o, id, left(k), left(k + 1))
    <3>1. About(e, o) <=> p = o
      BY <2>7 DEF About, Settling
    <3>2. ASSUME p = o PROVE left(k) = {e.n} /\ left(k + 1) = {} /\ id # "None"
      <4>1. ASSUME NEW j \in 1..k, r.objs[j] = o PROVE FALSE
        <5>1. j \in DOMAIN r.objs /\ k + 1 \in DOMAIN r.objs /\ j # k + 1
          BY <1>1, <2>1, <2>2
        <5>2. r.objs[k + 1] = o
          BY <2>3, <3>2
        <5> QED BY <4>1, <5>1, <5>2 DEF Injective
      <4>2. Owed(r, o) = {e.n}
        BY <1>5, <2>4, <2>7, <3>2 DEF Owed
      <4> QED BY <4>1, <4>2, <2>2, <2>3, <2>4, <3>2
    <3>3. ASSUME p # o PROVE left(k + 1) = left(k)
      BY <2>2, <2>3, <3>3
    <3> HIDE DEF left
    <3> QED BY <3>1, <3>2, <3>3, <2>7 DEF Suits
  <2> HIDE DEF left
  <2>9. PICK a, b : a = left(k) /\ b = left(k + 1)
    OBVIOUS
  <2>10. InOrder(u, o, id, a) /\ Suits(e, o, id, a, b)
    BY <2>5, <2>8, <2>9 DEF Carries
  <2>11. Carries(u, Dequeue(w), o, id, a, b)
    BY <2>5, <2>7, <2>10, TakenCarries
  <2>12. Carries(v, Dequeue(w), o, id, Owed(r, o), b)
    BY <2>5, <2>9, <2>11, CarriesThen
  <2>13. QueueOK(w, N) /\ Evolves(u, w, KeysOf(r))
    BY <2>7 DEF Answered
  <2>14. QueueOK(Dequeue(w), N) /\ Evolves(w, Dequeue(w), {})
    BY <2>13, DequeueOK
  <2>15. Fresh(Dequeue(w), KeysOf(r))
    BY <2>5, <2>13, <2>14, FreshKept
  <2> QED BY <2>4, <2>7, <2>9, <2>12, <2>14, <2>15
<1> HIDE DEF S
<1>7. Nat \subseteq S
  BY <1>4, <1>6, SetInduction
<1>8. Carries(v, created[n], o, id, Owed(r, o), left(n))
  BY <1>1, <1>7 DEF S
<1> HIDE DEF left
<1> QED
  BY <1>3, <1>8 DEF created, n

\* All other edits of its object depend on a request.
LEMMA AllFail ==
    ASSUME NEW N \in Nat, QueueOK(sync, N), NEW o, NEW r \in sync.sent, r \in ContentOf(sync, o),
           Chained(sync, o), NEW w, Elems(w.queue) \subseteq Elems(sync.queue),
           w.sent = sync.sent \ {r}, \A i \in Elems(w.queue) : i.deps \cap KeysOf(r) = {}
    PROVE  Waiting(w, o) = {}
<1>1. SUFFICES ASSUME NEW i \in ContentOf(w, o) PROVE FALSE
  BY DEF Waiting
<1>2. i \in ContentOf(sync, o) /\ i # r
  <2>1. r \notin Elems(sync.queue)
    BY OneItem DEF Pending
  <2> QED BY <1>1, <2>1 DEF ContentOf, Pending
<1>3. i.n \in Nat /\ r.n \in Nat /\ i.n # r.n
  <2>1. Elems(sync.queue) \subseteq Items /\ sync.sent \subseteq Requests
    BY ElemsType DEF QueueOK, SyncQueues
  <2>2. i.n \in Nat /\ r.n \in Nat
    BY <1>2, <2>1 DEF ContentOf, Pending, Items, Requests
  <2>3. i.n # r.n
    BY <1>2, OneItem DEF ContentOf
  <2> QED BY <2>2, <2>3
<1>4. r \notin Elems(sync.queue)
  BY OneItem DEF Pending
<1>5. r.n < i.n
  BY <1>2, <1>3, <1>4 DEF Chained
<1>6. i \in Elems(sync.queue) /\ DependencyOn(r, o) \in i.deps
  BY <1>2, <1>5 DEF Chained
<1>7. i \in Elems(w.queue)
  BY <1>1, <1>2, <1>6, OneItem DEF ContentOf, Pending
<1>8. DependencyOn(r, o) \in KeysOf(r)
  BY DEF KeysOf, ContentOf
<1> QED
  BY <1>6, <1>7, <1>8

\* When a request fails with all that depends on it, an event tells of each of its objects.
LEMMA FailAllCarries ==
    ASSUME NEW N \in Nat, QueueOK(sync, N), NEW r \in sync.sent, Injective(r.objs),
           NEW kind \in {"KeyConflict", "Failed", "NotRecorded"},
           kind = "NotRecorded" <=> ~IsContent(r),
           NEW o, NEW id, InOrder(sync, o, id, {})
    PROVE  QueueOK(FailAll(r, kind), N) /\ Carries(sync, FailAll(r, kind), o, id, {}, {})
<1> DEFINE v == Without(r)
           ds == KeysOf(r)
           es == [k \in DOMAIN r.objs |-> Event(kind, r.objs[k], r.n, NoConflict)]
           w == Fail(v, ds, es)
<1>1. /\ QueueOK(v, N) /\ v.queue = sync.queue /\ v.sent = sync.sent \ {r}
      /\ r \in Requests /\ AnswerFits(r)
  BY WithoutOK
<1>2. Carries(sync, v, o, id, {}, Owed(r, o))
  BY WithoutCarries
<1>3. /\ DOMAIN es = DOMAIN r.objs
      /\ \A k \in DOMAIN es : es[k].kind = kind /\ es[k].o = r.objs[k] /\ es[k].n = r.n
  BY DEF Event
<1>4. es \in Seq(Events)
  <2>1. r.objs \in Seq(Objects) /\ Len(r.objs) \in Nat /\ DOMAIN r.objs = 1..Len(r.objs)
    BY <1>1 DEF Requests, ObjectLists
  <2>2. ASSUME NEW k \in DOMAIN r.objs PROVE es[k] \in Events
    <3>1. PICK p \in Elems(r.objs) : p = r.objs[k]
      BY DEF Elems
    <3>2. kind \in EventKinds
      BY DEF EventKinds
    <3>3. Event(kind, p, r.n, NoConflict) \in Events
      BY <1>1, <3>2, AnswerEvents
    <3> QED BY <3>1, <3>3
  <2>3. es \in [1..Len(r.objs) -> Events]
    BY <2>1, <2>2
  <2> QED BY <2>1, <2>3
<1>5. FailAll(r, kind) = w
  BY DEF FailAll, KeysOf
<1> HIDE DEF v, ds, es
<1>6. /\ QueueOK(w, N) /\ Evolves(v, w, {}) /\ \A i \in Elems(w.queue) : i.deps \cap ds = {}
      /\ Elems(w.queue) \subseteq Elems(v.queue) /\ w.sent = v.sent
  BY <1>1, <1>4, FailOK
<1>7. \A k \in DOMAIN es : About(es[k], o) <=> (o = r.objs[k] /\ IsContent(r))
  BY <1>3 DEF About, Settling
<1>8. Announced(es, o) = Owed(r, o)
  BY <1>3, <1>7 DEF Announced, Owed, Elems
<1>9. Waiting(w, o) \cap Owed(r, o) = {}
  <2>1. ContentOf(w, o) \subseteq ContentOf(v, o)
    BY <1>6 DEF ContentOf, Pending
  <2>2. Waiting(v, o) \cap Owed(r, o) = {}
    BY <1>2 DEF Carries, InOrder
  <2> QED BY <2>1, <2>2 DEF Waiting
<1>10. ASSUME IsContent(r), o \in Elems(r.objs) PROVE Waiting(w, o) = {}
  <2>1. r \in ContentOf(sync, o) /\ Chained(sync, o)
    BY <1>10 DEF ContentOf, Pending, InOrder
  <2> QED BY <1>1, <1>6, <2>1, AllFail DEF ds
<1>11. TellsOnce(es, o, Waiting(w, o))
  <2>1. ASSUME NEW p \in DOMAIN es, NEW q \in DOMAIN es, About(es[p], o), About(es[q], o)
        PROVE  p = q
    BY <2>1, <1>3, <1>7 DEF Injective
  <2>2. ASSUME NEW p \in DOMAIN es, About(es[p], o)
        PROVE  /\ es[p].n \notin Waiting(w, o) /\ Waiting(w, o) = {}
               /\ \A q \in DOMAIN es : q > p => ~About(es[q], o)
    <3>1. IsContent(r) /\ o \in Elems(r.objs)
      BY <2>2, <1>3, <1>7 DEF Elems
    <3>2. \A q \in DOMAIN es : q \in Nat
      BY <1>4
    <3> QED BY <3>1, <3>2, <2>1, <2>2, <1>10
  <2> QED BY <2>1, <2>2 DEF TellsOnce
<1>12. Carries(v, w, o, id, Owed(r, o), {})
  <2>1. InOrder(v, o, id, Owed(r, o))
    BY <1>2 DEF Carries
  <2>2. PICK owed : owed = Owed(r, o)
    OBVIOUS
  <2>3. \A k \in DOMAIN es : es[k].kind \notin {"Created", "Rejected"}
    BY <1>3
  <2>4. /\ QueueOK(v, N) /\ InOrder(v, o, id, owed) /\ es \in Seq(Events)
        /\ Announced(es, o) = owed /\ TellsOnce(es, o, Waiting(Fail(v, ds, es), o))
    BY <1>1, <1>4, <1>8, <1>11, <2>1, <2>2
  <2>5. Carries(v, Fail(v, ds, es), o, id, owed, {})
    BY <2>3, <2>4, FailCarries
  <2> QED BY <2>2, <2>5
<1>13. Carries(sync, w, o, id, {}, {})
  BY <1>2, <1>12, CarriesThen
<1> QED
  BY <1>5, <1>6, <1>13

\* Updates, creations that are denied, and actions are answered alike.
LEMMA OneAnswerCarries ==
    ASSUME NEW N \in Nat, QueueOK(sync, N), NEW r \in sync.sent, r.op # "Bulk", NEW w,
           NEW e \in Events, e.o = r.objs[1], e.n = r.n, e.kind \notin {"Created", "KeyConflict"},
           e.kind \in Settling <=> IsContent(r),
           Answered(Without(r), w, {Whole(r)}, e, N),
           NEW o, NEW id, InOrder(sync, o, id, {}),
           (e.kind = "Rejected" /\ e.o = o) => o \notin Preferences /\ id \notin {"None", "Client"}
    PROVE  Carries(sync, Dequeue(w), o, id, {}, {})
<1> DEFINE v == Without(r)
<1>1. QueueOK(v, N) /\ r \in Requests /\ ItemOK(r, N)
  BY WithoutOK
<1>2. Carries(sync, v, o, id, {}, Owed(r, o)) /\ Fresh(v, {Whole(r)})
  <2>1. KeysOf(r) = {Whole(r)}
    BY <1>1, OneKey
  <2> QED BY <2>1, WithoutCarries
<1> HIDE DEF v
<1>3. o \in Elems(r.objs) <=> o = r.objs[1]
  <2>1. Len(r.objs) = 1 /\ r.objs \in Seq(Objects)
    BY <1>1 DEF ItemOK, Requests, ObjectLists
  <2> QED BY <2>1 DEF Elems
<1>4. About(e, o) <=> (o \in Elems(r.objs) /\ IsContent(r))
  BY <1>3 DEF About
<1>5. PICK owed : owed = Owed(r, o)
  OBVIOUS
<1>6. Suits(e, o, id, owed, {}) /\ InOrder(v, o, id, owed)
  BY <1>2, <1>4, <1>5 DEF Suits, Owed, Carries
<1>7. PICK D : D = {Whole(r)}
  OBVIOUS
<1>8. Answered(v, w, D, e, N) /\ Fresh(v, D)
  BY <1>2, <1>7 DEF v
<1>9. PICK left : left = {}
  OBVIOUS
<1>10. Carries(v, Dequeue(w), o, id, owed, left)
  BY <1>1, <1>6, <1>8, <1>9, TakenCarries
<1>11. Carries(sync, Dequeue(w), o, id, {}, left)
  BY <1>2, <1>5, <1>10, CarriesThen
<1> QED
  BY <1>9, <1>11

\* An update in flight was made for an object with a server id.
LEMMA AnsweredId ==
    ASSUME NEW N \in Nat, QueueOK(sync, N), Quiet, NEW r \in sync.sent, r.op = "Update",
           NEW o \in Elems(r.objs), NEW id, InOrder(sync, o, id, {}),
           id = "None" => Live(sync, o) = {}
    PROVE  id \notin {"None", "Client"}
<1>1. r \in ContentOf(sync, o) /\ r \notin Elems(sync.queue)
  BY OneItem DEF ContentOf, Pending, IsContent
<1>2. id # "None"
  BY <1>1 DEF Live, Waiting
<1>3. DOMAIN sync.events = {}
  BY DEF Quiet
<1> QED
  BY <1>1, <1>2, <1>3 DEF InOrder, Named, Creations

\* The answer does not reject a preference, and the object has an id if anything is under way for it.
Answerable(r, o, id) ==
    /\ Injective(r.objs)
    /\ r.answer = "Rejected" => r.objs[1] \notin Preferences
    /\ id = "None" => Live(sync, o) = {}

\* The queue after an answer: one event is told, or the answer is about a creation.
LEMMA ReceiveForms ==
    ASSUME NEW N \in Nat, QueueOK(sync, N), NEW r \in sync.sent, Receive(r)
    PROVE  \/ \E w : \E e \in Events :
                 /\ sync' = Dequeue(w) /\ Answered(Without(r), w, {Whole(r)}, e, N)
                 /\ e.o = r.objs[1] /\ e.n = r.n /\ r.op # "Bulk"
                 /\ \/ e.kind \in {"Updated", "Rejected"} /\ r.op = "Update"
                    \/ e.kind = "Denied" /\ r.op = "Create"
                    \/ e.kind = "Recorded" /\ r.op = "Record"
                 /\ e.kind = "Rejected" => r.answer = "Rejected"
           \/ r.answer = "Created" /\ sync' = CreatedEach(Without(r), r)[Len(r.objs)]
           \/ r.answer = "KeyConflict" /\ sync' = Dequeue(FailAll(r, "KeyConflict"))
<1> DEFINE v == Without(r)
           p == r.objs[1]
           d == Whole(r)
           Form(w, e) == /\ sync' = Dequeue(w) /\ Answered(v, w, {d}, e, N)
                         /\ e.o = p /\ e.n = r.n /\ r.op # "Bulk"
                         /\ \/ e.kind \in {"Updated", "Rejected"} /\ r.op = "Update"
                            \/ e.kind = "Denied" /\ r.op = "Create"
                            \/ e.kind = "Recorded" /\ r.op = "Record"
                         /\ e.kind = "Rejected" => r.answer = "Rejected"
<1>1. QueueOK(v, N) /\ r \in Requests /\ AnswerFits(r)
  BY WithoutOK
<1>2. p \in Elems(r.objs) /\ p \in Objects
  BY <1>1 DEF Requests, ObjectLists, Elems
<1> HIDE DEF v, p, d
<1>3. ASSUME NEW kind \in {"Updated", "Rejected", "Denied", "Recorded"}, r.answer # "None"
      PROVE  /\ Event(kind, p, r.n, NoConflict) \in Events
             /\ r.found[p].rev \in Nat /\ Event(kind, p, r.n, r.found[p]) \in Events
  BY <1>1, <1>2, <1>3, AnswerEvents DEF Versions, EventKinds
<1>4. \A kind, version : LET e == Event(kind, p, r.n, version)
                         IN  e.kind = kind /\ e.o = p /\ e.n = r.n
  BY DEF Event
<1>5. CASE OnAccepted(r)
  <2>1. /\ r.answer = "Accepted"
        /\ sync' = Dequeue(Emit(WithNewRevision(Release(v, d), p, r.found[p].rev),
                                Event("Updated", p, r.n, r.found[p])))
    BY <1>5 DEF OnAccepted, v, p, d
  <2>2. PICK e, rev : e = Event("Updated", p, r.n, r.found[p]) /\ rev = r.found[p].rev
    OBVIOUS
  <2>3. e \in Events /\ rev \in Nat /\ e.kind = "Updated" /\ e.o = p /\ e.n = r.n
    BY <1>3, <1>4, <2>1, <2>2
  <2>4. r.op = "Update"
    BY <1>1, <2>1 DEF AnswerFits
  <2>5. PICK w : w = Emit(WithNewRevision(Release(v, d), p, rev), e)
    OBVIOUS
  <2>6. Answered(v, Emit(WithNewRevision(Release(v, d), p, rev), e), {d}, e, N)
    BY <1>1, <2>3, AnsweredSteps
  <2>7. Form(w, e)
    BY <2>1, <2>2, <2>3, <2>4, <2>5, <2>6
  <2> QED BY <2>3, <2>7 DEF v, p, d
<1>6. CASE OnRejected(r)
  <2>1. /\ r.answer = "Rejected"
        /\ sync' = Dequeue(Release(Emit(v, Event("Rejected", p, r.n, r.found[p])), d))
    BY <1>6 DEF OnRejected, v, p, d
  <2>2. PICK e : e = Event("Rejected", p, r.n, r.found[p])
    OBVIOUS
  <2>3. e \in Events /\ e.kind = "Rejected" /\ e.o = p /\ e.n = r.n
    BY <1>3, <1>4, <2>1, <2>2
  <2>4. r.op = "Update"
    BY <1>1, <2>1 DEF AnswerFits
  <2>5. PICK w : w = Release(Emit(v, e), d)
    OBVIOUS
  <2>6. Answered(v, Release(Emit(v, e), d), {d}, e, N)
    BY <1>1, <2>3, AnsweredSteps
  <2>7. Form(w, e)
    BY <2>1, <2>2, <2>3, <2>4, <2>5, <2>6
  <2> QED BY <2>3, <2>7 DEF v, p, d
<1>7. CASE OnDenied(r)
  <2>1. /\ r.answer = "Denied"
        /\ sync' = Dequeue(Emit(Release(v, d), Event("Denied", p, r.n, NoConflict)))
    BY <1>7 DEF OnDenied, v, p, d
  <2>2. PICK e : e = Event("Denied", p, r.n, NoConflict)
    OBVIOUS
  <2>3. e \in Events /\ e.kind = "Denied" /\ e.o = p /\ e.n = r.n
    BY <1>3, <1>4, <2>1, <2>2
  <2>4. r.op = "Create"
    BY <1>1, <2>1 DEF AnswerFits
  <2>5. PICK w : w = Emit(Release(v, d), e)
    OBVIOUS
  <2>6. Answered(v, Emit(Release(v, d), e), {d}, e, N)
    BY <1>1, <2>3, AnsweredSteps
  <2>7. Form(w, e)
    BY <2>1, <2>2, <2>3, <2>4, <2>5, <2>6
  <2> QED BY <2>3, <2>7 DEF v, p, d
<1>8. CASE OnRecorded(r)
  <2>1. /\ r.answer = "Recorded"
        /\ sync' = Dequeue(Emit(Release(v, d), Event("Recorded", p, r.n, NoConflict)))
    BY <1>8 DEF OnRecorded, v, p, d
  <2>2. PICK e : e = Event("Recorded", p, r.n, NoConflict)
    OBVIOUS
  <2>3. e \in Events /\ e.kind = "Recorded" /\ e.o = p /\ e.n = r.n
    BY <1>3, <1>4, <2>1, <2>2
  <2>4. r.op = "Record"
    BY <1>1, <2>1 DEF AnswerFits
  <2>5. PICK w : w = Emit(Release(v, d), e)
    OBVIOUS
  <2>6. Answered(v, Emit(Release(v, d), e), {d}, e, N)
    BY <1>1, <2>3, AnsweredSteps
  <2>7. Form(w, e)
    BY <2>1, <2>2, <2>3, <2>4, <2>5, <2>6
  <2> QED BY <2>3, <2>7 DEF v, p, d
<1>9. CASE OnCreated(r)
  BY <1>9 DEF OnCreated
<1>10. CASE OnKeyConflict(r)
  BY <1>10 DEF OnKeyConflict
<1> QED
  BY <1>5, <1>6, <1>7, <1>8, <1>9, <1>10 DEF Receive

LEMMA ReceiveCarries ==
    ASSUME NEW N \in Nat, QueueOK(sync, N), Quiet, NEW r \in sync.sent, Receive(r),
           NEW o, NEW id, InOrder(sync, o, id, {}), Answerable(r, o, id)
    PROVE  Carries(sync, sync', o, id, {}, {})
<1> DEFINE v == Without(r)
<1>1. QueueOK(v, N) /\ r \in Requests /\ AnswerFits(r) /\ r.objs[1] \in Elems(r.objs)
  <2>1. QueueOK(Without(r), N) /\ r \in Requests /\ AnswerFits(r)
    BY WithoutOK
  <2> QED BY <2>1 DEF Requests, ObjectLists, Elems
<1> HIDE DEF v
<1>2. ASSUME NEW w, NEW e \in Events, sync' = Dequeue(w), Answered(Without(r), w, {Whole(r)}, e, N),
             e.o = r.objs[1], e.n = r.n, r.op # "Bulk",
             \/ e.kind \in {"Updated", "Rejected"} /\ r.op = "Update"
             \/ e.kind = "Denied" /\ r.op = "Create"
             \/ e.kind = "Recorded" /\ r.op = "Record",
             e.kind = "Rejected" => r.answer = "Rejected"
      PROVE  Carries(sync, sync', o, id, {}, {})
  <2>1. e.kind \in Settling <=> IsContent(r)
    BY <1>2 DEF Settling, IsContent, Creations
  <2>2. e.kind \notin {"Created", "KeyConflict"}
    BY <1>2
  <2>3. e.kind = "Rejected" /\ e.o = o => o \notin Preferences /\ id \notin {"None", "Client"}
    BY <1>1, <1>2, AnsweredId DEF Answerable
  <2>4. Carries(sync, Dequeue(w), o, id, {}, {})
    BY <1>2, <2>1, <2>2, <2>3, OneAnswerCarries
  <2> QED BY <1>2, <2>4
<1>3. CASE r.answer = "Created" /\ sync' = CreatedEach(v, r)[Len(r.objs)]
  <2>1. Carries(sync, v, o, id, {}, Owed(r, o)) /\ Fresh(v, KeysOf(r))
    BY WithoutCarries DEF v
  <2>2. o \in Elems(r.objs) => id # "None"
    <3>1. IsContent(r)
      BY <1>1, <1>3 DEF AnswerFits, IsContent
    <3>2. o \in Elems(r.objs) => r.n \in Live(sync, o)
      BY <3>1 DEF Live, Waiting, ContentOf, Pending
    <3> QED BY <3>2 DEF Answerable
  <2>3. Carries(v, CreatedEach(v, r)[Len(r.objs)], o, id, Owed(r, o), {})
    <3>1. InOrder(v, o, id, Owed(r, o)) /\ Injective(r.objs)
      BY <2>1 DEF Carries, Answerable
    <3> QED BY <1>1, <1>3, <2>1, <2>2, <3>1, CreationCarries
  <2> QED BY <1>3, <2>1, <2>3, CarriesThen
<1>4. CASE r.answer = "KeyConflict" /\ sync' = Dequeue(FailAll(r, "KeyConflict"))
  <2>1. PICK u, kind : kind = "KeyConflict" /\ u = FailAll(r, kind)
    OBVIOUS
  <2>2. IsContent(r)
    BY <1>1, <1>4 DEF AnswerFits, IsContent
  <2>3. QueueOK(u, N) /\ Carries(sync, u, o, id, {}, {})
    BY <2>1, <2>2, FailAllCarries DEF Answerable
  <2>4. Carries(u, Dequeue(u), o, id, {}, {})
    BY <2>3, DequeueCarries DEF Carries
  <2> QED BY <1>4, <2>1, <2>3, <2>4, CarriesThen
<1> QED
  BY <1>2, <1>3, <1>4, ReceiveForms DEF v

LEMMA RequestFailedCarries ==
    ASSUME NEW N \in Nat, QueueOK(sync, N), NEW r \in sync.sent, RequestFailed(r),
           NEW o, NEW id, InOrder(sync, o, id, {}), Injective(r.objs)
    PROVE  Carries(sync, sync', o, id, {}, {})
<1>1. PICK kind \in {"Failed", "NotRecorded"} : kind = IF IsContent(r) THEN "Failed" ELSE "NotRecorded"
  OBVIOUS
<1>2. PICK u : u = FailAll(r, kind)
  OBVIOUS
<1>3. QueueOK(u, N) /\ Carries(sync, u, o, id, {}, {})
  BY <1>1, <1>2, FailAllCarries
<1>4. Carries(u, Dequeue(u), o, id, {}, {})
  BY <1>3, DequeueCarries DEF Carries
<1>5. sync' \in {u, Dequeue(u)}
  BY <1>1, <1>2 DEF RequestFailed
<1> QED
  BY <1>3, <1>4, <1>5, CarriesThen

-----------------------------------------------------------------------------
(* A new item.                                                             *)

\* The events of inferred dependencies are about the first object of the item.
LEMMA InferredEvents ==
    ASSUME NEW v, NEW item
    PROVE  /\ \A k \in DOMAIN Inferred(v, item).events :
                 Inferred(v, item).events[k].o = item.objs[1] /\ Inferred(v, item).events[k].kind = "Failed"
           /\ (\A e \in item.refs : ItemsWithId(v, e, {TRUE}) # {}) => Inferred(v, item).events = <<>>
<1> DEFINE missing == {e \in item.refs \ v.mapped : ItemsWithId(v, e, {TRUE}) = {}}
<1>1. Inferred(v, item).events = IF missing = {} THEN <<>> ELSE <<FailureOf(item), FailureOf(item)>>
  BY DEF Inferred
<1>2. (\A e \in item.refs : ItemsWithId(v, e, {TRUE}) # {}) => missing = {}
  OBVIOUS
<1> HIDE DEF missing
<1>3. FailureOf(item).o = item.objs[1] /\ FailureOf(item).kind = "Failed"
  BY DEF FailureOf, Event
<1>4. PICK f : f = FailureOf(item)
  OBVIOUS
<1>5. \A k \in DOMAIN <<f, f>> : <<f, f>>[k] = f
  OBVIOUS
<1> QED
  BY <1>1, <1>2, <1>3, <1>4, <1>5

\* An item that is not an edit of the object o changes nothing for it.
LEMMA OthersEnqueued ==
    ASSUME NEW v, NEW N \in Nat, QueueOK(v, N), NEW item \in Items, item.n = N,
           item.op # "Bulk" => Len(item.objs) = 1,
           item.op \in {"Bulk", "Record"} => item.refs = {},
           NEW o, NEW id, InOrder(v, o, id, {}), ~(IsContent(item) /\ o \in Elems(item.objs)),
           Inferred(v, item).events = <<>> \/ o # item.objs[1]
    PROVE  Carries(v, Enqueue(v, item), o, id, {}, {})
<1> DEFINE new == Inferred(v, item).item
           u == Queued(v, item)
           x == v.events
           y == Inferred(v, item).events
<1>1. /\ QueueOK(u, N + 1) /\ Enqueue(v, item) = Dequeue(u)
      /\ Elems(u.queue) = Elems(v.queue) \cup {new}
      /\ u.sent = v.sent /\ u.mapped = v.mapped
      /\ u.events = v.events \o Inferred(v, item).events
  BY QueuedOK
<1>2. Same(new, item) /\ y \in Seq(Events) /\ x \in Seq(Events)
  <2>1. v \in SyncQueues
    BY DEF QueueOK
  <2>2. /\ new \in Items /\ Same(new, item) /\ new.refs \subseteq item.refs
        /\ (item.op # "Update" /\ item.refs = {}) => new.deps = {}
        /\ \A d \in new.deps : \E j \in Pending(v) : Settles(j, d)
        /\ Inferred(v, item).events \in Seq(Events)
    BY <2>1, InferredProperties
  <2> QED BY <2>1, <2>2 DEF SyncQueues
<1>3. \A k \in DOMAIN y : y[k].o # o
  BY InferredEvents
<1>4. u.events = x \o y
  BY <1>1
<1> HIDE DEF new, u, x, y
<1>5. ~(IsContent(new) /\ o \in Elems(new.objs))
  BY <1>2 DEF Same, IsContent
<1>6. ContentOf(u, o) = ContentOf(v, o) /\ \A i \in ContentOf(v, o) : i \in Elems(u.queue) <=> i \in Elems(v.queue)
  BY <1>1, <1>5 DEF ContentOf, Pending
<1>7. Waiting(u, o) = Waiting(v, o)
  BY <1>6 DEF Waiting
<1>8. Chained(u, o)
  BY <1>6 DEF InOrder, Chained
<1> DEFINE z == x \o y
           m == Len(x)
<1>9. /\ z \in Seq(Events) /\ m \in Nat
      /\ \A p \in DOMAIN z : p \in Nat
      /\ \A p \in DOMAIN z : p \in DOMAIN x \/ p - m \in DOMAIN y
      /\ \A p \in DOMAIN x : p \in DOMAIN z /\ z[p] = x[p] /\ p <= m
      /\ \A p \in DOMAIN y : /\ p + m \in DOMAIN z /\ z[p + m] = y[p]
                             /\ p > 0 /\ p \in Nat
  BY <1>2, JoinedEvents
<1>10. TellsOnce(z, o, Waiting(v, o)) /\ Announced(z, o) = Announced(x, o)
  <2>1. TellsOnce(y, o, Waiting(v, o)) /\ Announced(y, o) = {}
    BY <1>3 DEF TellsOnce, Announced, About
  <2>2. TellsOnce(x, o, Waiting(v, o))
    <3>1. Waiting(v, o) \cup {} = Waiting(v, o)
      OBVIOUS
    <3> QED BY <3>1 DEF InOrder, x
  <2>3. PICK W : W = Waiting(v, o)
    OBVIOUS
  <2>4. TellsOnce(x, o, W) /\ TellsOnce(y, o, W) /\ Announced(y, o) = W \ W /\ W \subseteq W
    BY <2>1, <2>2, <2>3
  <2>5. /\ TellsOnce(x \o y, o, W)
        /\ Announced(x \o y, o) = Announced(x, o) \cup Announced(y, o)
    BY <1>2, <2>4, TellsJoin
  <2> QED BY <2>1, <2>3, <2>5
<1> HIDE DEF z, m
<1>11. \A p \in DOMAIN z : z[p].o = o => p \in DOMAIN x /\ z[p] = x[p]
  <2>1. SUFFICES ASSUME NEW p \in DOMAIN z, p \notin DOMAIN x PROVE z[p].o # o
    BY <1>9
  <2>2. p - m \in DOMAIN y /\ (p - m) + m = p
    BY <2>1, <1>9
  <2> QED BY <2>2, <1>3, <1>9
<1>12. Named(u, o, id)
  <2>1. Named(v, o, id)
    BY DEF InOrder
  <2>2. \A p \in DOMAIN x : p \in DOMAIN z /\ z[p] = x[p]
    BY <1>9
  <2>3. u.events = z /\ v.events = x
    BY <1>4 DEF z, x
  <2> QED BY <2>1, <2>2, <2>3, <1>1, <1>6, <1>11 DEF Named
<1>13. Carries(v, u, o, id, {}, {})
  <2>1. u.events = z /\ v.events = x
    BY <1>4 DEF z, x
  <2>2. TellsOnce(u.events, o, Waiting(u, o) \cup {})
    BY <2>1, <1>7, <1>10
  <2> QED BY <2>1, <2>2, <1>7, <1>8, <1>10, <1>12 DEF Carries, InOrder, Live
<1>14. Carries(u, Dequeue(u), o, id, {}, {})
  <2>1. PICK M \in Nat : M = N + 1
    OBVIOUS
  <2>2. QueueOK(u, M) /\ InOrder(u, o, id, {})
    BY <1>1, <1>13, <2>1 DEF Carries
  <2> QED BY <2>2, DequeueCarries
<1> QED
  BY <1>1, <1>13, <1>14, CarriesThen DEF u

\* get_update_dependencies finds every earlier edit of the object.
LEMMA UpdateWaits ==
    ASSUME NEW v, NEW N, QueueOK(v, N), NEW item, NEW o, NEW id \in {"Client", "Server"},
           item.objs[1] = o, item.client = (id = "Client"), Named(v, o, id),
           NEW i \in ContentOf(v, o)
    PROVE  DependencyOn(i, o) \in UpdateDependencies(v, item)
<1> DEFINE ids == IF o \in v.mapped THEN BOOLEAN ELSE {item.client}
           queued == {j \in Elems(v.queue) :
                         \/ j.op \in Creations /\ TRUE \in ids
                         \/ j.op = "Update" /\ j.client \in ids}
           inFlight == {r \in v.sent :
                           \/ r.op \in Creations /\ TRUE \in ids
                           \/ r.op = "Update" /\ FALSE \in ids}
<1>1. UpdateDependencies(v, item) =
          {DependencyOn(j, o) : j \in {j \in queued \cup inFlight : o \in Elems(j.objs)}}
  BY DEF UpdateDependencies, ItemsWithId
<1>2. /\ i \in Elems(v.queue) \cup v.sent /\ o \in Elems(i.objs)
      /\ i.op \in Creations \/ i.op = "Update"
  BY DEF ContentOf, Pending, IsContent
<1>3. i \in Elems(v.queue) => i.client \in BOOLEAN
  <2>1. Elems(v.queue) \subseteq Items
    BY ElemsType DEF QueueOK, SyncQueues
  <2> QED BY <2>1 DEF Items
<1>4. CASE o \in v.mapped
  <2>1. ids = BOOLEAN
    BY <1>4
  <2>2. i \in queued \cup inFlight
    BY <1>2, <1>3, <2>1
  <2> QED BY <1>1, <1>2, <2>2
<1>5. CASE o \notin v.mapped /\ id = "Client"
  <2>1. ids = {TRUE}
    BY <1>5
  <2>2. i.op \in Creations \/ (i \in Elems(v.queue) /\ i.client)
    BY <1>5 DEF Named
  <2>3. i \in queued \cup inFlight
    BY <1>2, <1>3, <2>1, <2>2
  <2> QED BY <1>1, <1>2, <2>3
<1>6. CASE o \notin v.mapped /\ id = "Server"
  <2>1. ids = {FALSE}
    BY <1>6
  <2>2. i.op = "Update" /\ (i \in Elems(v.queue) => ~i.client)
    BY <1>6 DEF Named
  <2>3. i \in queued \cup inFlight
    BY <1>2, <1>3, <2>1, <2>2
  <2> QED BY <1>1, <1>2, <2>3
<1> QED
  BY <1>4, <1>5, <1>6

\* How an edit of the object o names it, if it had the id old and now has the id new.
EditNames(v, item, o, old, new) ==
    \/ /\ item.op = "Update" /\ item.client = (old = "Client")
       /\ old \in {"Client", "Server"} /\ new = old
    \/ item.op \in Creations /\ Live(v, o) = {} /\ o \notin v.mapped /\ new = "Client"

\* An edit waits for all earlier ones.
LEMMA EditEnqueued ==
    ASSUME NEW v, NEW N \in Nat, QueueOK(v, N), NEW item \in Items, item.n = N,
           item.op # "Bulk" => Len(item.objs) = 1,
           item.op \in {"Bulk", "Record"} => item.refs = {},
           NEW o, NEW old, NEW id, InOrder(v, o, old, {}), o \in Elems(item.objs),
           EditNames(v, item, o, old, id), v.events = <<>>, Inferred(v, item).events = <<>>
    PROVE  /\ InOrder(Enqueue(v, item), o, id, {})
           /\ Live(Enqueue(v, item), o) = Live(v, o) \cup {N}
<1> DEFINE new == Inferred(v, item).item
           u == Queued(v, item)
<1>1. /\ QueueOK(u, N + 1) /\ Enqueue(v, item) = Dequeue(u)
      /\ Elems(u.queue) = Elems(v.queue) \cup {new}
      /\ u.sent = v.sent /\ u.mapped = v.mapped
      /\ u.events = <<>>
  <2>1. /\ QueueOK(u, N + 1) /\ Enqueue(v, item) = Dequeue(u)
        /\ Elems(u.queue) = Elems(v.queue) \cup {new}
        /\ u.sent = v.sent /\ u.mapped = v.mapped
        /\ u.events = v.events \o Inferred(v, item).events
    BY QueuedOK
  <2>2. v.events \o Inferred(v, item).events = <<>>
    OBVIOUS
  <2> QED BY <2>1, <2>2
<1>2. Same(new, item) /\ new.n = N
  <2>1. v \in SyncQueues
    BY DEF QueueOK
  <2>2. /\ new \in Items /\ Same(new, item) /\ new.refs \subseteq item.refs
        /\ (item.op # "Update" /\ item.refs = {}) => new.deps = {}
        /\ \A d \in new.deps : \E j \in Pending(v) : Settles(j, d)
        /\ Inferred(v, item).events \in Seq(Events)
    BY <2>1, InferredProperties
  <2> QED BY <2>2 DEF Same
<1>3. \A i \in Pending(v) : i.n \in Nat /\ i.n < N
  <2>1. Elems(v.queue) \subseteq Items /\ v.sent \subseteq Requests
    BY ElemsType DEF QueueOK, SyncQueues
  <2> QED BY <2>1 DEF Pending, Items, Requests, QueueOK, ItemOK
<1>4. item.op = "Update" =>
          /\ o = item.objs[1]
          /\ UpdateDependencies(v, item) \ {<<N, NoObject>>} \subseteq new.deps
  <2>1. SUFFICES ASSUME item.op = "Update"
                 PROVE  /\ o = item.objs[1]
                        /\ UpdateDependencies(v, item) \ {<<N, NoObject>>} \subseteq new.deps
    OBVIOUS
  <2>2. o = item.objs[1]
    BY <2>1 DEF Elems, Items, ObjectLists
  <2>3. UpdateDependencies(v, item) \ {<<item.n, NoObject>>} \subseteq new.deps
    <3>1. PICK own : own = UpdateDependencies(v, item)
      OBVIOUS
    <3>2. \E refs, enums : new = [item EXCEPT !.refs = refs, !.deps = (own \cup enums) \ {<<item.n, NoObject>>}]
      BY <2>1, <3>1 DEF Inferred
    <3> HIDE DEF new
    <3>3. PICK refs, enums : new = [item EXCEPT !.refs = refs, !.deps = (own \cup enums) \ {<<item.n, NoObject>>}]
      BY <3>2
    <3>4. new.deps = (own \cup enums) \ {<<item.n, NoObject>>}
      BY <3>3 DEF Items
    <3> QED BY <3>1, <3>4
  <2> QED BY <2>2, <2>3
<1> HIDE DEF new, u
<1>5. IsContent(new) /\ o \in Elems(new.objs) /\ new \in Elems(u.queue)
  BY <1>1, <1>2 DEF EditNames, Same, IsContent
<1>6. /\ ContentOf(u, o) = ContentOf(v, o) \cup {new}
      /\ \A i \in ContentOf(v, o) : i \in Elems(u.queue) <=> i \in Elems(v.queue)
  <2>1. new \notin Pending(v)
    BY <1>2, <1>3
  <2> QED BY <1>1, <1>5, <2>1 DEF ContentOf, Pending
<1>7. Waiting(u, o) = Waiting(v, o) \cup {N}
  BY <1>2, <1>6 DEF Waiting
<1>8. Live(v, o) = {} => ContentOf(v, o) = {}
  BY DEF Live, Waiting
<1>9. Chained(u, o)
  <2>1. SUFFICES ASSUME NEW i \in ContentOf(u, o), NEW j \in ContentOf(u, o), i.n < j.n
                 PROVE  j \in Elems(u.queue) /\ j.op = "Update" /\ DependencyOn(i, o) \in j.deps
    BY DEF Chained
  <2>2. CASE j # new
    <3>1. j \in ContentOf(v, o)
      BY <2>2, <1>6
    <3>2. i \in ContentOf(v, o)
      <4>1. i # new
        BY <3>1, <2>1, <1>2, <1>3 DEF ContentOf
      <4> QED BY <4>1, <1>6
    <3> QED BY <3>1, <3>2, <2>1, <1>6 DEF InOrder, Chained
  <2>3. CASE j = new
    <3>1. i \in ContentOf(v, o)
      <4>1. i # new
        BY <2>1, <2>3, <1>2
      <4> QED BY <4>1, <1>6
    <3>2. item.op = "Update" /\ item.client = (old = "Client") /\ old \in {"Client", "Server"}
      BY <3>1, <1>8 DEF EditNames
    <3>3. DependencyOn(i, o) \in UpdateDependencies(v, item)
      BY <3>1, <3>2, <1>4, UpdateWaits DEF InOrder
    <3>4. DependencyOn(i, o)[1] = i.n /\ i.n < N
      BY <3>1, <1>3 DEF DependencyOn, ContentOf
    <3>5. DependencyOn(i, o) \in new.deps
      BY <3>2, <3>3, <3>4, <1>3, <1>4
    <3> QED BY <2>3, <3>2, <3>5, <1>2, <1>5 DEF Same
  <2> QED BY <2>2, <2>3
<1>10. Named(u, o, id)
  <2>1. DOMAIN u.events = {} /\ DOMAIN v.events = {}
    BY <1>1
  <2>2. Named(v, o, old)
    BY DEF InOrder
  <2>3. CASE item.op = "Update" /\ item.client = (old = "Client") /\ old \in {"Client", "Server"} /\ id = old
    BY <2>1, <2>2, <2>3, <1>1, <1>2, <1>5, <1>6 DEF Named, Same
  <2>4. CASE item.op \in Creations /\ Live(v, o) = {} /\ o \notin v.mapped /\ id = "Client"
    BY <2>1, <2>4, <1>1, <1>2, <1>6, <1>8 DEF Named, Same
  <2> QED BY <2>3, <2>4 DEF EditNames
<1>11. /\ Announced(u.events, o) = {} /\ Announced(v.events, o) = {}
       /\ TellsOnce(u.events, o, Waiting(u, o) \cup {})
  BY <1>1, NothingTold
<1>12. InOrder(u, o, id, {}) /\ Live(u, o) = Live(v, o) \cup {N}
  BY <1>7, <1>9, <1>10, <1>11 DEF InOrder, Live
<1>13. Carries(u, Dequeue(u), o, id, {}, {})
  <2>1. PICK M \in Nat : M = N + 1
    OBVIOUS
  <2>2. QueueOK(u, M) /\ InOrder(u, o, id, {})
    BY <1>1, <1>12, <2>1
  <2> QED BY <2>2, DequeueCarries
<1> QED
  BY <1>1, <1>12, <1>13 DEF Carries

-----------------------------------------------------------------------------
(* The invariant.                                                          *)

\* The status of a rejected notebook or fact no longer counts its edits.
IsCounted(o, id) == o \in Workflows \cup Enums \cup Preferences \/ id \in {"None", "Client"}

Counted(v, o, object) ==
    IsCounted(o, object.id) =>
        IF object.status > 0
        THEN IsFiniteSet(Live(v, o)) /\ Cardinality(Live(v, o)) = object.status
        ELSE Live(v, o) = {}

\* An object is outside of the teams, and is only pending once it exists.
Personal(object, row) ==
    /\ IsPending(object.status) => Exists(object)
    /\ row.pending => row.id \in {"Client", "Server"}
    /\ ~object.team /\ ~row.team

ObjectOK(v, o, object, row) ==
    InOrder(v, o, object.id, {}) /\ Counted(v, o, object) /\ Personal(object, row)

\* Preferences are not rejected, and no creation has an object twice.
RequestsOK(v) ==
    /\ \A r \in v.sent : r.answer = "Rejected" => r.objs[1] \notin Preferences
    /\ \A i \in Pending(v) : Injective(i.objs)

OrderInv ==
    /\ \A o \in Objects \ TeamObjects : ObjectOK(sync, o, model[o], saved[o])
    /\ RequestsOK(sync)

-----------------------------------------------------------------------------
(* The steps keep it.                                                      *)

LEMMA ObjectCarried ==
    ASSUME NEW v, NEW w, NEW o, NEW object, NEW row, ObjectOK(v, o, object, row),
           Carries(v, w, o, object.id, {}, {})
    PROVE  ObjectOK(w, o, object, row)
<1>1. Live(w, o) = Live(v, o)
  BY DEF Carries
<1> QED
  BY <1>1 DEF ObjectOK, Carries, Counted

\* Nothing is under way for an object without an id.
LEMMA NothingUnborn ==
    ASSUME NEW v, NEW o, NEW object \in ModelObjects, NEW row, ObjectOK(v, o, object, row),
           object.id = "None"
    PROVE  Live(v, o) = {}
<1>1. ~(object.status > 0)
  BY DEF ObjectOK, Personal, Exists, IsPending, ModelObjects, NoLocalChanges, InConflict
<1> QED
  BY <1>1 DEF ObjectOK, Counted, IsCounted

LEMMA RequestsEvolve ==
    ASSUME NEW v, NEW w, NEW D, Evolves(v, w, D), RequestsOK(v)
    PROVE  RequestsOK(w)
<1>1. ASSUME NEW r \in w.sent, r.answer = "Rejected" PROVE r.objs[1] \notin Preferences
  BY <1>1 DEF Evolves, SentFrom, RequestsOK
<1>2. ASSUME NEW i \in Pending(w) PROVE Injective(i.objs)
  <2>1. \E j \in Pending(v) : i.objs = j.objs
    BY DEF Evolves, StemsFrom, SentFrom, Same, Pending
  <2> QED BY <2>1 DEF RequestsOK
<1> QED
  BY <1>1, <1>2 DEF RequestsOK

\* An answer, or the failure of a request.
LEMMA AnswerTakenOrder ==
    ASSUME TypeInv, OrderInv, NEW r \in sync.sent, Receive(r) \/ RequestFailed(r)
    PROVE  OrderInv'
<1>1. PICK N \in Nat : N = next
  BY DEF TypeInv
<1>2. /\ QueueOK(sync, N) /\ UNCHANGED <<model, saved>> /\ Quiet
      /\ model \in [Objects -> ModelObjects]
  BY <1>1 DEF TypeInv, ObjectsOK, Receive, RequestFailed
<1>3. RequestsOK(sync')
  <2>1. QueueOK(Without(r), N) /\ Without(r).queue = sync.queue /\ Without(r).sent = sync.sent \ {r}
    BY <1>2, WithoutOK
  <2>2. RequestsOK(Without(r))
    BY <2>1 DEF OrderInv, RequestsOK, Pending
  <2>3. PICK v, w, D : v = Without(r) /\ w = sync' /\ D = KeysOf(r)
    OBVIOUS
  <2>4. Evolves(v, w, D)
    BY <1>2, <2>3, ReceiveFrees, RequestFailedFrees DEF Frees
  <2> QED BY <2>2, <2>3, <2>4, RequestsEvolve
<1>4. ASSUME NEW o \in Objects \ TeamObjects
      PROVE  ObjectOK(sync', o, model[o], saved[o])
  <2>1. PICK object, row : object = model[o] /\ row = saved[o]
    OBVIOUS
  <2>2. object \in ModelObjects /\ ObjectOK(sync, o, object, row)
    BY <1>2, <2>1 DEF OrderInv
  <2>3. Answerable(r, o, object.id) /\ Injective(r.objs)
    BY <2>2, NothingUnborn DEF OrderInv, RequestsOK, Pending, Answerable
  <2>4. Carries(sync, sync', o, object.id, {}, {})
    <3>1. PICK id : id = object.id
      OBVIOUS
    <3>2. InOrder(sync, o, id, {}) /\ Answerable(r, o, id)
      BY <2>2, <2>3, <3>1 DEF ObjectOK
    <3>3. CASE Receive(r)
      BY <1>2, <3>1, <3>2, <3>3, ReceiveCarries
    <3>4. CASE RequestFailed(r)
      BY <1>2, <2>3, <3>1, <3>2, <3>4, RequestFailedCarries
    <3> QED BY <3>3, <3>4
  <2>5. PICK w : w = sync'
    OBVIOUS
  <2>6. Carries(sync, w, o, object.id, {}, {})
    BY <2>4, <2>5
  <2>7. ObjectOK(w, o, object, row)
    BY <2>2, <2>6, ObjectCarried
  <2> QED BY <2>1, <2>5, <2>7
<1> QED
  BY <1>2, <1>3, <1>4 DEF OrderInv

\* The server answers a request, or its answer is lost.
LEMMA ReplacedCarries ==
    ASSUME NEW N \in Nat, QueueOK(sync, N), NEW r \in sync.sent, NEW s,
           s.n = r.n, s.op = r.op, s.objs = r.objs,
           NEW w, w = [sync EXCEPT !.sent = (@ \ {r}) \cup {s}],
           NEW o, NEW id, InOrder(sync, o, id, {})
    PROVE  Carries(sync, w, o, id, {}, {})
<1>1. /\ w.queue = sync.queue /\ w.sent = (sync.sent \ {r}) \cup {s}
      /\ w.mapped = sync.mapped /\ w.events = sync.events
  BY DEF QueueOK, SyncQueues
<1>2. r \notin Elems(sync.queue)
  BY OneItem DEF Pending
<1>3. \A i \in ContentOf(w, o) : \E j \in ContentOf(sync, o) :
          /\ i.n = j.n /\ i.op = j.op
          /\ j \in Elems(sync.queue) => i = j
          /\ i \in Elems(w.queue) => i = j
  <2>1. SUFFICES ASSUME NEW i \in ContentOf(w, o)
                 PROVE  \E j \in ContentOf(sync, o) :
                            /\ i.n = j.n /\ i.op = j.op
                            /\ j \in Elems(sync.queue) => i = j
                            /\ i \in Elems(w.queue) => i = j
    OBVIOUS
  <2>2. CASE i \in Pending(sync)
    BY <2>2 DEF ContentOf
  <2>3. CASE i \notin Pending(sync)
    <3>1. i = s /\ i \notin Elems(w.queue)
      BY <2>3, <1>1 DEF ContentOf, Pending
    <3>2. r \in ContentOf(sync, o)
      BY <3>1 DEF ContentOf, Pending, IsContent
    <3> QED BY <3>1, <3>2, <1>2
  <2> QED BY <2>2, <2>3
<1>4. Waiting(w, o) = Waiting(sync, o)
  <2>1. Waiting(w, o) \subseteq Waiting(sync, o)
    BY <1>3 DEF Waiting
  <2>2. ASSUME NEW j \in ContentOf(sync, o) PROVE \E i \in ContentOf(w, o) : i.n = j.n
    <3>1. CASE j = r
      <4>1. s \in ContentOf(w, o)
        BY <3>1, <1>1 DEF ContentOf, Pending, IsContent
      <4> QED BY <3>1, <4>1
    <3>2. CASE j # r
      BY <3>2, <1>1 DEF ContentOf, Pending
    <3> QED BY <3>1, <3>2
  <2> QED BY <2>1, <2>2 DEF Waiting
<1>5. Chained(w, o)
  <2>1. SUFFICES ASSUME NEW i \in ContentOf(w, o), NEW j \in ContentOf(w, o), i.n < j.n
                 PROVE  j \in Elems(w.queue) /\ j.op = "Update" /\ DependencyOn(i, o) \in j.deps
    BY DEF Chained
  <2>2. PICK i0 \in ContentOf(sync, o) : i.n = i0.n /\ i.op = i0.op
    BY <1>3
  <2>3. PICK j0 \in ContentOf(sync, o) : j.n = j0.n /\ (j0 \in Elems(sync.queue) => j = j0)
    BY <1>3
  <2>4. j0 \in Elems(sync.queue) /\ j0.op = "Update" /\ DependencyOn(i0, o) \in j0.deps
    BY <2>1, <2>2, <2>3 DEF InOrder, Chained
  <2>5. DependencyOn(i, o) = DependencyOn(i0, o)
    BY <2>2 DEF DependencyOn
  <2> QED BY <2>3, <2>4, <2>5, <1>1
<1>6. Named(w, o, id)
  <2>1. \A i \in ContentOf(w, o) : \E j \in ContentOf(sync, o) :
            /\ i.op = j.op
            /\ (i \in Elems(w.queue) \/ j \in Elems(sync.queue)) => i = j
    BY <1>3
  <2> QED BY <2>1, <1>1 DEF InOrder, Named
<1> QED
  BY <1>1, <1>4, <1>5, <1>6 DEF Carries, InOrder, Live

LEMMA ReplacedOrder ==
    ASSUME TypeInv, OrderInv, NEW r \in sync.sent, NEW s,
           s.n = r.n, s.op = r.op, s.objs = r.objs,
           s.answer = "Rejected" => s.objs[1] \notin Preferences,
           sync' = [sync EXCEPT !.sent = (@ \ {r}) \cup {s}], UNCHANGED <<model, saved>>
    PROVE  OrderInv'
<1>1. PICK N \in Nat : N = next
  BY DEF TypeInv
<1>2. PICK w : w = [sync EXCEPT !.sent = (@ \ {r}) \cup {s}]
  OBVIOUS
<1>3. QueueOK(sync, N) /\ w.queue = sync.queue /\ w.sent = (sync.sent \ {r}) \cup {s}
  BY <1>1, <1>2 DEF TypeInv, QueueOK, SyncQueues
<1>4. RequestsOK(w)
  BY <1>3 DEF OrderInv, RequestsOK, Pending
<1>5. ASSUME NEW o \in Objects \ TeamObjects
      PROVE  ObjectOK(w, o, model[o], saved[o])
  <2>1. PICK object, row : object = model[o] /\ row = saved[o]
    OBVIOUS
  <2>2. PICK id : id = object.id
    OBVIOUS
  <2>3. ObjectOK(sync, o, object, row) /\ InOrder(sync, o, id, {})
    BY <2>1, <2>2 DEF OrderInv, ObjectOK
  <2>4. Carries(sync, w, o, id, {}, {})
    BY <1>2, <1>3, <2>3, ReplacedCarries
  <2>5. ObjectOK(w, o, object, row)
    BY <2>2, <2>3, <2>4, ObjectCarried
  <2> QED BY <2>1, <2>5
<1> QED
  BY <1>2, <1>4, <1>5 DEF OrderInv

LEMMA ServeOrder ==
    ASSUME TypeInv, OrderInv, NEW r \in sync.sent, Serve(r) \/ LoseAnswer(r)
    PROVE  OrderInv'
<1>1. r \in Requests
  BY DEF TypeInv, QueueOK, SyncQueues
<1>2. CASE Serve(r)
  <2>1. PICK answer \in AnswerKinds :
            Answer(r, answer) /\ (answer = "Rejected" => r.objs[1] \notin Preferences)
    BY <1>2 DEF Serve, ApplyCreation, DenyCreation, FindKeyConflict, ApplyUpdate, ApplyRecord, AnswerKinds
  <2>2. PICK f : f = [o \in Elems(r.objs) |-> server'[o]]
    OBVIOUS
  <2>3. PICK s : s = [r EXCEPT !.answer = answer, !.found = f]
    OBVIOUS
  <2>4. /\ s.n = r.n /\ s.op = r.op /\ s.objs = r.objs
        /\ s.answer = "Rejected" => s.objs[1] \notin Preferences
    BY <1>1, <2>1, <2>3 DEF Requests
  <2>5. sync' = [sync EXCEPT !.sent = (@ \ {r}) \cup {s}] /\ UNCHANGED <<model, saved>>
    BY <2>1, <2>2, <2>3 DEF Answer
  <2> QED BY <2>4, <2>5, ReplacedOrder
<1>3. CASE LoseAnswer(r)
  <2>1. PICK s : s = [r EXCEPT !.answer = "None", !.found = <<>>, !.resent = @ + 1]
    OBVIOUS
  <2>2. /\ s.n = r.n /\ s.op = r.op /\ s.objs = r.objs
        /\ s.answer = "Rejected" => s.objs[1] \notin Preferences
    BY <1>1, <2>1 DEF Requests
  <2>3. sync' = [sync EXCEPT !.sent = (@ \ {r}) \cup {s}] /\ UNCHANGED <<model, saved>>
    BY <1>3, <2>1 DEF LoseAnswer
  <2> QED BY <2>2, <2>3, ReplacedOrder
<1> QED
  BY <1>2, <1>3

\* The first event is taken off; it told of an item, or of nothing that is counted.
LEMMA DeliveredCarries ==
    ASSUME NEW N \in Nat, QueueOK(sync, N), DependenciesOK(sync, {}), ~Quiet,
           NEW o, NEW old, InOrder(sync, o, old, {}),
           NEW e, e = Head(sync.events), NEW id,
           \/ id = old /\ ~(e.kind = "Created" /\ e.o = o)
           \/ id = "Server" /\ e.kind = "Created" /\ e.o = o
           \/ id = "Deleted"
    PROVE  /\ InOrder(Delivered, o, id, {})
           /\ ~About(e, o) => Live(Delivered, o) = Live(sync, o)
           /\ About(e, o) => /\ e.n \in Live(sync, o) /\ Live(Delivered, o) = Live(sync, o) \ {e.n}
                             /\ e.kind = "KeyConflict" => Live(Delivered, o) = {}
           /\ e.o = o => /\ e.kind = "Rejected" => o \notin Preferences /\ old \notin {"None", "Client"}
<1> DEFINE v == Delivered
           x == sync.events
           y == Tail(sync.events)
<1>1. /\ v.queue = sync.queue /\ v.sent = sync.sent /\ v.mapped = sync.mapped /\ v.events = y
  BY DeliveredOK
<1>2. x \in Seq(Events) /\ x # <<>>
  BY DEF QueueOK, SyncQueues, Quiet
<1> HIDE DEF v
<1>3. /\ DOMAIN x = 1..Len(x) /\ Len(x) \in Nat /\ Len(x) >= 1 /\ e = x[1]
      /\ DOMAIN y = 1..(Len(x) - 1) /\ \A p \in DOMAIN y : y[p] = x[p + 1]
  BY <1>2
<1>4. /\ 1 \in DOMAIN x /\ \A p \in DOMAIN x : p \in Nat /\ p >= 1
      /\ \A p \in DOMAIN y : p \in Nat /\ p + 1 \in DOMAIN x /\ p + 1 # 1 /\ y[p] = x[p + 1]
      /\ \A p \in DOMAIN x : p # 1 => p - 1 \in DOMAIN y /\ y[p - 1] = x[p]
  BY <1>3
<1> HIDE DEF x, y
<1>5. ContentOf(v, o) = ContentOf(sync, o) /\ Waiting(v, o) = Waiting(sync, o)
  BY <1>1 DEF ContentOf, Pending, Waiting
<1>6. TellsOnce(x, o, Waiting(sync, o))
  <2>1. Waiting(sync, o) \cup {} = Waiting(sync, o)
    OBVIOUS
  <2> QED BY <2>1 DEF InOrder, x
<1>7. TellsOnce(y, o, Waiting(sync, o))
  <2>1. ASSUME NEW p \in DOMAIN y, NEW q \in DOMAIN y, About(y[p], o), About(y[q], o), y[p].n = y[q].n
        PROVE  p = q
    <3>1. p + 1 = q + 1
      BY <2>1, <1>4, <1>6 DEF TellsOnce
    <3> QED BY <3>1, <1>4
  <2>2. ASSUME NEW p \in DOMAIN y, About(y[p], o)
        PROVE  /\ y[p].n \notin Waiting(sync, o)
               /\ y[p].kind = "KeyConflict" =>
                     Waiting(sync, o) = {} /\ \A q \in DOMAIN y : q > p => ~About(y[q], o)
    <3>1. /\ y[p].n \notin Waiting(sync, o)
          /\ y[p].kind = "KeyConflict" =>
                Waiting(sync, o) = {} /\ \A q \in DOMAIN x : q > p + 1 => ~About(x[q], o)
      BY <2>2, <1>4, <1>6 DEF TellsOnce
    <3>2. \A q \in DOMAIN y : q > p => q + 1 \in DOMAIN x /\ q + 1 > p + 1
      BY <1>4
    <3> QED BY <3>1, <3>2, <1>4
  <2> QED BY <2>1, <2>2 DEF TellsOnce
<1>8. Announced(x, o) = Announced(y, o) \cup (IF About(e, o) THEN {e.n} ELSE {})
  <2>1. ASSUME NEW p \in DOMAIN x, About(x[p], o)
        PROVE  x[p].n \in Announced(y, o) \cup (IF About(e, o) THEN {e.n} ELSE {})
    <3>1. CASE p = 1
      BY <2>1, <3>1, <1>3
    <3>2. CASE p # 1
      BY <2>1, <3>2, <1>4 DEF Announced
    <3> QED BY <3>1, <3>2
  <2>2. ASSUME NEW p \in DOMAIN y, About(y[p], o) PROVE y[p].n \in Announced(x, o)
    BY <2>2, <1>4 DEF Announced
  <2>3. About(e, o) => e.n \in Announced(x, o)
    BY <1>3, <1>4 DEF Announced
  <2> QED BY <2>1, <2>2, <2>3 DEF Announced
<1>9. ASSUME About(e, o)
      PROVE  /\ e.n \notin Announced(y, o) /\ e.n \notin Waiting(sync, o)
             /\ e.kind = "KeyConflict" => Announced(y, o) = {} /\ Waiting(sync, o) = {}
  <2>1. ASSUME NEW p \in DOMAIN y, About(y[p], o) PROVE y[p].n # e.n
    BY <2>1, <1>3, <1>4, <1>6, <1>9 DEF TellsOnce
  <2>2. ASSUME e.kind = "KeyConflict", NEW p \in DOMAIN y PROVE ~About(y[p], o)
    <3>1. p + 1 \in DOMAIN x /\ p + 1 > 1 /\ y[p] = x[p + 1]
      BY <1>4
    <3> QED BY <2>2, <3>1, <1>3, <1>4, <1>6, <1>9 DEF TellsOnce
  <2>3. /\ e.n \notin Waiting(sync, o)
        /\ e.kind = "KeyConflict" => Waiting(sync, o) = {}
    BY <1>3, <1>4, <1>6, <1>9 DEF TellsOnce
  <2> QED BY <2>1, <2>2, <2>3 DEF Announced
<1>10. Named(v, o, id)
  <2>1. Named(sync, o, old)
    BY DEF InOrder
  <2>2. \A p \in DOMAIN y : y[p].o = o =>
            /\ y[p].kind = "Created" => o \in sync.mapped
            /\ y[p].kind = "Rejected" => o \notin Preferences /\ old \notin {"None", "Client"}
    BY <2>1, <1>4 DEF Named, x
  <2>3. e.o = o /\ e.kind = "Created" => o \in sync.mapped
    BY <2>1, <1>3, <1>4 DEF Named, x
  <2>4. CASE id = old /\ ~(e.kind = "Created" /\ e.o = o)
    <3>1. ASSUME id = "Client", o \in v.mapped
          PROVE  \E p \in DOMAIN y : y[p].kind = "Created" /\ y[p].o = o
      <4>1. PICK p \in DOMAIN x : x[p].kind = "Created" /\ x[p].o = o
        BY <2>1, <2>4, <3>1, <1>1 DEF Named, x
      <4>2. p # 1
        BY <2>4, <4>1, <1>3
      <4> QED BY <4>1, <4>2, <1>4
    <3> QED BY <2>1, <2>2, <2>4, <3>1, <1>1, <1>5 DEF Named
  <2>5. CASE id = "Server" /\ e.kind = "Created" /\ e.o = o
    BY <2>2, <2>3, <2>5, <1>1 DEF Named
  <2>6. CASE id = "Deleted"
    BY <2>2, <2>6, <1>1 DEF Named
  <2> QED BY <2>4, <2>5, <2>6
<1>11. Chained(v, o)
  BY <1>1, <1>5 DEF InOrder, Chained
<1>12. InOrder(v, o, id, {})
  <2>1. Waiting(sync, o) \cup {} = Waiting(sync, o)
    OBVIOUS
  <2> QED BY <2>1, <1>1, <1>5, <1>7, <1>10, <1>11 DEF InOrder
<1>13. Live(sync, o) = Waiting(sync, o) \cup Announced(x, o) /\ Live(v, o) = Waiting(sync, o) \cup Announced(y, o)
  BY <1>1, <1>5 DEF Live, x
<1>14. e.o = o => (e.kind = "Rejected" => o \notin Preferences /\ old \notin {"None", "Client"})
  BY <1>3, <1>4 DEF InOrder, Named, x
<1> QED
  BY <1>8, <1>9, <1>12, <1>13, <1>14 DEF v

\* One answer fewer is expected.
LEMMA OneLess ==
    ASSUME NEW L, NEW n \in L, NEW status \in Int, NEW idle \in Int, idle <= 0,
           IF status > 0 THEN IsFiniteSet(L) /\ Cardinality(L) = status ELSE L = {}
    PROVE  LET left == Decrement(status, idle)
           IN  IF left > 0 THEN IsFiniteSet(L \ {n}) /\ Cardinality(L \ {n}) = left ELSE L \ {n} = {}
<1>1. status > 0 /\ IsFiniteSet(L) /\ Cardinality(L) = status
  OBVIOUS
<1>2. IsFiniteSet(L \ {n}) /\ Cardinality(L \ {n}) = status - 1
  BY <1>1, FS_RemoveElement
<1>3. status = 1 => L \ {n} = {}
  BY <1>2, FS_EmptySet
<1> QED
  BY <1>1, <1>2, <1>3 DEF Decrement

\* What each event does to its object.
LEMMA HandledObjectOrder ==
    ASSUME TypeInv, OrderInv, ~Quiet, NEW e, e = Head(sync.events), e \in Events,
           e.o \notin TeamObjects,
           \/ HandleCreated(e) \/ HandleUpdated(e) \/ HandleFailed(e) \/ HandleKeyConflict(e)
           \/ HandleRejected(e) \/ HandleRecorded(e)
    PROVE  ObjectOK(Delivered, e.o, model'[e.o], saved'[e.o])
<1>1. PICK o, object, row, object2, row2 :
          /\ o = e.o /\ object = model[o] /\ row = saved[o]
          /\ object2 = model'[o] /\ row2 = saved'[o]
  OBVIOUS
<1>2. PICK N \in Nat : N = next
  BY DEF TypeInv
<1>3. /\ o \in Objects /\ object \in ModelObjects /\ row \in Rows /\ object.status \in Int
      /\ model \in [Objects -> ModelObjects] /\ saved \in [Objects -> Rows]
  BY <1>1 DEF TypeInv, ObjectsOK, Events, ModelObjects
<1>4. ObjectOK(sync, o, object, row)
  BY <1>1, <1>3 DEF OrderInv
<1>5. /\ InOrder(sync, o, object.id, {}) /\ Counted(sync, o, object) /\ Personal(object, row)
      /\ QueueOK(sync, N) /\ DependenciesOK(sync, {})
  BY <1>2, <1>4 DEF ObjectOK, TypeInv
<1> DEFINE L == Live(sync, o)
           M == Live(Delivered, o)
           Follows(id) == \/ id = object.id /\ ~(e.kind = "Created" /\ e.o = o)
                          \/ id = "Server" /\ e.kind = "Created" /\ e.o = o
                          \/ id = "Deleted"
<1>6. ASSUME NEW id, Follows(id)
      PROVE  /\ InOrder(Delivered, o, id, {})
             /\ ~About(e, o) => M = L
             /\ About(e, o) => e.n \in L /\ M = L \ {e.n} /\ (e.kind = "KeyConflict" => M = {})
             /\ e.kind = "Rejected" => o \notin Preferences /\ object.id \notin {"None", "Client"}
  <2>1. PICK old : old = object.id
    OBVIOUS
  <2>2. InOrder(sync, o, old, {})
    BY <1>5, <2>1
  <2>3. \/ id = old /\ ~(e.kind = "Created" /\ e.o = o)
        \/ id = "Server" /\ e.kind = "Created" /\ e.o = o
        \/ id = "Deleted"
    BY <1>6, <2>1
  <2>4. /\ InOrder(Delivered, o, id, {})
        /\ ~About(e, o) => Live(Delivered, o) = Live(sync, o)
        /\ About(e, o) => /\ e.n \in Live(sync, o) /\ Live(Delivered, o) = Live(sync, o) \ {e.n}
                          /\ e.kind = "KeyConflict" => Live(Delivered, o) = {}
        /\ e.o = o => /\ e.kind = "Rejected" => o \notin Preferences /\ old \notin {"None", "Client"}
    BY <1>5, <2>2, <2>3, DeliveredCarries
  <2> QED BY <2>1, <2>4, <1>1
<1>7. e.kind \in Settling <=> About(e, o)
  BY <1>1 DEF About
<1>8. NoLocalChanges \in Int /\ NoLocalChanges <= 0 /\ Errored \in Int /\ Errored <= 0
  BY DEF NoLocalChanges, Errored
<1> HIDE DEF L, M
<1>9. ASSUME NEW idle \in Int, idle <= 0, About(e, o), object2.status = Decrement(object.status, idle),
             IsCounted(o, object2.id) => IsCounted(o, object.id),
             Follows(object2.id)
      PROVE  Counted(Delivered, o, object2)
  <2>1. SUFFICES ASSUME IsCounted(o, object.id)
                 PROVE  IF object2.status > 0
                        THEN IsFiniteSet(M) /\ Cardinality(M) = object2.status
                        ELSE M = {}
    BY <1>9 DEF Counted, M
  <2>2. e.n \in L /\ M = L \ {e.n}
    BY <1>6, <1>9
  <2>3. IF object.status > 0 THEN IsFiniteSet(L) /\ Cardinality(L) = object.status ELSE L = {}
    BY <1>5, <2>1 DEF Counted, L
  <2>4. PICK n, status : n = e.n /\ status = object.status
    OBVIOUS
  <2>5. /\ n \in L /\ status \in Int
        /\ IF status > 0 THEN IsFiniteSet(L) /\ Cardinality(L) = status ELSE L = {}
    BY <1>3, <2>2, <2>3, <2>4
  <2>6. LET left == Decrement(status, idle)
        IN  IF left > 0 THEN IsFiniteSet(L \ {n}) /\ Cardinality(L \ {n}) = left ELSE L \ {n} = {}
    BY <1>9, <2>5, OneLess
  <2> QED BY <1>9, <2>2, <2>4, <2>6
<1>10. ASSUME NEW idle \in {NoLocalChanges, Errored}, NEW status, status = Decrement(object.status, idle)
       PROVE  IsPending(status) => (IsPending(object.status) \/ status = Errored)
  BY <1>3, <1>10 DEF Decrement, IsPending, NoLocalChanges, Errored, InConflict
<1>11. CASE HandleCreated(e)
  <2>1. /\ e.kind = "Created"
        /\ object2 = [object EXCEPT !.id = "Server", !.rev = e.rev, !.status = Decrement(@, NoLocalChanges)]
        /\ row2 = MarkSynced([row EXCEPT !.id = "Server"], object.status, e.rev)
    BY <1>1, <1>3, <1>11 DEF HandleCreated
  <2>2. /\ object2.id = "Server" /\ object2.team = object.team
        /\ object2.status = Decrement(object.status, NoLocalChanges)
    BY <1>3, <2>1 DEF ModelObjects
  <2>3. row2.id = "Server" /\ row2.team = row.team
    BY <1>3, <2>1 DEF MarkSynced, Rows
  <2>4. About(e, o)
    BY <1>7, <2>1 DEF Settling
  <2>5. IsCounted(o, object2.id) => IsCounted(o, object.id)
    BY <2>2 DEF IsCounted
  <2>6. Follows(object2.id)
    BY <1>1, <2>1, <2>2
  <2>7. Counted(Delivered, o, object2)
    BY <1>8, <1>9, <2>2, <2>4, <2>5, <2>6
  <2>8. Personal(object2, row2)
    BY <1>5, <2>2, <2>3 DEF Personal, Exists
  <2>9. InOrder(Delivered, o, object2.id, {})
    BY <1>6, <2>6
  <2> QED BY <1>1, <2>7, <2>8, <2>9 DEF ObjectOK
<1>12. CASE HandleUpdated(e)
  <2>1. e.kind = "Updated" /\ row2 = MarkSynced(row, object.status, e.rev)
    BY <1>1, <1>3, <1>12 DEF HandleUpdated
  <2>2. PICK conflict : object2 = [object EXCEPT !.rev = e.rev, !.status = Decrement(@, NoLocalChanges),
                                                 !.conflict = conflict]
    BY <1>1, <1>3, <1>12 DEF HandleUpdated
  <2>3. /\ object2.id = object.id /\ object2.team = object.team
        /\ object2.status = Decrement(object.status, NoLocalChanges)
    BY <1>3, <2>2 DEF ModelObjects
  <2>4. row2.id = row.id /\ row2.team = row.team /\ (row2.pending => row.pending)
    BY <1>3, <2>1 DEF MarkSynced, Rows
  <2>5. About(e, o) /\ Follows(object2.id)
    BY <1>7, <2>1, <2>3 DEF Settling
  <2>6. Counted(Delivered, o, object2)
    BY <1>8, <1>9, <2>3, <2>5
  <2>7. Personal(object2, row2)
    <3>1. IsPending(object2.status) => IsPending(object.status)
      BY <1>3, <2>3 DEF Decrement, IsPending, NoLocalChanges, InConflict
    <3> QED BY <1>5, <2>3, <2>4, <3>1 DEF Personal, Exists
  <2>8. InOrder(Delivered, o, object2.id, {})
    BY <1>6, <2>5
  <2> QED BY <1>1, <2>6, <2>7, <2>8 DEF ObjectOK
<1>13. CASE HandleFailed(e)
  <2>1. e.kind \in {"Failed", "Denied"} /\ row2 = row
    BY <1>1, <1>13 DEF HandleFailed
  <2>2. object2 = [object EXCEPT !.status = Decrement(@, Errored)]
    BY <1>1, <1>3, <1>13 DEF HandleFailed
  <2>3. /\ object2.id = object.id /\ object2.team = object.team
        /\ object2.status = Decrement(object.status, Errored)
    BY <1>3, <2>2 DEF ModelObjects
  <2>4. About(e, o) /\ Follows(object2.id)
    BY <1>7, <2>1, <2>3 DEF Settling
  <2>5. Counted(Delivered, o, object2)
    BY <1>8, <1>9, <2>3, <2>4
  <2>6. Personal(object2, row2)
    <3>1. IsPending(object2.status) => IsPending(object.status)
      BY <1>3, <2>3 DEF Decrement, IsPending, NoLocalChanges, Errored, InConflict
    <3> QED BY <1>5, <2>1, <2>3, <3>1 DEF Personal, Exists
  <2>7. InOrder(Delivered, o, object2.id, {})
    BY <1>6, <2>4
  <2> QED BY <1>1, <2>5, <2>6, <2>7 DEF ObjectOK
<1>14. CASE HandleKeyConflict(e)
  <2>1. e.kind = "KeyConflict" /\ object2 = [Unborn EXCEPT !.id = "Deleted"] /\ row2 = Upsert(object2)
    BY <1>1, <1>3, <1>14 DEF HandleKeyConflict
  <2>2. object2.id = "Deleted" /\ ~object2.team /\ object2.status = NoLocalChanges
    BY <2>1 DEF Unborn
  <2>3. ~row2.team /\ ~row2.pending
    BY <2>1, <2>2 DEF Upsert, IsPending
  <2>4. About(e, o) /\ Follows(object2.id)
    BY <1>7, <2>1, <2>2 DEF Settling
  <2>5. M = {}
    BY <1>6, <2>1, <2>4
  <2>6. Counted(Delivered, o, object2)
    BY <2>2, <2>5 DEF Counted, M, NoLocalChanges
  <2>7. Personal(object2, row2)
    BY <2>2, <2>3 DEF Personal, IsPending
  <2>8. InOrder(Delivered, o, object2.id, {})
    BY <1>6, <2>4
  <2> QED BY <1>1, <2>6, <2>7, <2>8 DEF ObjectOK
<1>15. CASE HandleRejected(e)
  <2>1. e.kind = "Rejected"
    BY <1>15 DEF HandleRejected
  <2>2. About(e, o) /\ Follows(object.id)
    BY <1>7, <2>1 DEF Settling
  <2>3. o \notin Preferences /\ object.id \notin {"None", "Client"} /\ InOrder(Delivered, o, object.id, {})
    BY <1>6, <2>1, <2>2
  <2>4. CASE KeepLocalContent(e) \/ IgnoreRejection(e)
    <3>1. o \in Notebooks \cup Facts
      BY <1>1, <2>3, <2>4 DEF KeepLocalContent, IgnoreRejection
    <3>2. ~IsCounted(o, object.id)
      BY <2>3, <3>1, KindsAssumption DEF IsCounted
    <3>3. /\ object2.id = object.id /\ object2.team = object.team /\ row2 = row
          /\ IsPending(object2.status) => IsPending(object.status)
      <4>1. CASE KeepLocalContent(e)
        <5>1. PICK conflict : object2 = [object EXCEPT !.conflict = conflict, !.status = InConflict]
          BY <1>1, <1>3, <4>1 DEF KeepLocalContent
        <5>2. object2.id = object.id /\ object2.team = object.team /\ object2.status = InConflict
          BY <1>3, <5>1 DEF ModelObjects
        <5>3. row2 = row
          BY <1>1, <4>1 DEF KeepLocalContent
        <5> QED BY <5>2, <5>3 DEF IsPending
      <4>2. CASE IgnoreRejection(e)
        <5>1. object2 = object /\ row2 = row
          BY <1>1, <4>2 DEF IgnoreRejection
        <5> QED BY <5>1
      <4> QED BY <2>4, <4>1, <4>2
    <3>4. Counted(Delivered, o, object2) /\ Personal(object2, row2)
      BY <1>5, <3>2, <3>3 DEF Counted, Personal, Exists
    <3> QED BY <1>1, <2>3, <3>3, <3>4 DEF ObjectOK
  <2>5. CASE TakeServerContent(e)
    <3>1. object2 = [object EXCEPT !.content = e.content, !.rev = e.rev,
                                   !.status = Decrement(@, NoLocalChanges)]
          /\ row2 = Upsert(object2)
      BY <1>1, <1>3, <2>5 DEF TakeServerContent
    <3>2. /\ object2.id = object.id /\ object2.team = object.team
          /\ object2.status = Decrement(object.status, NoLocalChanges)
      BY <1>3, <3>1 DEF ModelObjects
    <3>3. Counted(Delivered, o, object2)
      BY <1>8, <1>9, <2>2, <3>2
    <3>4. IsPending(object2.status) => IsPending(object.status)
      BY <1>3, <3>2 DEF Decrement, IsPending, NoLocalChanges, InConflict
    <3>5. row2.pending = IsPending(object2.status) /\ row2.id = object2.id /\ row2.team = object2.team
      BY <3>1 DEF Upsert
    <3>6. Personal(object2, row2)
      BY <1>5, <3>2, <3>4, <3>5 DEF Personal, Exists
    <3> QED BY <1>1, <2>3, <3>2, <3>3, <3>6 DEF ObjectOK
  <2> QED BY <2>4, <2>5, <1>15 DEF HandleRejected
<1>16. CASE HandleRecorded(e)
  <2>1. e.kind \in {"Recorded", "NotRecorded"} /\ object2 = object /\ row2 = row
    BY <1>1, <1>16 DEF HandleRecorded
  <2>2. ~About(e, o) /\ Follows(object.id)
    BY <1>7, <2>1 DEF Settling
  <2>3. M = L /\ InOrder(Delivered, o, object.id, {})
    BY <1>6, <2>2
  <2> QED BY <1>1, <1>4, <2>1, <2>3 DEF ObjectOK, Counted, M, L
<1> QED
  BY <1>11, <1>12, <1>13, <1>14, <1>15, <1>16

\* An enqueued item is one more item.
LEMMA EnqueueRequests ==
    ASSUME NEW v, NEW N \in Nat, QueueOK(v, N), RequestsOK(v), NEW item \in Items, item.n = N,
           item.op # "Bulk" => Len(item.objs) = 1,
           item.op \in {"Bulk", "Record"} => item.refs = {}, Injective(item.objs)
    PROVE  RequestsOK(Enqueue(v, item))
<1> DEFINE new == Inferred(v, item).item
           u == Queued(v, item)
<1>1. /\ QueueOK(u, N + 1) /\ Enqueue(v, item) = Dequeue(u)
      /\ Elems(u.queue) = Elems(v.queue) \cup {new}
      /\ u.sent = v.sent /\ u.mapped = v.mapped
      /\ u.events = v.events \o Inferred(v, item).events
  BY QueuedOK
<1>2. new.objs = item.objs
  <2>1. v \in SyncQueues
    BY DEF QueueOK
  <2>2. /\ new \in Items /\ Same(new, item) /\ new.refs \subseteq item.refs
        /\ (item.op # "Update" /\ item.refs = {}) => new.deps = {}
        /\ \A d \in new.deps : \E j \in Pending(v) : Settles(j, d)
        /\ Inferred(v, item).events \in Seq(Events)
    BY <2>1, InferredProperties
  <2> QED BY <2>2 DEF Same
<1> HIDE DEF new, u
<1>3. RequestsOK(u)
  BY <1>1, <1>2 DEF RequestsOK, Pending
<1>4. Evolves(u, Dequeue(u), {})
  <2>1. PICK M \in Nat : M = N + 1
    OBVIOUS
  <2>2. QueueOK(u, M)
    BY <1>1, <2>1
  <2> QED BY <2>2, DequeueOK
<1>5. PICK w : w = Dequeue(u)
  OBVIOUS
<1>6. Evolves(u, w, {})
  BY <1>4, <1>5
<1> QED
  BY <1>1, <1>3, <1>5, <1>6, RequestsEvolve

\* What the other objects see of an event.
LEMMA OthersHandled ==
    ASSUME ObjectsOK, NEW e \in Events,
           \/ HandleCreated(e) \/ HandleUpdated(e) \/ HandleFailed(e) \/ HandleKeyConflict(e)
           \/ HandleDenied(e) \/ HandleRejected(e) \/ HandleRecorded(e),
           NEW o \in Objects, o # e.o
    PROVE  model'[o] = model[o] /\ (saved'[o] = saved[o] \/ saved'[o] = Upsert(model[o]))
<1>1. model \in [Objects -> ModelObjects] /\ saved \in [Objects -> Rows]
  BY DEF ObjectsOK
<1>2. CASE HandleCreated(e)
  <2>1. PICK row, naming : saved' = [p \in Objects |-> IF p = e.o THEN row
                                                ELSE IF p \in naming THEN Upsert(model[p]) ELSE saved[p]]
    BY <1>2 DEF HandleCreated
  <2>2. PICK object : model' = [model EXCEPT ![e.o] = object]
    BY <1>2 DEF HandleCreated
  <2> QED BY <1>1, <2>1, <2>2
<1>3. CASE HandleUpdated(e) \/ HandleKeyConflict(e) \/ HandleDenied(e)
  <2>1. PICK object, row : model' = [model EXCEPT ![e.o] = object] /\ saved' = [saved EXCEPT ![e.o] = row]
    BY <1>3 DEF HandleUpdated, HandleKeyConflict, HandleDenied
  <2> QED BY <1>1, <2>1
<1>4. CASE HandleFailed(e)
  <2>1. PICK status : model' = [model EXCEPT ![e.o].status = status] /\ UNCHANGED saved
    BY <1>4 DEF HandleFailed
  <2> QED BY <1>1, <2>1
<1>5. CASE HandleRejected(e)
  <2>1. CASE KeepLocalContent(e)
    BY <1>1, <2>1 DEF KeepLocalContent
  <2>2. CASE TakeServerContent(e)
    <3>1. PICK object, row : model' = [model EXCEPT ![e.o] = object] /\ saved' = [saved EXCEPT ![e.o] = row]
      BY <2>2 DEF TakeServerContent
    <3> QED BY <1>1, <3>1
  <2>3. CASE IgnoreRejection(e)
    BY <2>3 DEF IgnoreRejection
  <2> QED BY <1>5, <2>1, <2>2, <2>3 DEF HandleRejected
<1>6. CASE HandleRecorded(e)
  BY <1>6 DEF HandleRecorded
<1> QED
  BY <1>2, <1>3, <1>4, <1>5, <1>6

\* What is written of an object keeps to what it says.
LEMMA PersonalWritten ==
    ASSUME NEW object, NEW row, Personal(object, row)
    PROVE  Personal(object, Upsert(object))
BY DEF Personal, Upsert, Exists

LEMMA DeliverOrder ==
    ASSUME TypeInv, OrderInv, Deliver PROVE OrderInv'
<1>1. PICK N \in Nat : N = next
  BY DEF TypeInv
<1>2. /\ QueueOK(sync, N) /\ DependenciesOK(sync, {}) /\ ~Quiet /\ ObjectsOK
      /\ model \in [Objects -> ModelObjects]
  BY <1>1 DEF TypeInv, Deliver, ObjectsOK
<1>3. PICK e : e = Head(sync.events)
  OBVIOUS
<1>4. PICK w : w = Delivered
  OBVIOUS
<1>5. /\ e \in Events /\ QueueOK(w, N) /\ w.queue = sync.queue /\ w.sent = sync.sent
  BY <1>2, <1>3, <1>4, DeliveredOK
<1>6. \/ HandleCreated(e) \/ HandleUpdated(e) \/ HandleFailed(e) \/ HandleKeyConflict(e)
      \/ HandleDenied(e) \/ HandleRejected(e) \/ HandleRecorded(e)
  BY <1>3 DEF Deliver
<1>7. RequestsOK(w)
  BY <1>5 DEF OrderInv, RequestsOK, Pending
<1>8. ASSUME NEW o \in Objects \ TeamObjects, o # e.o
      PROVE  ObjectOK(w, o, model'[o], saved'[o])
  <2>1. PICK object, row : object = model[o] /\ row = saved[o]
    OBVIOUS
  <2>2. ObjectOK(sync, o, object, row)
    BY <2>1 DEF OrderInv
  <2>3. PICK row2 : row2 = saved'[o]
    OBVIOUS
  <2>4. model'[o] = object /\ (row2 = row \/ row2 = Upsert(object))
    BY <1>2, <1>5, <1>6, <1>8, <2>1, <2>3, OthersHandled
  <2>5. PICK id : id = object.id
    OBVIOUS
  <2>6. InOrder(sync, o, id, {}) /\ ~About(e, o)
    BY <2>2, <2>5, <1>8 DEF ObjectOK, About
  <2>7. InOrder(Delivered, o, id, {}) /\ Live(Delivered, o) = Live(sync, o)
    BY <1>2, <1>3, <1>8, <2>6, DeliveredCarries
  <2>8. InOrder(w, o, object.id, {}) /\ Live(w, o) = Live(sync, o)
    BY <1>4, <2>5, <2>7
  <2>9. Personal(object, row2)
    BY <2>2, <2>4, PersonalWritten DEF ObjectOK
  <2>10. Counted(w, o, object)
    BY <2>2, <2>8 DEF ObjectOK, Counted
  <2>11. ObjectOK(w, o, object, row2)
    BY <2>8, <2>9, <2>10 DEF ObjectOK
  <2> QED BY <2>3, <2>4, <2>11
<1>9. CASE ~HandleDenied(e)
  <2>1. sync' = w
    BY <1>4, <1>6, <1>9 DEF HandleCreated, HandleUpdated, HandleFailed, HandleKeyConflict,
                            HandleRejected, HandleRecorded
  <2>2. e.o \notin TeamObjects => ObjectOK(w, e.o, model'[e.o], saved'[e.o])
    BY <1>2, <1>3, <1>4, <1>5, <1>6, <1>9, HandledObjectOrder
  <2>3. \A o \in Objects \ TeamObjects : ObjectOK(w, o, model'[o], saved'[o])
    BY <1>8, <2>2
  <2> QED BY <1>7, <2>1, <2>3 DEF OrderInv
<1>10. CASE HandleDenied(e)
  <2>1. e.o \in Objects /\ model[e.o].team
    BY <1>5, <1>10 DEF HandleDenied, Events
  <2>2. e.o \in TeamObjects
    BY <2>1 DEF OrderInv, ObjectOK, Personal
  <2> DEFINE moved == [model[e.o] EXCEPT !.team = FALSE]
  <2>3. moved \in ModelObjects
    BY <1>2, <2>1 DEF ModelObjects
  <2>4. PICK item : item = SyncItem(e.o, moved, N)
    OBVIOUS
  <2>5. sync' = Enqueue(w, item)
    BY <1>1, <1>4, <1>10, <2>4 DEF HandleDenied
  <2> HIDE DEF moved
  <2>6. /\ item \in Items /\ item.n = N /\ item.objs = <<e.o>> /\ Len(item.objs) = 1
        /\ item.op \in {"Create", "Update"}
    BY <2>1, <2>3, <2>4, SyncItemType
  <2>7. item.objs[1] = e.o /\ Elems(item.objs) = {e.o} /\ Injective(item.objs)
    BY <2>6 DEF Elems, Injective
  <2>8. RequestsOK(Enqueue(w, item))
    BY <1>5, <1>7, <2>6, <2>7, EnqueueRequests
  <2>9. PICK x : x = Enqueue(w, item)
    OBVIOUS
  <2>10. ASSUME NEW o \in Objects \ TeamObjects
         PROVE  ObjectOK(x, o, model'[o], saved'[o])
    <3>1. PICK object, row, id : object = model'[o] /\ row = saved'[o] /\ id = object.id
      OBVIOUS
    <3>2. ObjectOK(w, o, object, row) /\ InOrder(w, o, id, {})
      BY <1>8, <2>2, <3>1 DEF ObjectOK
    <3>3. Carries(w, Enqueue(w, item), o, id, {}, {})
      BY <1>5, <2>2, <2>6, <2>7, <3>2, OthersEnqueued
    <3>4. Carries(w, x, o, object.id, {}, {})
      BY <2>9, <3>1, <3>3
    <3>5. ObjectOK(x, o, object, row)
      BY <3>2, <3>4, ObjectCarried
    <3> QED BY <3>1, <3>5
  <2> QED BY <2>5, <2>8, <2>9, <2>10 DEF OrderInv
<1> QED
  BY <1>9, <1>10

\* What an edit of the object o changes of it.
EditsObject(item, o) ==
    /\ EditNames(sync, item, o, model[o].id, model'[o].id)
    /\ model'[o].status = IF model[o].status > 0 THEN model[o].status + 1 ELSE 1
    /\ IsCounted(o, model'[o].id) => IsCounted(o, model[o].id)
    /\ Personal(model'[o], saved'[o])

LEMMA OneMore ==
    ASSUME NEW L, NEW n, n \notin L, NEW status \in Int,
           IF status > 0 THEN IsFiniteSet(L) /\ Cardinality(L) = status ELSE L = {}
    PROVE  /\ IsFiniteSet(L \cup {n})
           /\ Cardinality(L \cup {n}) = IF status > 0 THEN status + 1 ELSE 1
<1>1. IsFiniteSet(L) /\ Cardinality(L) = IF status > 0 THEN status ELSE 0
  BY FS_EmptySet
<1> QED
  BY <1>1, FS_AddElement

\* What a step of the user enqueues.
Enqueues(item) ==
    /\ Quiet /\ EnqueueNext(item)
    /\ item \in Items /\ item.n = next /\ Injective(item.objs)
    /\ IF item.op = "Bulk" THEN Elems(item.objs) \subseteq Preferences ELSE Len(item.objs) = 1
    /\ (item.op \in {"Bulk", "Record"} \/ item.objs[1] \notin Workflows) => item.refs = {}
    /\ \A o \in Objects \ TeamObjects :
          IF IsContent(item) /\ o \in Elems(item.objs) THEN EditsObject(item, o)
          ELSE model'[o] = model[o] /\ saved'[o] = saved[o]

LEMMA EnqueueOrder ==
    ASSUME TypeInv, OrderInv, ~MayDangle, NEW item, Enqueues(item)
    PROVE  OrderInv'
<1>0. /\ Quiet /\ EnqueueNext(item)
      /\ item \in Items /\ item.n = next /\ Injective(item.objs)
      /\ item.op # "Bulk" => Len(item.objs) = 1
      /\ item.op \in {"Bulk", "Record"} => item.refs = {}
      /\ \A o \in Objects \ TeamObjects :
            IF IsContent(item) /\ o \in Elems(item.objs) THEN EditsObject(item, o)
            ELSE model'[o] = model[o] /\ saved'[o] = saved[o]
  BY DEF Enqueues
<1>1. PICK N \in Nat : N = next
  BY DEF TypeInv
<1>2. PICK v : v = sync
  OBVIOUS
<1>3. PICK w : w = Enqueue(v, item)
  OBVIOUS
<1>4. sync' = w
  BY <1>0, <1>2, <1>3 DEF EnqueueNext
<1>5. QueueOK(v, N) /\ item.n = N /\ model \in [Objects -> ModelObjects] /\ v.events = <<>>
  BY <1>0, <1>1, <1>2 DEF TypeInv, ObjectsOK, Quiet
<1>6. Inferred(v, item).events = <<>>
  <2>1. \A e \in item.refs : ItemsWithId(v, e, {TRUE}) # {}
    BY <1>0, <1>2 DEF EnqueueNext, MayEnqueue
  <2> QED BY <2>1, InferredEvents
<1>7. RequestsOK(w)
  <2>1. RequestsOK(v)
    BY <1>2 DEF OrderInv
  <2> QED BY <1>0, <1>3, <1>5, <2>1, EnqueueRequests
<1>8. \A o : N \notin Live(v, o)
  <2>1. \A i \in Pending(v) : i.n \in Nat /\ i.n < N
    <3>1. Elems(v.queue) \subseteq Items /\ v.sent \subseteq Requests
      BY <1>5, ElemsType DEF QueueOK, SyncQueues
    <3> QED BY <1>5, <3>1 DEF Pending, Items, Requests, QueueOK, ItemOK
  <2>2. \A o : Announced(v.events, o) = {}
    BY <1>5, NothingTold
  <2> QED BY <2>1, <2>2 DEF Live, Waiting, ContentOf
<1>9. ASSUME NEW o \in Objects \ TeamObjects
      PROVE  ObjectOK(w, o, model'[o], saved'[o])
  <2>1. PICK object, row, object2, row2, old, id :
            /\ object = model[o] /\ row = saved[o] /\ object2 = model'[o] /\ row2 = saved'[o]
            /\ old = object.id /\ id = object2.id
    OBVIOUS
  <2>2. /\ ObjectOK(v, o, object, row) /\ InOrder(v, o, old, {}) /\ object \in ModelObjects
        /\ Counted(v, o, object)
    BY <1>2, <1>5, <2>1 DEF OrderInv, ObjectOK
  <2>3. CASE ~(IsContent(item) /\ o \in Elems(item.objs))
    <3>1. Carries(v, Enqueue(v, item), o, old, {}, {})
      BY <1>0, <1>5, <1>6, <2>2, <2>3, OthersEnqueued
    <3>2. Carries(v, w, o, object.id, {}, {})
      BY <1>3, <2>1, <3>1
    <3>3. ObjectOK(w, o, object, row)
      BY <2>2, <3>2, ObjectCarried
    <3> QED BY <1>0, <2>1, <2>3, <3>3
  <2>4. CASE IsContent(item) /\ o \in Elems(item.objs)
    <3>1. EditsObject(item, o)
      BY <1>0, <2>4
    <3>2. /\ EditNames(v, item, o, old, id) /\ Personal(object2, row2)
          /\ object2.status = IF object.status > 0 THEN object.status + 1 ELSE 1
          /\ IsCounted(o, object2.id) => IsCounted(o, object.id)
      BY <1>2, <2>1, <3>1 DEF EditsObject
    <3>3. InOrder(Enqueue(v, item), o, id, {}) /\ Live(Enqueue(v, item), o) = Live(v, o) \cup {N}
      BY <1>0, <1>5, <1>6, <2>2, <2>4, <3>2, EditEnqueued
    <3>4. InOrder(w, o, object2.id, {}) /\ Live(w, o) = Live(v, o) \cup {N}
      BY <1>3, <2>1, <3>3
    <3>5. Counted(w, o, object2)
      <4>1. SUFFICES ASSUME IsCounted(o, object.id)
                     PROVE  IF object2.status > 0
                            THEN IsFiniteSet(Live(w, o)) /\ Cardinality(Live(w, o)) = object2.status
                            ELSE Live(w, o) = {}
        BY <3>2 DEF Counted
      <4>2. PICK L, status : L = Live(v, o) /\ status = object.status
        OBVIOUS
      <4>3. /\ status \in Int /\ N \notin L
            /\ IF status > 0 THEN IsFiniteSet(L) /\ Cardinality(L) = status ELSE L = {}
        BY <1>8, <2>2, <4>1, <4>2 DEF Counted, ModelObjects
      <4>4. /\ IsFiniteSet(L \cup {N})
            /\ Cardinality(L \cup {N}) = IF status > 0 THEN status + 1 ELSE 1
        BY <4>3, OneMore
      <4> QED BY <3>2, <3>4, <4>2, <4>3, <4>4
    <3>6. ObjectOK(w, o, object2, row2)
      BY <3>2, <3>4, <3>5 DEF ObjectOK
    <3> QED BY <2>1, <3>6
  <2> QED BY <2>3, <2>4
<1> QED
  BY <1>4, <1>7, <1>9 DEF OrderInv

\* An object that is Errored, or does not exist yet, has nothing under way; then it can be created.
LEMMA NothingUnderWay ==
    ASSUME NEW v, NEW o, NEW object \in ModelObjects, NEW row, ObjectOK(v, o, object, row),
           v.events = <<>>, object.id = "None" \/ (object.id = "Client" /\ object.status = Errored)
    PROVE  Live(v, o) = {} /\ o \notin v.mapped
<1>1. CASE object.id = "None"
  BY <1>1, NothingUnborn DEF ObjectOK, InOrder, Named
<1>2. CASE object.id = "Client" /\ object.status = Errored
  <2>1. Live(v, o) = {}
    BY <1>2 DEF ObjectOK, Counted, IsCounted, Errored
  <2>2. DOMAIN v.events = {}
    OBVIOUS
  <2> QED BY <1>2, <2>1, <2>2 DEF ObjectOK, InOrder, Named
<1> QED
  BY <1>1, <1>2

LEMMA CreateEnqueues ==
    ASSUME TypeInv, OrderInv, NEW o \in Objects, Create(o) PROVE \E item : Enqueues(item)
<1>0. (o \in TeamObjects) \in BOOLEAN
  OBVIOUS
<1>1. PICK team \in BOOLEAN : team = (o \in TeamObjects)
  BY <1>0
<1>2. PICK N \in Nat : N = next
  BY DEF TypeInv
<1>3. PICK object : object = [Unborn EXCEPT !.id = "Client", !.content = N, !.status = 1, !.team = team]
  OBVIOUS
<1>4. /\ object \in ModelObjects /\ object.id = "Client" /\ object.status = 1 /\ object.team = team
  <2>1. N \in Int /\ 1 \in Int
    OBVIOUS
  <2> QED BY <1>1, <1>3, <2>1, UnbornType DEF ModelObjects
<1>5. Save(o, object) /\ EnqueueNext(NewItem("Create", o, object, N)) /\ Quiet /\ model[o].id = "None"
  BY <1>1, <1>2, <1>3 DEF Create, IsBounded
<1>6. "Create" \in Operations
  BY DEF Operations
<1>7. PICK item : item = NewItem("Create", o, object, N)
  OBVIOUS
<1>8. /\ item \in Items /\ item.n = N /\ item.op = "Create" /\ item.objs = <<o>>
      /\ Len(item.objs) = 1 /\ item.deps = {} /\ item.content = object.content
      /\ item.client = (object.id = "Client") /\ item.refs = Refs(o, object)
      /\ [item EXCEPT !.refs = {}] \in Items
  BY <1>4, <1>6, <1>7, NewItemType
<1>9. Injective(item.objs) /\ Elems(item.objs) = {o} /\ IsContent(item) /\ item.op \in Creations
  BY <1>8 DEF Injective, Elems, IsContent, Creations
<1>10. ASSUME NEW p \in Objects \ TeamObjects
       PROVE  IF IsContent(item) /\ p \in Elems(item.objs) THEN EditsObject(item, p)
              ELSE model'[p] = model[p] /\ saved'[p] = saved[p]
  <2>1. CASE p # o
    BY <1>5, <1>9, <2>1 DEF Save, TypeInv, ObjectsOK
  <2>2. CASE p = o
    <3>1. PICK old, row : old = model[o] /\ row = saved[o]
      OBVIOUS
    <3>2. ObjectOK(sync, o, old, row) /\ old \in ModelObjects /\ old.id = "None" /\ sync.events = <<>>
      BY <1>5, <2>2, <3>1 DEF OrderInv, TypeInv, ObjectsOK, Quiet
    <3>3. Live(sync, o) = {} /\ o \notin sync.mapped
      BY <3>2, NothingUnderWay
    <3>4. model'[o] = object /\ saved'[o] = Upsert(object)
      BY <1>5 DEF Save, TypeInv, ObjectsOK
    <3>5. ~(old.status > 0)
      BY <3>2 DEF ObjectOK, Personal, Exists, IsPending, ModelObjects, NoLocalChanges, InConflict
    <3>6. ~team
      BY <1>1, <2>2
    <3>7. Personal(object, Upsert(object))
      BY <1>4, <3>6 DEF Personal, Exists, Upsert
    <3>8. EditNames(sync, item, o, old.id, object.id)
      BY <1>4, <1>9, <3>3 DEF EditNames
    <3>9. EditsObject(item, o)
      BY <1>4, <3>1, <3>2, <3>4, <3>5, <3>7, <3>8 DEF EditsObject, IsCounted
    <3> QED BY <1>9, <2>2, <3>9
  <2> QED BY <2>1, <2>2
<1>11. EnqueueNext(item) /\ item.n = next
  BY <1>2, <1>5, <1>7, <1>8
<1> QED
  BY <1>5, <1>8, <1>9, <1>10, <1>11 DEF Enqueues, Refs

LEMMA UpdateEnqueues ==
    ASSUME TypeInv, OrderInv, NEW o \in Objects, Update(o) PROVE \E item : Enqueues(item)
<1>1. PICK N \in Nat : N = next
  BY DEF TypeInv
<1>2. PICK old : old = model[o]
  OBVIOUS
<1>3. old \in ModelObjects /\ old.status \in Int
  BY <1>2 DEF TypeInv, ObjectsOK, ModelObjects
<1>4. PICK status \in Int : status = IF old.status > 0 THEN old.status + 1 ELSE 1
  BY <1>3
<1>5. PICK object : object = [old EXCEPT !.content = N, !.status = status]
  OBVIOUS
<1>6. /\ object \in ModelObjects /\ object.id = old.id /\ object.status = status
      /\ object.team = old.team
  <2>1. N \in Int
    OBVIOUS
  <2> QED BY <1>3, <1>5, <2>1 DEF ModelObjects
<1>7. /\ Save(o, object) /\ EnqueueNext(NewItem("Update", o, object, N)) /\ Quiet
      /\ old.id \in {"Client", "Server"}
  BY <1>1, <1>2, <1>4, <1>5 DEF Update, IsBounded, Exists
<1>8. "Update" \in Operations
  BY DEF Operations
<1>9. PICK item : item = NewItem("Update", o, object, N)
  OBVIOUS
<1>10. /\ item \in Items /\ item.n = N /\ item.op = "Update" /\ item.objs = <<o>>
       /\ Len(item.objs) = 1 /\ item.deps = {} /\ item.content = object.content
       /\ item.client = (object.id = "Client") /\ item.refs = Refs(o, object)
       /\ [item EXCEPT !.refs = {}] \in Items
  BY <1>6, <1>8, <1>9, NewItemType
<1>11. Injective(item.objs) /\ Elems(item.objs) = {o} /\ IsContent(item)
  BY <1>10 DEF Injective, Elems, IsContent
<1>12. ASSUME NEW p \in Objects \ TeamObjects
       PROVE  IF IsContent(item) /\ p \in Elems(item.objs) THEN EditsObject(item, p)
              ELSE model'[p] = model[p] /\ saved'[p] = saved[p]
  <2>1. CASE p # o
    BY <1>7, <1>11, <2>1 DEF Save, TypeInv, ObjectsOK
  <2>2. CASE p = o
    <3>1. ~old.team
      BY <1>2, <2>2 DEF OrderInv, ObjectOK, Personal
    <3>2. model'[o] = object /\ saved'[o] = Upsert(object)
      BY <1>7 DEF Save, TypeInv, ObjectsOK
    <3>3. Personal(object, Upsert(object))
      BY <1>6, <1>7, <3>1 DEF Personal, Exists, Upsert
    <3>4. EditNames(sync, item, o, old.id, object.id)
      BY <1>6, <1>7, <1>10 DEF EditNames
    <3>5. EditsObject(item, o)
      BY <1>2, <1>4, <1>6, <3>2, <3>3, <3>4 DEF EditsObject
    <3> QED BY <1>11, <2>2, <3>5
  <2> QED BY <2>1, <2>2
<1>13. EnqueueNext(item) /\ item.n = next
  BY <1>1, <1>7, <1>9, <1>10
<1> QED
  BY <1>7, <1>10, <1>11, <1>12, <1>13 DEF Enqueues, Refs

LEMMA RecordEnqueues ==
    ASSUME TypeInv, OrderInv, NEW o \in Objects, Record(o) PROVE \E item : Enqueues(item)
<1>1. PICK N \in Nat : N = next
  BY DEF TypeInv
<1>2. PICK object : object = model[o]
  OBVIOUS
<1>3. object \in ModelObjects /\ "Record" \in Operations
  BY <1>2 DEF TypeInv, ObjectsOK, Operations
<1>4. PICK new : new = NewItem("Record", o, object, N)
  OBVIOUS
<1>5. /\ new \in Items /\ new.n = N /\ new.op = "Record" /\ new.objs = <<o>>
      /\ Len(new.objs) = 1 /\ new.deps = {} /\ new.content = object.content
      /\ new.client = (object.id = "Client") /\ new.refs = Refs(o, object)
      /\ [new EXCEPT !.refs = {}] \in Items
  BY <1>3, <1>4, NewItemType
<1>6. PICK item : item = [new EXCEPT !.refs = {}]
  OBVIOUS
<1>7. /\ item \in Items /\ item.n = N /\ item.op = "Record" /\ item.objs = <<o>>
      /\ Len(item.objs) = 1 /\ item.refs = {}
  BY <1>5, <1>6 DEF Items
<1>8. Injective(item.objs) /\ ~IsContent(item)
  BY <1>7 DEF Injective, IsContent, Creations
<1>9. EnqueueNext(item) /\ UNCHANGED <<model, saved>> /\ Quiet
  BY <1>1, <1>2, <1>4, <1>6 DEF Record, IsBounded
<1>10. \A p \in Objects \ TeamObjects :
           IF IsContent(item) /\ p \in Elems(item.objs) THEN EditsObject(item, p)
           ELSE model'[p] = model[p] /\ saved'[p] = saved[p]
  BY <1>8, <1>9
<1>11. item.n = next
  BY <1>1, <1>7
<1> QED
  BY <1>7, <1>8, <1>9, <1>10, <1>11 DEF Enqueues

LEMMA ResyncEnqueues ==
    ASSUME TypeInv, OrderInv, NEW o \in Objects, Resync(o) PROVE \E item : Enqueues(item)
<1>1. PICK N \in Nat : N = next
  BY DEF TypeInv
<1>2. PICK old, row : old = model[o] /\ row = saved[o]
  OBVIOUS
<1>3. old \in ModelObjects
  BY <1>2 DEF TypeInv, ObjectsOK
<1>4. PICK item : item = SyncItem(o, old, N)
  OBVIOUS
<1>5. /\ item \in Items /\ item.n = N /\ item.objs = <<o>> /\ Len(item.objs) = 1
      /\ item.op = IF old.id = "Client" THEN "Create" ELSE "Update"
      /\ item.deps = {} /\ item.content = old.content
      /\ item.client = (old.id = "Client") /\ item.refs = Refs(o, old)
  BY <1>3, <1>4, SyncItemType
<1>6. Injective(item.objs) /\ Elems(item.objs) = {o} /\ IsContent(item)
  BY <1>5 DEF Injective, Elems, IsContent, Creations
<1>7. /\ EnqueueNext(item) /\ UNCHANGED saved /\ Quiet /\ item.n = next
      /\ model' = [model EXCEPT ![o].status = 1]
      /\ old.status = Errored /\ old.id \in {"Client", "Server"}
  BY <1>1, <1>2, <1>4, <1>5 DEF Resync, IsBounded, Exists
<1>8. ASSUME NEW p \in Objects \ TeamObjects
      PROVE  IF IsContent(item) /\ p \in Elems(item.objs) THEN EditsObject(item, p)
             ELSE model'[p] = model[p] /\ saved'[p] = saved[p]
  <2>1. CASE p # o
    BY <1>6, <1>7, <2>1 DEF TypeInv, ObjectsOK
  <2>2. CASE p = o
    <3>1. ObjectOK(sync, o, old, row) /\ sync.events = <<>>
      BY <1>2, <1>7, <2>2 DEF OrderInv, Quiet
    <3>2. PICK object : object = [old EXCEPT !.status = 1]
      OBVIOUS
    <3>3. object.id = old.id /\ object.status = 1 /\ object.team = old.team
      BY <1>3, <3>2 DEF ModelObjects
    <3>4. model'[o] = object /\ saved'[o] = row
      BY <1>2, <1>7, <3>2 DEF TypeInv, ObjectsOK
    <3>5. Personal(object, row)
      BY <1>7, <3>1, <3>3 DEF ObjectOK, Personal, Exists
    <3>6. EditNames(sync, item, o, old.id, object.id)
      <4>1. CASE old.id = "Client"
        <5>1. Live(sync, o) = {} /\ o \notin sync.mapped
          BY <1>3, <1>7, <3>1, <4>1, NothingUnderWay
        <5> QED BY <1>5, <3>3, <4>1, <5>1 DEF EditNames, Creations
      <4>2. CASE old.id # "Client"
        BY <1>5, <1>7, <3>3, <4>2 DEF EditNames
      <4> QED BY <4>1, <4>2
    <3>7. EditsObject(item, o)
      BY <1>2, <1>7, <3>3, <3>4, <3>5, <3>6 DEF EditsObject, Errored
    <3> QED BY <1>6, <2>2, <3>7
  <2> QED BY <2>1, <2>2
<1>9. item.op \notin {"Bulk", "Record"}
  BY <1>5
<1> QED
  BY <1>5, <1>6, <1>7, <1>8, <1>9 DEF Enqueues, Refs

LEMMA BulkCreateEnqueues ==
    ASSUME TypeInv, OrderInv, NEW p \in Preferences, NEW q \in Preferences, p # q,
           BulkCreate(<<p, q>>)
    PROVE  \E item : Enqueues(item)
<1>1. PICK N \in Nat : N = next
  BY DEF TypeInv
<1>2. PICK object : object = [Unborn EXCEPT !.id = "Client", !.content = N, !.status = 1]
  OBVIOUS
<1> DEFINE objs == <<p, q>>
<1>3. object \in ModelObjects /\ objs[1] = p /\ Elems(objs) = {p, q} /\ Injective(objs)
  <2>1. N \in Int /\ 1 \in Int
    OBVIOUS
  <2>2. object \in ModelObjects
    BY <1>2, <2>1, UnbornType DEF ModelObjects
  <2>3. DOMAIN objs = {1, 2} /\ objs[1] = p /\ objs[2] = q
    OBVIOUS
  <2> HIDE DEF objs
  <2> QED BY <2>2, <2>3 DEF Elems, Injective
<1>4. object.id = "Client" /\ object.status = 1 /\ ~object.team
  BY <1>2 DEF Unborn
<1>5. objs \in ObjectLists /\ p \in Objects /\ p \notin Workflows
  BY KindsAssumption DEF ObjectLists, Objects
<1>6. PICK new : new = NewItem("Bulk", p, object, N)
  OBVIOUS
<1>7. "Bulk" \in Operations
  BY DEF Operations
<1>8. /\ model' = [o \in Objects |-> IF o \in Elems(objs) THEN object ELSE model[o]]
      /\ saved' = [o \in Objects |-> IF o \in Elems(objs) THEN Upsert(object) ELSE saved[o]]
      /\ EnqueueNext([new EXCEPT !.objs = objs]) /\ Quiet
      /\ \A o \in Elems(objs) : model[o].id = "None"
  BY <1>1, <1>2, <1>3, <1>6 DEF BulkCreate, IsBounded
<1> HIDE DEF objs
<1>9. /\ new \in Items /\ new.n = N /\ new.op = "Bulk" /\ new.objs = <<p>>
      /\ Len(new.objs) = 1 /\ new.deps = {} /\ new.content = object.content
      /\ new.client = (object.id = "Client") /\ new.refs = Refs(p, object)
      /\ [new EXCEPT !.refs = {}] \in Items
  BY <1>3, <1>5, <1>6, <1>7, NewItemType
<1>10. new.refs = {}
  BY <1>5, <1>9 DEF Refs
<1>11. PICK item : item = [new EXCEPT !.objs = objs]
  OBVIOUS
<1>12. item \in Items /\ item.n = N /\ item.op = "Bulk" /\ item.refs = {} /\ item.objs = objs
  BY <1>5, <1>9, <1>10, <1>11 DEF Items
<1>13. IsContent(item) /\ item.op \in Creations
  BY <1>12 DEF IsContent, Creations
<1>14. ASSUME NEW o \in Objects \ TeamObjects
       PROVE  IF IsContent(item) /\ o \in Elems(item.objs) THEN EditsObject(item, o)
              ELSE model'[o] = model[o] /\ saved'[o] = saved[o]
  <2>1. CASE o \notin Elems(objs)
    BY <1>8, <1>12, <2>1
  <2>2. CASE o \in Elems(objs)
    <3>1. PICK old, row : old = model[o] /\ row = saved[o]
      OBVIOUS
    <3>2. ObjectOK(sync, o, old, row) /\ old \in ModelObjects /\ old.id = "None" /\ sync.events = <<>>
      BY <1>8, <2>2, <3>1 DEF OrderInv, TypeInv, ObjectsOK, Quiet
    <3>3. Live(sync, o) = {} /\ o \notin sync.mapped
      BY <3>2, NothingUnderWay
    <3>4. model'[o] = object /\ saved'[o] = Upsert(object)
      BY <1>8, <2>2
    <3>5. ~(old.status > 0)
      BY <3>2 DEF ObjectOK, Personal, Exists, IsPending, ModelObjects, NoLocalChanges, InConflict
    <3>6. Personal(object, Upsert(object))
      BY <1>4 DEF Personal, Exists, Upsert
    <3>7. EditNames(sync, item, o, old.id, object.id)
      BY <1>4, <1>13, <3>3 DEF EditNames
    <3>8. EditsObject(item, o)
      BY <1>4, <3>1, <3>2, <3>4, <3>5, <3>6, <3>7 DEF EditsObject, IsCounted
    <3> QED BY <1>12, <1>13, <2>2, <3>8
  <2> QED BY <2>1, <2>2
<1>15. EnqueueNext(item) /\ item.n = next /\ Injective(item.objs)
  BY <1>1, <1>3, <1>8, <1>11, <1>12
<1> QED
  BY <1>3, <1>8, <1>12, <1>14, <1>15 DEF Enqueues

\* The user takes the server's content, or it changes.
LEMMA ObjectStepsOrder ==
    ASSUME TypeInv, OrderInv, NEW o \in Objects, ReplaceWithConflict(o) \/ Refresh(o) \/ OthersEdit(o)
    PROVE  OrderInv'
<1>1. UNCHANGED sync /\ model \in [Objects -> ModelObjects] /\ saved \in [Objects -> Rows]
  BY DEF ReplaceWithConflict, Refresh, OthersEdit, TypeInv, ObjectsOK
<1>2. CASE OthersEdit(o)
  BY <1>1, <1>2 DEF OthersEdit, OrderInv
<1>3. CASE ReplaceWithConflict(o) \/ Refresh(o)
  <2>1. PICK old, row : old = model[o] /\ row = saved[o]
    OBVIOUS
  <2>2. old \in ModelObjects
    BY <1>1, <2>1
  <2>3. PICK object : /\ Save(o, object) /\ object.id = old.id /\ object.team = old.team
                      /\ \/ object.status = old.status
                         \/ object.status = NoLocalChanges /\ ~IsPending(old.status)
    <3>1. CASE ReplaceWithConflict(o)
      <4>1. PICK object : object = [old EXCEPT !.status = NoLocalChanges, !.conflict = NoConflict,
                                               !.rev = old.conflict.rev, !.content = old.conflict.content]
        OBVIOUS
      <4>2. Save(o, object) /\ ~IsPending(old.status)
        BY <2>1, <3>1, <4>1 DEF ReplaceWithConflict
      <4>3. object.id = old.id /\ object.team = old.team /\ object.status = NoLocalChanges
        BY <2>2, <4>1 DEF ModelObjects
      <4> QED BY <4>2, <4>3
    <3>2. CASE Refresh(o)
      <4>1. PICK now : now = server[o]
        OBVIOUS
      <4>2. PICK a, b : /\ a = [old EXCEPT !.conflict = now]
                        /\ b = [old EXCEPT !.rev = now.rev, !.content = now.content]
        OBVIOUS
      <4>3. Save(o, a) \/ Save(o, b)
        BY <2>1, <3>2, <4>1, <4>2 DEF Refresh
      <4>4. /\ a.id = old.id /\ a.team = old.team /\ a.status = old.status
            /\ b.id = old.id /\ b.team = old.team /\ b.status = old.status
        BY <2>2, <4>2 DEF ModelObjects
      <4> QED BY <4>3, <4>4
    <3> QED BY <1>3, <3>1, <3>2
  <2>4. \A p \in Objects : p # o => model'[p] = model[p] /\ saved'[p] = saved[p]
    BY <1>1, <2>3 DEF Save
  <2>5. model'[o] = object /\ saved'[o] = Upsert(object)
    BY <1>1, <2>3 DEF Save
  <2>6. ASSUME o \notin TeamObjects PROVE ObjectOK(sync, o, object, Upsert(object))
    <3>1. ObjectOK(sync, o, old, row)
      BY <2>1, <2>6 DEF OrderInv
    <3>2. ~(NoLocalChanges > 0) /\ (~IsPending(old.status) => ~(old.status > 0))
      BY <2>2 DEF NoLocalChanges, InConflict, IsPending, ModelObjects
    <3>3. Counted(sync, o, object)
      BY <2>3, <3>1, <3>2 DEF ObjectOK, Counted
    <3>4. Personal(object, Upsert(object))
      <4>1. IsPending(object.status) => IsPending(old.status)
        BY <2>3 DEF IsPending
      <4> QED BY <2>3, <3>1, <4>1 DEF ObjectOK, Personal, Upsert, Exists
    <3> QED BY <2>3, <3>1, <3>3, <3>4 DEF ObjectOK
  <2>7. PICK s : s = sync
    OBVIOUS
  <2>8. \A p \in Objects \ TeamObjects : ObjectOK(s, p, model'[p], saved'[p])
    BY <2>4, <2>5, <2>6, <2>7 DEF OrderInv
  <2> QED BY <1>1, <2>7, <2>8 DEF OrderInv
<1> QED
  BY <1>2, <1>3

\* The dequeueing starts or stops.
LEMMA PollOrder ==
    ASSUME TypeInv, OrderInv, Poll \/ GoOffline PROVE OrderInv'
<1>1. UNCHANGED <<model, saved>>
  BY DEF Poll, GoOffline
<1>2. PICK N \in Nat : N = next
  BY DEF TypeInv
<1>3. PICK v : v = sync
  OBVIOUS
<1>4. QueueOK(v, N)
  BY <1>2, <1>3 DEF TypeInv
<1>0. PICK running \in BOOLEAN :
          \/ sync' = [v EXCEPT !.running = running]
          \/ sync' = Dequeue([v EXCEPT !.running = running])
  BY <1>3 DEF Poll, GoOffline
<1>5. PICK u : u = [v EXCEPT !.running = running]
  OBVIOUS
<1>6. /\ QueueOK(u, N) /\ u.queue = v.queue /\ u.sent = v.sent
      /\ u.mapped = v.mapped /\ u.events = v.events
  <2> DEFINE w == [v EXCEPT !.running = running]
  <2>1. /\ QueueOK(w, N) /\ w.queue = v.queue /\ w.sent = v.sent
        /\ w.mapped = v.mapped /\ w.events = v.events
        /\ \A D : DependenciesOK(v, D) => DependenciesOK(w, D)
    BY <1>4, RunningOK
  <2> QED BY <1>5, <2>1
<1>7. RequestsOK(u)
  BY <1>3, <1>6 DEF OrderInv, RequestsOK, Pending
<1>8. ASSUME NEW o \in Objects \ TeamObjects
      PROVE  ObjectOK(u, o, model[o], saved[o])
  <2>1. ObjectOK(v, o, model[o], saved[o])
    BY <1>3 DEF OrderInv
  <2>2. ContentOf(u, o) = ContentOf(v, o) /\ Waiting(u, o) = Waiting(v, o)
    BY <1>6 DEF ContentOf, Pending, Waiting
  <2>3. \A id : InOrder(v, o, id, {}) => InOrder(u, o, id, {})
    BY <1>6, <2>2 DEF InOrder, Chained, Named
  <2>4. Live(u, o) = Live(v, o)
    BY <1>6, <2>2 DEF Live
  <2> QED BY <2>1, <2>3, <2>4 DEF ObjectOK, Counted
<1>9. PICK x : x = Dequeue(u)
  OBVIOUS
<1>10. RequestsOK(x)
  <2>1. QueueOK(Dequeue(u), N) /\ Evolves(u, Dequeue(u), {}) /\ Dequeue(u).mapped = u.mapped
    BY <1>6, DequeueOK
  <2>2. Evolves(u, x, {})
    BY <1>9, <2>1
  <2> QED BY <1>7, <2>2, RequestsEvolve
<1>11. ASSUME NEW o \in Objects \ TeamObjects
       PROVE  ObjectOK(x, o, model[o], saved[o])
  <2>1. PICK object, row, id : object = model[o] /\ row = saved[o] /\ id = object.id
    OBVIOUS
  <2>2. ObjectOK(u, o, object, row) /\ InOrder(u, o, id, {})
    BY <1>8, <2>1 DEF ObjectOK
  <2>3. QueueOK(Dequeue(u), N) /\ Carries(u, Dequeue(u), o, id, {}, {})
    BY <1>6, <2>2, DequeueCarries
  <2>4. Carries(u, x, o, object.id, {}, {})
    BY <1>9, <2>1, <2>3
  <2>5. ObjectOK(x, o, object, row)
    BY <2>2, <2>4, ObjectCarried
  <2> QED BY <2>1, <2>5
<1> QED
  BY <1>0, <1>1, <1>5, <1>7, <1>8, <1>9, <1>10, <1>11 DEF OrderInv

\* After a restart one item, if any, is under way for each object.
LEMMA RestartedObject ==
    ASSUME ObjectsOK, NEW w, NEW N \in Nat, N = next, NEW order \in Orderings(LoadedPending),
           RestartedFrom(w, order), NEW o \in Objects, NEW row, row = saved[o], NEW old, Personal(old, row)
    PROVE  ObjectOK(w, o, LoadedObjects[o], row)
<1>1. PICK object : object = LoadedObjects[o]
  OBVIOUS
<1>2. row \in Rows /\ object = Loaded(row)
  BY <1>1 DEF ObjectsOK, LoadedObjects
<1>3. /\ object.id = row.id /\ object.team = row.team
      /\ object.status = IF row.pending THEN 1 ELSE 0
  BY <1>2 DEF Loaded, Unborn, Rows, NoLocalChanges
<1>4. o \in LoadedPending <=> row.pending
  BY <1>1, <1>3 DEF LoadedPending, Personal, Exists, IsPending, NoLocalChanges, InConflict
<1>5. Personal(object, row)
  BY <1>3 DEF Personal, Exists, IsPending, NoLocalChanges
<1>6. IsFiniteSet(LoadedPending) /\ LoadedPending \subseteq Objects
  BY KindsAssumption, FS_Subset DEF LoadedPending
<1>7. order \in Seq(LoadedPending) /\ Injective(order) /\ \A k \in DOMAIN order : k \in Nat
  BY <1>6, OrderingType DEF Orderings
<1>8. w.sent = {} /\ w.mapped = {} /\ w.events = <<>>
  BY DEF RestartedFrom
<1>9. \A i \in ContentOf(w, o) : /\ i \in Elems(w.queue)
                                 /\ \E k \in DOMAIN order :
                                       order[k] = o /\ i.n = N + k /\ IsItemOf(i, o, object)
  <2>1. SUFFICES ASSUME NEW i \in ContentOf(w, o)
                 PROVE  /\ i \in Elems(w.queue)
                        /\ \E k \in DOMAIN order :
                              order[k] = o /\ i.n = N + k /\ IsItemOf(i, o, object)
    OBVIOUS
  <2>2. i \in Elems(w.queue) /\ i.op # "Record" /\ o \in Elems(i.objs)
    BY <1>8 DEF ContentOf, Pending, IsContent, Creations
  <2>3. PICK k \in DOMAIN order : i.n = N + k /\ IsItemOf(i, order[k], LoadedObjects[order[k]])
    BY <2>2 DEF RestartedFrom
  <2>4. order[k] = o
    BY <2>2, <2>3 DEF IsItemOf, Elems
  <2> QED BY <1>1, <2>2, <2>3, <2>4
<1>10. \A i, j \in ContentOf(w, o) : i.n = j.n
  BY <1>7, <1>9 DEF Injective
<1>11. Chained(w, o)
  <2>1. \A i, j \in ContentOf(w, o) : ~(i.n < j.n)
    <3>1. \A i \in ContentOf(w, o) : i.n \in Nat
      BY <1>7, <1>9
    <3> QED BY <1>10, <3>1
  <2> QED BY <2>1 DEF Chained
<1>12. Named(w, o, object.id)
  <2>1. DOMAIN w.events = {}
    BY <1>8
  <2>2. \A i \in ContentOf(w, o) :
            /\ i \in Elems(w.queue) /\ i.client = (object.id = "Client")
            /\ i.op = IF object.id = "Client" THEN "Create" ELSE "Update"
    BY <1>9 DEF IsItemOf
  <2> QED BY <2>1, <2>2, <1>8 DEF Named, Creations
<1>13. InOrder(w, o, object.id, {}) /\ Live(w, o) = Waiting(w, o)
  BY <1>8, <1>11, <1>12, NothingTold DEF InOrder, Live
<1>14. Counted(w, o, object)
  <2>1. CASE row.pending
    <3>1. PICK k \in DOMAIN order : order[k] = o
      BY <1>4, <1>6, <2>1, OrderingIsOnto
    <3>2. PICK i \in Elems(w.queue) : i.n = N + k /\ IsItemOf(i, o, object)
      BY <1>1, <3>1 DEF RestartedFrom
    <3>3. i \in ContentOf(w, o)
      BY <3>2 DEF ContentOf, Pending, IsItemOf, IsContent, Creations, Elems
    <3>4. Waiting(w, o) = {i.n}
      BY <1>10, <3>3 DEF Waiting
    <3>5. IsFiniteSet({i.n}) /\ Cardinality({i.n}) = 1
      BY FS_Singleton
    <3> QED BY <1>3, <1>13, <2>1, <3>4, <3>5 DEF Counted
  <2>2. CASE ~row.pending
    <3>1. ContentOf(w, o) = {}
      BY <1>4, <1>7, <1>9, <2>2
    <3>2. Waiting(w, o) = {}
      BY <3>1 DEF Waiting
    <3> QED BY <1>3, <1>13, <2>2, <3>2 DEF Counted
  <2> QED BY <2>1, <2>2
<1> QED
  BY <1>1, <1>5, <1>13, <1>14 DEF ObjectOK

LEMMA RestartOrder ==
    ASSUME TypeInv, OrderInv, Restart PROVE OrderInv'
<1>1. PICK N \in Nat : N = next
  BY DEF TypeInv
<1>2. PICK w : w = sync'
  OBVIOUS
<1>3. /\ model' = LoadedObjects /\ UNCHANGED saved /\ TypeInv'
      /\ \E order \in Orderings(LoadedPending) : RestartedFrom(w, order)
  BY <1>2, RestartSteps
<1>4. PICK order \in Orderings(LoadedPending) : RestartedFrom(w, order)
  BY <1>3
<1>5. RequestsOK(w)
  <2>1. w.sent = {} /\ \A i \in Elems(w.queue) : Len(i.objs) = 1
    BY <1>4 DEF RestartedFrom
  <2>2. Elems(w.queue) \subseteq Items
    <3>1. w \in SyncQueues
      BY <1>2, <1>3 DEF TypeInv, QueueOK
    <3> QED BY <3>1, ElemsType DEF SyncQueues
  <2>3. \A i \in Elems(w.queue) : Injective(i.objs)
    BY <2>1, <2>2 DEF Items, ObjectLists, Injective
  <2> QED BY <2>1, <2>3 DEF RequestsOK, Pending
<1>6. ASSUME NEW o \in Objects \ TeamObjects
      PROVE  ObjectOK(w, o, LoadedObjects[o], saved[o])
  <2>1. PICK old, row : old = model[o] /\ row = saved[o]
    OBVIOUS
  <2>2. Personal(old, row) /\ ObjectsOK
    BY <2>1 DEF OrderInv, ObjectOK, TypeInv
  <2>3. ObjectOK(w, o, LoadedObjects[o], row)
    BY <1>1, <1>4, <2>1, <2>2, RestartedObject
  <2> QED BY <2>1, <2>3
<1> QED
  BY <1>2, <1>3, <1>5, <1>6 DEF OrderInv

LEMMA OrderInvInit ==
    ASSUME Init PROVE OrderInv
<1>1. /\ sync.queue = <<>> /\ sync.sent = {} /\ sync.mapped = {} /\ sync.events = <<>>
      /\ \A o \in Objects : model[o] = Unborn /\ saved[o] = Upsert(Unborn)
  BY DEF Init
<1>2. DOMAIN sync.queue = {} /\ DOMAIN sync.events = {}
  BY <1>1
<1>3. Pending(sync) = {} /\ \A o : ContentOf(sync, o) = {} /\ Waiting(sync, o) = {}
  BY <1>1, <1>2 DEF Pending, ContentOf, Waiting, Elems
<1>4. /\ Unborn.id = "None" /\ Unborn.status = 0 /\ ~Unborn.team
      /\ Upsert(Unborn).id = "None" /\ ~Upsert(Unborn).pending /\ ~Upsert(Unborn).team
  BY DEF Unborn, Upsert, IsPending, NoLocalChanges
<1>5. ASSUME NEW o \in Objects PROVE ObjectOK(sync, o, model[o], saved[o])
  <2>1. Chained(sync, o) /\ Named(sync, o, "None")
    BY <1>1, <1>2, <1>3 DEF Chained, Named
  <2>2. InOrder(sync, o, "None", {}) /\ Live(sync, o) = {}
    BY <1>1, <1>3, <2>1, NothingTold DEF InOrder, Live
  <2>3. Counted(sync, o, Unborn)
    BY <1>4, <2>2 DEF Counted
  <2>4. Personal(Unborn, Upsert(Unborn))
    BY <1>4 DEF Personal, IsPending, NoLocalChanges
  <2> QED BY <1>1, <1>4, <2>2, <2>3, <2>4 DEF ObjectOK
<1>6. RequestsOK(sync)
  BY <1>1, <1>3 DEF RequestsOK
<1> QED
  BY <1>5, <1>6 DEF OrderInv

LEMMA OrderInvStep ==
    ASSUME ~MayDangle, TypeInv, OrderInv, [Next]_vars PROVE OrderInv'
<1>1. CASE UNCHANGED vars
  BY <1>1 DEF OrderInv, vars
<1>2. CASE Next
  <2>1. CASE Deliver
    BY <2>1, DeliverOrder
  <2>2. CASE \E r \in sync.sent : Serve(r) \/ LoseAnswer(r) \/ Receive(r) \/ RequestFailed(r)
    BY <2>2, ServeOrder, AnswerTakenOrder
  <2>3. CASE \E o \in Objects : Create(o) \/ Update(o) \/ Record(o) \/ Resync(o)
                                 \/ ReplaceWithConflict(o) \/ Refresh(o) \/ OthersEdit(o)
    BY <2>3, CreateEnqueues, UpdateEnqueues, RecordEnqueues, ResyncEnqueues, EnqueueOrder, ObjectStepsOrder
  <2>4. CASE \E p, q \in Preferences : p # q /\ BulkCreate(<<p, q>>)
    BY <2>4, BulkCreateEnqueues, EnqueueOrder
  <2>5. CASE Poll \/ GoOffline
    BY <2>5, PollOrder
  <2>6. CASE Restart
    BY <2>6, RestartOrder
  <2> QED BY <1>2, <2>1, <2>2, <2>3, <2>4, <2>5, <2>6 DEF Next
<1> QED
  BY <1>1, <1>2

LEMMA OrderInvariant ==
    ~MayDangle => (Spec => []OrderInv)
<1>1. SUFFICES ASSUME ~MayDangle PROVE Spec => []OrderInv
  OBVIOUS
<1>2. Init => OrderInv
  BY OrderInvInit
<1>3. TypeInv /\ OrderInv /\ [Next]_vars => OrderInv'
  BY <1>1, OrderInvStep
<1> QED
  BY <1>2, <1>3, TypeInvariant, PTL DEF Spec

LEMMA OrderInvImplies ==
    ASSUME TypeInv, OrderInv PROVE UpdatesInOrder
<1>1. SUFFICES ASSUME NEW r \in sync.sent, NEW i \in Outstanding, IsContent(r), IsContent(i),
                      NEW o \in (Elems(r.objs) \cap Elems(i.objs)) \ TeamObjects
               PROVE  i = r \/ (i \notin sync.sent /\ r.n < i.n)
  BY DEF UpdatesInOrder
<1>2. PICK N : N = next
  OBVIOUS
<1>3. QueueOK(sync, N)
  BY <1>2 DEF TypeInv
<1>4. r \in Requests /\ (i \in Items \/ i \in Requests)
  BY <1>3, ElemsType DEF QueueOK, SyncQueues, Outstanding
<1>5. o \in Objects /\ r.n \in Nat /\ i.n \in Nat
  BY <1>4 DEF Items, Requests, ObjectLists, Elems
<1>6. r \in ContentOf(sync, o) /\ i \in ContentOf(sync, o) /\ r \in Pending(sync) /\ i \in Pending(sync)
  BY <1>1 DEF ContentOf, Pending, Outstanding
<1>7. Chained(sync, o)
  BY <1>1, <1>5 DEF OrderInv, ObjectOK, InOrder
<1>8. CASE r.n = i.n
  BY <1>3, <1>6, <1>8, OneItem
<1>9. CASE r.n < i.n
  <2>1. i \in Elems(sync.queue)
    BY <1>6, <1>7, <1>9 DEF Chained
  <2> QED BY <1>3, <1>6, <1>9, <2>1, OneItem
<1>10. CASE i.n < r.n
  <2>1. r \in Elems(sync.queue)
    BY <1>6, <1>7, <1>10 DEF Chained
  <2> QED BY <1>3, <1>6, <2>1, OneItem
<1> QED
  BY <1>5, <1>8, <1>9, <1>10

\* The status of a personal object counts its items.
LEMMA CountedItems ==
    ASSUME TypeInv, OrderInv, Quiet, NEW o \in (Workflows \cup Enums \cup Preferences) \ TeamObjects
    PROVE  Cardinality(ContentItemsOf(o)) = IF model[o].status > 0 THEN model[o].status ELSE 0
<1>1. PICK N : N = next
  OBVIOUS
<1>2. QueueOK(sync, N) /\ o \in Objects /\ sync.events = <<>>
  BY <1>1 DEF TypeInv, Objects, Quiet
<1>3. ContentItemsOf(o) = ContentOf(sync, o)
  BY DEF ContentItemsOf, ContentOf, Outstanding, Pending
<1>4. PICK S, L : S = ContentOf(sync, o) /\ L = Waiting(sync, o)
  OBVIOUS
<1>5. Live(sync, o) = L
  BY <1>2, <1>4, NothingTold DEF Live
<1>6. Counted(sync, o, model[o]) /\ IsCounted(o, model[o].id)
  BY <1>2 DEF OrderInv, ObjectOK, IsCounted
<1>7. IF model[o].status > 0 THEN IsFiniteSet(L) /\ Cardinality(L) = model[o].status ELSE L = {}
  BY <1>5, <1>6 DEF Counted
<1>8. \A i, j \in S : i.n = j.n => i = j
  BY <1>2, <1>4, OneItem DEF ContentOf
<1>9. IsFiniteSet(L) => Cardinality(S) = Cardinality(L)
  <2>1. SUFFICES ASSUME IsFiniteSet(L) PROVE Cardinality(S) = Cardinality(L)
    OBVIOUS
  <2> DEFINE f == [n \in L |-> CHOOSE i \in S : i.n = n]
  <2>2. \A n \in L : f[n] \in S /\ f[n].n = n
    BY <1>4 DEF Waiting
  <2>3. \A i \in S : i.n \in L /\ f[i.n] = i
    BY <1>4, <1>8, <2>2 DEF Waiting
  <2>4. f \in Bijection(L, S)
    <3>1. f \in [L -> S]
      BY <2>2
    <3> HIDE DEF f
    <3>2. f \in Injection(L, S)
      BY <2>2, <3>1 DEF Injection, IsInjective
    <3>3. f \in Surjection(L, S)
      BY <2>3, <3>1 DEF Surjection
    <3> QED BY <3>2, <3>3 DEF Bijection
  <2>5. ExistsBijection(L, S)
    BY <2>4 DEF ExistsBijection
  <2> QED BY <2>1, <2>5, FS_Bijection
<1> QED
  BY <1>3, <1>4, <1>7, <1>9, FS_EmptySet

(***************************************************************************)
(* Of a personal object, one edit is in flight at a time, and the others   *)
(* follow in the order they were made, whatever fails, conflicts, is       *)
(* bulk-created or restarted: get_update_dependencies finds every earlier  *)
(* one under either id of the object.                                      *)
(***************************************************************************)
THEOREM UpdatesOrdered ==
    ~MayDangle => (Spec => []UpdatesInOrder)
<1>1. SUFFICES ASSUME ~MayDangle PROVE Spec => []UpdatesInOrder
  OBVIOUS
<1>2. TypeInv /\ OrderInv => UpdatesInOrder
  BY OrderInvImplies
<1>3. Spec => []OrderInv
  BY <1>1, OrderInvariant
<1> QED
  BY <1>2, <1>3, TypeInvariant, PTL

(***************************************************************************)
(* Where no workflow, enum or preference is created in a team, the number  *)
(* of InFlight is that of the requests that are outstanding, and another   *)
(* status has none: each request that ends is told once, and               *)
(* decrement_in_flight_request_count counts each.                          *)
(***************************************************************************)
THEOREM StatusesTrue ==
    (~MayDangle /\ TeamObjects \cap (Workflows \cup Enums \cup Preferences) = {})
        => (Spec => []StatusIsTrue)
<1>1. SUFFICES ASSUME ~MayDangle, TeamObjects \cap (Workflows \cup Enums \cup Preferences) = {}
               PROVE  Spec => []StatusIsTrue
  OBVIOUS
<1>2. TypeInv /\ OrderInv => StatusIsTrue
  <2>1. SUFFICES ASSUME TypeInv, OrderInv, Quiet, NEW o \in Workflows \cup Enums \cup Preferences
                 PROVE  Cardinality(ContentItemsOf(o)) = IF model[o].status > 0 THEN model[o].status ELSE 0
    BY DEF StatusIsTrue
  <2>2. o \in (Workflows \cup Enums \cup Preferences) \ TeamObjects
    BY <1>1
  <2> QED BY <2>1, <2>2, CountedItems
<1>3. Spec => []OrderInv
  BY <1>1, OrderInvariant
<1> QED
  BY <1>2, <1>3, TypeInvariant, PTL

-----------------------------------------------------------------------------
(***************************************************************************)
(* What is kept for a restart.  A rejection ends the count of a notebook   *)
(* or a fact, so that the edits under way are no longer known from its     *)
(* status; but these wait for nothing else, and so fail together or not at *)
(* all.                                                                    *)
(***************************************************************************)
Plain == Notebooks \cup Facts

\* The items of the object o name no other.
Lone(v, o) == \A i \in ContentOf(v, o) : i.objs = <<o>> /\ i.op # "Bulk"

\* They wait for nothing but each other.
Own(v, o) ==
    \A i \in Elems(v.queue) \cap ContentOf(v, o) : \A d \in i.deps :
        \A j \in Pending(v) : d[1] = j.n => j \in ContentOf(v, o)

\* They can be sent.
Sendable(v, o) == \A i \in Elems(v.queue) \cap ContentOf(v, o) : ~IsUnsendable(v, i)

Updates(v, o) == \A i \in ContentOf(v, o) : i.op = "Update"

Plainly(v, o) == Lone(v, o) /\ Own(v, o) /\ (o \in v.mapped => Updates(v, o))

\* What the events tell of the object, and which of it are failures.
KindsOf(events, o) == {events[p].kind : p \in {p \in DOMAIN events : About(events[p], o)}}
Told(v, o) == KindsOf(v.events, o)
Failures == {"Failed", "Denied"}

\* The items of w are some of v, waiting for no more.
Descends(v, w) ==
    /\ \A i \in Elems(w.queue) : \E j \in Elems(v.queue) :
           i.n = j.n /\ i.op = j.op /\ i.objs = j.objs /\ i.client = j.client /\ i.deps \subseteq j.deps
    /\ \A i \in Pending(w) : \E j \in Pending(v) : i.n = j.n /\ i.op = j.op /\ i.objs = j.objs

LEMMA EvolvesDescends ==
    ASSUME NEW v, NEW w, NEW D, Evolves(v, w, D)
    PROVE  Descends(v, w)
BY DEF Evolves, Descends, StemsFrom, SentFrom, Same, Pending

LEMMA Descended ==
    ASSUME NEW v, NEW w, NEW o, Descends(v, w)
    PROVE  /\ Lone(v, o) => Lone(w, o)
           /\ Lone(v, o) /\ Own(v, o) => Own(w, o)
           /\ Updates(v, o) => Updates(w, o)
           /\ v.mapped \subseteq w.mapped /\ Sendable(v, o) => Sendable(w, o)
           /\ Waiting(w, o) \subseteq Waiting(v, o)
<1>1. \A i \in ContentOf(w, o) : \E j \in ContentOf(v, o) : i.n = j.n /\ i.op = j.op /\ i.objs = j.objs
  BY DEF Descends, ContentOf, IsContent
<1>2. \A i \in Elems(w.queue) \cap ContentOf(w, o) : \E j \in Elems(v.queue) \cap ContentOf(v, o) :
          i.op = j.op /\ i.objs = j.objs /\ i.client = j.client /\ i.deps \subseteq j.deps
  BY DEF Descends, ContentOf, IsContent, Pending
<1>3. Lone(v, o) => Lone(w, o)
  BY <1>1 DEF Lone
<1>4. ASSUME Own(v, o) PROVE Own(w, o)
  <2>1. SUFFICES ASSUME NEW i \in Elems(w.queue) \cap ContentOf(w, o), NEW d \in i.deps,
                        NEW j \in Pending(w), d[1] = j.n
                 PROVE  j \in ContentOf(w, o)
    BY DEF Own
  <2>2. PICK k \in Pending(v) : j.n = k.n /\ j.op = k.op /\ j.objs = k.objs
    BY DEF Descends
  <2>3. k \in ContentOf(v, o)
    BY <1>2, <1>4, <2>1, <2>2 DEF Own
  <2> QED BY <2>2, <2>3 DEF ContentOf, IsContent
<1>5. Updates(v, o) => Updates(w, o)
  BY <1>1 DEF Updates
<1>6. v.mapped \subseteq w.mapped /\ Sendable(v, o) => Sendable(w, o)
  BY <1>2 DEF Sendable, IsUnsendable
<1>7. Waiting(w, o) \subseteq Waiting(v, o)
  BY <1>1 DEF Waiting
<1> QED
  BY <1>3, <1>4, <1>5, <1>6, <1>7

LEMMA KindsJoined ==
    ASSUME NEW x \in Seq(Events), NEW y \in Seq(Events), NEW o
    PROVE  KindsOf(x \o y, o) = KindsOf(x, o) \cup KindsOf(y, o)
<1>1. LET z == x \o y
      IN  /\ z \in Seq(Events) /\ Len(x) \in Nat
          /\ \A p \in DOMAIN z : p \in Nat
          /\ \A p \in DOMAIN z : p \in DOMAIN x \/ p - Len(x) \in DOMAIN y
          /\ \A p \in DOMAIN x : p \in DOMAIN z /\ z[p] = x[p] /\ p <= Len(x)
          /\ \A p \in DOMAIN y : /\ p + Len(x) \in DOMAIN z /\ z[p + Len(x)] = y[p]
                                 /\ p > 0 /\ p \in Nat
  BY JoinedEvents
<1>2. PICK z : z = x \o y
  OBVIOUS
<1>3. ASSUME NEW p \in DOMAIN z
      PROVE  \/ p \in DOMAIN x /\ z[p] = x[p]
             \/ \E k \in DOMAIN y : z[p] = y[k]
  <2>1. CASE p \in DOMAIN x
    BY <1>1, <1>2, <2>1
  <2>2. CASE p - Len(x) \in DOMAIN y
    <3>1. (p - Len(x)) + Len(x) = p
      BY <1>1, <1>2
    <3>2. PICK k : k = p - Len(x)
      OBVIOUS
    <3>3. k \in DOMAIN y /\ k + Len(x) = p
      BY <2>2, <3>1, <3>2
    <3>4. z[k + Len(x)] = y[k]
      BY <1>1, <1>2, <3>3
    <3> QED BY <3>3, <3>4
  <2> QED BY <1>1, <1>2, <2>1, <2>2
<1>4. \A p \in DOMAIN x : p \in DOMAIN z /\ z[p] = x[p]
  BY <1>1, <1>2
<1>5. \A k \in DOMAIN y : \E p \in DOMAIN z : z[p] = y[k]
  BY <1>1, <1>2
<1>6. KindsOf(z, o) = KindsOf(x, o) \cup KindsOf(y, o)
  BY <1>3, <1>4, <1>5 DEF KindsOf
<1> QED
  BY <1>2, <1>6

\* Nothing is told, if nothing is announced.
LEMMA NothingAnnounced ==
    ASSUME NEW ys, NEW o, Announced(ys, o) = {}
    PROVE  KindsOf(ys, o) = {}
BY DEF Announced, KindsOf

\* An object whose items wait for their own kind is spared by failures of others.
LEMMA FailSpares ==
    ASSUME NEW v, NEW N \in Nat, QueueOK(v, N), NEW ds, NEW es \in Seq(Events), NEW o, Own(v, o),
           \A i \in Elems(v.queue) \cap ContentOf(v, o) : i.deps \cap ds = {},
           \A k \in DOMAIN es : ~About(es[k], o)
    PROVE  /\ Waiting(v, o) \subseteq Waiting(Fail(v, ds, es), o)
           /\ Told(Fail(v, ds, es), o) = Told(v, o)
<1> DEFINE doomed == DependentsOf(v, ds)
           left == Filter(v.queue, Elems(v.queue) \ doomed)
           S == Elems(v.queue) \ ContentOf(v, o)
<1>1. doomed \subseteq S
  <2>1. S \in SUBSET Elems(v.queue)
    OBVIOUS
  <2>2. ASSUME NEW i \in Elems(v.queue), i.deps \cap (ds \cup {<<j.n, NoObject>> : j \in S}) # {}
        PROVE  i \in S
    <3>1. SUFFICES ASSUME i \in ContentOf(v, o) PROVE FALSE
      OBVIOUS
    <3>2. PICK j \in S : <<j.n, NoObject>> \in i.deps
      BY <2>2, <3>1
    <3>3. PICK d : d = <<j.n, NoObject>>
      OBVIOUS
    <3>4. d \in i.deps /\ d[1] = j.n /\ j \in Pending(v)
      BY <3>2, <3>3 DEF Pending
    <3>5. j \in ContentOf(v, o)
      BY <3>1, <3>4 DEF Own
    <3> QED BY <3>2, <3>5
  <2> HIDE DEF S
  <2> QED BY <2>1, <2>2 DEF DependentsOf
<1> HIDE DEF doomed
<1>2. Elems(left) = Elems(v.queue) \ doomed
  <2> DEFINE T == Elems(v.queue) \ doomed
  <2>1. Elems(v.queue) \cap T = T
    OBVIOUS
  <2>2. v.queue \in Seq(Items) /\ \A j, k \in DOMAIN v.queue : v.queue[j].n = v.queue[k].n => j = k
    BY DEF QueueOK, SyncQueues, NumbersDiffer
  <2> HIDE DEF T
  <2>3. /\ Filter(v.queue, T) \in Seq(Items) /\ Elems(Filter(v.queue, T)) = Elems(v.queue) \cap T
        /\ \A j, k \in DOMAIN Filter(v.queue, T) :
               Filter(v.queue, T)[j].n = Filter(v.queue, T)[k].n => j = k
    BY <2>2, FilteredItems
  <2> QED BY <2>1, <2>3 DEF T
<1> HIDE DEF left
<1>3. PICK w : w = Fail(v, ds, es)
  OBVIOUS
<1>4. /\ QueueOK(w, N) /\ Evolves(v, w, {}) /\ w.sent = v.sent
  BY <1>3, FailOK
<1>5. w.queue = left
  BY <1>3 DEF Fail, left, doomed, QueueOK, SyncQueues
<1>6. ContentOf(v, o) \subseteq ContentOf(w, o)
  BY <1>1, <1>2, <1>4, <1>5 DEF ContentOf, Pending
<1>7. Waiting(v, o) \subseteq Waiting(w, o)
  BY <1>6 DEF Waiting
<1>8. PICK fs : Reports(v, w, fs) /\ w.events = v.events \o fs \o es
  <2>1. \E fs : /\ Reports(v, Fail(v, ds, es), fs)
                /\ Fail(v, ds, es).events = v.events \o fs \o es
    BY FailReports
  <2> QED BY <1>3, <2>1
<1>9. Announced(fs, o) = {}
  <2>1. Announced(fs, o) = Waiting(v, o) \ Waiting(w, o)
    BY <1>4, <1>8, ReportsTell
  <2> QED BY <1>7, <2>1
<1>10. Told(w, o) = Told(v, o)
  <2>1. PICK x : x = v.events
    OBVIOUS
  <2>2. x \in Seq(Events) /\ fs \in Seq(Events)
    BY <1>8, <2>1 DEF QueueOK, SyncQueues, Reports
  <2>3. PICK y : y = x \o fs
    OBVIOUS
  <2>4. y \in Seq(Events) /\ w.events = y \o es
    BY <1>8, <2>1, <2>2, <2>3
  <2>5. KindsOf(es, o) = {}
    BY DEF KindsOf
  <2>6. KindsOf(y \o es, o) = KindsOf(x, o)
    <3>1. KindsOf(y \o es, o) = KindsOf(y, o) \cup KindsOf(es, o)
      BY <2>4, KindsJoined
    <3>2. KindsOf(x \o fs, o) = KindsOf(x, o) \cup KindsOf(fs, o)
      BY <2>2, KindsJoined
    <3>3. KindsOf(fs, o) = {}
      BY <1>9, NothingAnnounced
    <3> QED BY <2>3, <2>5, <3>1, <3>2, <3>3
  <2> QED BY <2>1, <2>4, <2>6 DEF Told
<1> QED
  BY <1>3, <1>7, <1>10
\* The dequeueing sends an item or leaves it where it is.
LEMMA DequeueSpares ==
    ASSUME NEW v, NEW N \in Nat, QueueOK(v, N), NEW o, Own(v, o), Sendable(v, o)
    PROVE  Told(Dequeue(v), o) = Told(v, o)
<1>1. CASE ~v.running
  BY <1>1 DEF Dequeue
<1>2. CASE v.running
  <2>1. PICK u, failing :
              /\ failing \in Seq(Items)
              /\ Dequeue(v) = Fail(u, {<<i.n, NoObject>> : i \in Elems(failing)},
                                   [k \in DOMAIN failing |-> FailureOf(failing[k])])
              /\ QueueOK(u, N) /\ Elems(u.queue) \subseteq Elems(v.queue) /\ v.sent \subseteq u.sent
              /\ u.mapped = v.mapped /\ u.events = v.events
              /\ \A r \in u.sent \ v.sent : \E j \in Elems(v.queue) : SentFrom(r, j, {}, v.mapped)
              /\ \A i \in Elems(failing) : /\ i \in Elems(v.queue) /\ i.op = "Update"
                                           /\ \A j \in Pending(u) : i.n # j.n
              /\ \A j \in Elems(v.queue) :
                    j.op = "Record" \/ j \in Elems(failing) \/ \E i \in Pending(u) : Same(i, j)
              /\ \A i \in Elems(failing) : IsUnsendable(v, i)
    BY <1>2, DequeueParts
  <2> DEFINE ds == {<<i.n, NoObject>> : i \in Elems(failing)}
             es == [k \in DOMAIN failing |-> FailureOf(failing[k])]
  <2>2. es \in Seq(Events)
    BY <2>1, FailureEvents
  <2>3. \A i \in Elems(failing) : i \in Pending(v) /\ i \notin ContentOf(v, o)
    BY <2>1 DEF Sendable, Pending
  <2>4. Descends(v, u)
    BY <2>1 DEF Descends, SentFrom, Same, Pending
  <2>5. \A i \in Elems(u.queue) \cap ContentOf(u, o) : i \in Elems(v.queue) \cap ContentOf(v, o)
    BY <2>1 DEF ContentOf, Pending
  <2>6. Own(u, o)
    <3>1. SUFFICES ASSUME NEW i \in Elems(u.queue) \cap ContentOf(u, o), NEW d \in i.deps,
                          NEW j \in Pending(u), d[1] = j.n
                   PROVE  j \in ContentOf(u, o)
      BY DEF Own
    <3>2. PICK k \in Pending(v) : j.n = k.n /\ j.op = k.op /\ j.objs = k.objs
      BY <2>4 DEF Descends
    <3>3. k \in ContentOf(v, o)
      BY <2>5, <3>1, <3>2 DEF Own
    <3> QED BY <3>2, <3>3 DEF ContentOf, IsContent
  <2>7. \A i \in Elems(u.queue) \cap ContentOf(u, o) : i.deps \cap ds = {}
    <3>1. SUFFICES ASSUME NEW i \in Elems(u.queue) \cap ContentOf(u, o),
                          NEW f \in Elems(failing), <<f.n, NoObject>> \in i.deps
                   PROVE  FALSE
      OBVIOUS
    <3>2. PICK d : d = <<f.n, NoObject>>
      OBVIOUS
    <3>3. d \in i.deps /\ d[1] = f.n /\ i \in Elems(v.queue) \cap ContentOf(v, o)
      BY <2>5, <3>1, <3>2
    <3>4. f \in ContentOf(v, o)
      BY <2>3, <3>1, <3>3 DEF Own
    <3> QED BY <2>3, <3>1, <3>4
  <2>8. \A k \in DOMAIN es : ~About(es[k], o)
    <3>1. SUFFICES ASSUME NEW k \in DOMAIN failing, About(FailureOf(failing[k]), o) PROVE FALSE
      OBVIOUS
    <3>2. PICK i : i = failing[k]
      OBVIOUS
    <3>3. i \in Elems(failing) /\ i \in Elems(v.queue) /\ i.op = "Update" /\ i.objs[1] = o
      <4>1. i \in Elems(failing)
        BY <3>2 DEF Elems
      <4>2. i.objs[1] = o
        BY <3>1, <3>2 DEF About, FailureOf, Event
      <4> QED BY <2>1, <4>1, <4>2
    <3>4. o \in Elems(i.objs)
      <4>1. i \in Items
        BY <3>3, ElemsType DEF QueueOK, SyncQueues
      <4> QED BY <3>3, <4>1 DEF Items, ObjectLists, Elems
    <3>5. i \in ContentOf(v, o)
      BY <3>3, <3>4 DEF ContentOf, Pending, IsContent
    <3> QED BY <2>3, <3>3, <3>5
  <2>9. Dequeue(v) = Fail(u, ds, es)
    BY <2>1
  <2> HIDE DEF ds, es
  <2>10. Told(Fail(u, ds, es), o) = Told(u, o)
    BY <2>1, <2>2, <2>6, <2>7, <2>8, FailSpares
  <2> QED BY <2>1, <2>9, <2>10 DEF Told
<1>3. v.running \in BOOLEAN
  BY DEF QueueOK, SyncQueues
<1> QED
  BY <1>1, <1>2, <1>3

\* An answer is taken, and told, before the dequeueing.
LEMMA TakenSpares ==
    ASSUME NEW v, NEW w, NEW N \in Nat, NEW D, NEW e \in Events, QueueOK(v, N),
           Answered(v, w, D, e, N), NEW o, Lone(v, o), Own(v, o),
           Sendable(v, o) \/ o \in w.mapped
    PROVE  /\ Sendable(w, o) /\ Sendable(Dequeue(w), o)
           /\ Told(Dequeue(w), o) = Told(v, o) \cup {f.kind : f \in {f \in {e} : About(f, o)}}
<1>1. QueueOK(w, N) /\ Descends(v, w) /\ v.mapped \subseteq w.mapped
  BY EvolvesDescends DEF Answered, Evolves
<1>2. Own(w, o) /\ Lone(w, o)
  BY <1>1, Descended
<1>3. Sendable(w, o)
  <2>1. CASE Sendable(v, o)
    BY <1>1, <2>1, Descended
  <2>2. CASE o \in w.mapped
    <3>1. \A i \in ContentOf(w, o) : i.objs[1] = o
      BY <1>2 DEF Lone
    <3> QED BY <2>2, <3>1 DEF Sendable, IsUnsendable
  <2> QED BY <2>1, <2>2
<1>4. Told(Dequeue(w), o) = Told(w, o)
  BY <1>1, <1>2, <1>3, DequeueSpares
<1>5. Sendable(Dequeue(w), o)
  <2>1. QueueOK(Dequeue(w), N) /\ Evolves(w, Dequeue(w), {}) /\ Dequeue(w).mapped = w.mapped
    BY <1>1, DequeueOK
  <2>2. PICK x : x = Dequeue(w)
    OBVIOUS
  <2>3. Descends(w, x) /\ w.mapped \subseteq x.mapped
    BY <2>1, <2>2, EvolvesDescends
  <2> QED BY <1>3, <2>2, <2>3, Descended
<1>6. Told(w, o) = Told(v, o) \cup {f.kind : f \in {f \in {e} : About(f, o)}}
  <2>1. PICK x, y : x = v.events /\ y = <<e>>
    OBVIOUS
  <2>2. x \in Seq(Events) /\ y \in Seq(Events) /\ w.events = x \o y
    BY <2>1 DEF QueueOK, SyncQueues, Answered
  <2>3. KindsOf(y, o) = {f.kind : f \in {f \in {e} : About(f, o)}}
    <3>1. DOMAIN y = {1} /\ y[1] = e
      BY <2>1
    <3> QED BY <3>1 DEF KindsOf
  <2>4. KindsOf(x \o y, o) = KindsOf(x, o) \cup KindsOf(y, o)
    BY <2>2, KindsJoined
  <2> QED BY <2>1, <2>2, <2>3, <2>4 DEF Told
<1> QED
  BY <1>3, <1>4, <1>5, <1>6

\* The object can be edited on the server, from what is known of it or of its items.
Alive(v, o, id) == id = "Server" \/ o \in v.mapped

\* Then its items are updates that can be sent.
LEMMA AliveUpdates ==
    ASSUME NEW v, NEW o, NEW id, Named(v, o, id), Plainly(v, o), Alive(v, o, id)
    PROVE  Updates(v, o) /\ Sendable(v, o)
<1>1. CASE o \in v.mapped
  BY <1>1 DEF Plainly, Lone, Sendable, IsUnsendable
<1>2. CASE id = "Server" /\ o \notin v.mapped
  BY <1>2 DEF Named, Updates, Sendable, IsUnsendable
<1> QED
  BY <1>1, <1>2 DEF Alive

\* What a step about other objects leaves of the object o.
Spares(v, w, o) ==
    /\ o \in w.mapped <=> o \in v.mapped
    /\ Sendable(v, o) => Sendable(w, o) /\ Told(w, o) = Told(v, o)

LEMMA WithoutDescends ==
    ASSUME NEW N \in Nat, QueueOK(sync, N), NEW r \in sync.sent
    PROVE  Descends(sync, Without(r))
<1>1. /\ Without(r).queue = sync.queue /\ Without(r).sent = sync.sent \ {r}
  BY WithoutOK
<1> QED
  BY <1>1 DEF Descends, Pending

LEMMA TakenApart ==
    ASSUME NEW v, NEW w, NEW N \in Nat, NEW D, NEW e \in Events, QueueOK(v, N),
           Answered(v, w, D, e, N), NEW o, Lone(v, o), Own(v, o), ~About(e, o)
    PROVE  /\ Spares(v, Dequeue(w), o)
           /\ QueueOK(Dequeue(w), N) /\ Lone(Dequeue(w), o) /\ Own(Dequeue(w), o)
<1>1. PICK x : x = Dequeue(w)
  OBVIOUS
<1>2. /\ QueueOK(w, N) /\ Evolves(v, w, D)
      /\ w.mapped = IF e.kind = "Created" THEN v.mapped \cup {e.o} ELSE v.mapped
  BY DEF Answered
<1>3. QueueOK(x, N) /\ Evolves(w, x, {}) /\ x.mapped = w.mapped
  BY <1>1, <1>2, DequeueOK
<1>4. Descends(v, w) /\ Descends(w, x)
  BY <1>2, <1>3, EvolvesDescends
<1>5. Lone(x, o) /\ Own(x, o)
  BY <1>4, Descended
<1>6. o \in x.mapped <=> o \in v.mapped
  <2>1. e.kind = "Created" => e.o # o
    BY DEF About, Settling
  <2> QED BY <1>2, <1>3, <2>1
<1>7. ASSUME Sendable(v, o) PROVE Sendable(x, o) /\ Told(x, o) = Told(v, o)
  <2>1. {f.kind : f \in {f \in {e} : About(f, o)}} = {}
    OBVIOUS
  <2>2. /\ Sendable(Dequeue(w), o)
        /\ Told(Dequeue(w), o) = Told(v, o) \cup {f.kind : f \in {f \in {e} : About(f, o)}}
    BY <1>7, TakenSpares
  <2> QED BY <1>1, <2>1, <2>2
<1> QED
  BY <1>1, <1>3, <1>5, <1>6, <1>7 DEF Spares

\* All the objects of a creation, if none is o.
LEMMA CreationSpares ==
    ASSUME NEW v, NEW N \in Nat, QueueOK(v, N), NEW r \in Requests, AnswerFits(r),
           r.answer = "Created", NEW o, Lone(v, o), Own(v, o), o \notin Elems(r.objs)
    PROVE  Spares(v, CreatedEach(v, r)[Len(r.objs)], o)
<1> DEFINE n == Len(r.objs)
           created == CreatedEach(v, r)
           S == {k \in Nat : k <= n => /\ QueueOK(created[k], N) /\ Spares(v, created[k], o)
                                       /\ Lone(created[k], o) /\ Own(created[k], o)}
<1>1. n \in Nat /\ \A k \in 1..n : r.objs[k] \in Elems(r.objs)
  <2>1. r.objs \in Seq(Objects)
    BY DEF Requests, ObjectLists
  <2> QED BY <2>1 DEF Elems
<1>2. /\ created[0] = v
      /\ \A k \in 1..n : created[k] = ObjectCreated(created[k - 1], r, r.objs[k])
  BY CreatedEachSteps
<1> HIDE DEF created, n
<1>3. 0 \in S
  BY <1>2 DEF Spares
<1>4. ASSUME NEW k \in Nat, k \in S PROVE k + 1 \in S
  <2>1. SUFFICES ASSUME k + 1 <= n
                 PROVE  /\ QueueOK(created[k + 1], N) /\ Spares(v, created[k + 1], o)
                        /\ Lone(created[k + 1], o) /\ Own(created[k + 1], o)
    OBVIOUS
  <2>2. k + 1 \in 1..n /\ (k + 1) - 1 = k /\ k <= n
    BY <1>1, <2>1
  <2>3. PICK u, p : u = created[k] /\ p = r.objs[k + 1]
    OBVIOUS
  <2>4. p \in Elems(r.objs) /\ created[k + 1] = ObjectCreated(u, r, p)
    BY <1>1, <1>2, <2>2, <2>3
  <2>5. QueueOK(u, N) /\ Spares(v, u, o) /\ Lone(u, o) /\ Own(u, o)
    BY <1>4, <2>2, <2>3
  <2>6. PICK w : \E e \in Events :
              /\ ObjectCreated(u, r, p) = Dequeue(w)
              /\ Answered(u, w, KeysOf(r), e, N)
              /\ e.kind = "Created" /\ e.o = p /\ e.n = r.n
    BY <2>4, <2>5, ObjectCreatedAnswers
  <2>7. PICK e \in Events :
              /\ ObjectCreated(u, r, p) = Dequeue(w)
              /\ Answered(u, w, KeysOf(r), e, N)
              /\ e.kind = "Created" /\ e.o = p /\ e.n = r.n
    BY <2>6
  <2>8. ~About(e, o)
    BY <2>4, <2>7 DEF About
  <2>9. PICK D : D = KeysOf(r)
    OBVIOUS
  <2>10. /\ Spares(u, Dequeue(w), o)
         /\ QueueOK(Dequeue(w), N) /\ Lone(Dequeue(w), o) /\ Own(Dequeue(w), o)
    <3>1. Answered(u, w, D, e, N)
      BY <2>7, <2>9
    <3> QED BY <3>1, <2>5, <2>8, TakenApart
  <2>11. Dequeue(w) = created[k + 1]
    BY <2>4, <2>7
  <2>12. Spares(v, created[k + 1], o)
    BY <2>5, <2>10, <2>11 DEF Spares
  <2> QED BY <2>10, <2>11, <2>12
<1> HIDE DEF S
<1>5. Nat \subseteq S
  BY <1>3, <1>4, SetInduction
<1> QED
  BY <1>1, <1>5 DEF S, created, n

\* A request that fails takes only edits of its own objects with it.
LEMMA FailAllSpares ==
    ASSUME NEW N \in Nat, QueueOK(sync, N), NEW r \in sync.sent, NEW kind \in EventKinds,
           NEW o, Lone(sync, o), Own(sync, o), r \notin ContentOf(sync, o),
           kind \notin Settling \/ o \notin Elems(r.objs)
    PROVE  /\ QueueOK(FailAll(r, kind), N) /\ Own(FailAll(r, kind), o)
           /\ Spares(sync, FailAll(r, kind), o)
<1>1. /\ QueueOK(Without(r), N) /\ r \in Requests /\ AnswerFits(r)
      /\ Without(r).queue = sync.queue /\ Without(r).sent = sync.sent \ {r}
      /\ Without(r).mapped = sync.mapped /\ Without(r).events = sync.events
  BY WithoutOK
<1>2. PICK v, ds, es : /\ v = Without(r) /\ ds = KeysOf(r)
                       /\ es = [k \in DOMAIN r.objs |-> Event(kind, r.objs[k], r.n, NoConflict)]
  OBVIOUS
<1>3. FailAll(r, kind) = Fail(v, ds, es)
  BY <1>2 DEF FailAll, KeysOf
<1>4. es \in Seq(Events)
  <2>1. r.objs \in Seq(Objects) /\ Len(r.objs) \in Nat /\ DOMAIN r.objs = 1..Len(r.objs)
    BY <1>1 DEF Requests, ObjectLists
  <2>2. ASSUME NEW k \in DOMAIN r.objs PROVE es[k] \in Events
    <3>1. PICK p \in Elems(r.objs) : p = r.objs[k]
      BY DEF Elems
    <3>2. Event(kind, p, r.n, NoConflict) \in Events
      BY <1>1, AnswerEvents
    <3> QED BY <1>2, <3>1, <3>2
  <2>3. es \in [1..Len(r.objs) -> Events]
    BY <1>2, <2>1, <2>2
  <2> QED BY <2>1, <2>3
<1>5. \A k \in DOMAIN es : ~About(es[k], o)
  BY <1>2 DEF About, Event, Elems
<1>6. Descends(sync, v)
  BY <1>2, WithoutDescends
<1>7. Lone(v, o) /\ Own(v, o)
  BY <1>6, Descended
<1>8. \A i \in Elems(v.queue) \cap ContentOf(v, o) : i.deps \cap ds = {}
  <2>1. SUFFICES ASSUME NEW i \in Elems(v.queue) \cap ContentOf(v, o), NEW d \in i.deps, d \in ds
                 PROVE  FALSE
    OBVIOUS
  <2>2. d[1] = r.n /\ r \in Pending(sync)
    BY <1>2, <2>1 DEF KeysOf, DependencyOn, Pending
  <2>3. i \in Elems(sync.queue) \cap ContentOf(sync, o)
    BY <1>1, <1>2 DEF ContentOf, Pending
  <2> QED BY <2>2, <2>3 DEF Own
<1>9. PICK w : w = Fail(v, ds, es)
  OBVIOUS
<1>10. QueueOK(w, N) /\ Evolves(v, w, {}) /\ w.mapped = v.mapped
  BY <1>1, <1>2, <1>4, <1>9, FailOK
<1>11. Descends(v, w)
  BY <1>10, EvolvesDescends
<1>12. Own(w, o)
  BY <1>7, <1>11, Descended
<1>13. Told(w, o) = Told(v, o)
  <2>1. QueueOK(v, N)
    BY <1>1, <1>2
  <2>2. Told(Fail(v, ds, es), o) = Told(v, o)
    BY <2>1, <1>4, <1>5, <1>7, <1>8, FailSpares
  <2> QED BY <1>9, <2>2
<1>14. Told(v, o) = Told(sync, o)
  BY <1>1, <1>2 DEF Told
<1>15. Sendable(sync, o) => Sendable(v, o)
  BY <1>1, <1>2, <1>6, Descended
<1>16. Sendable(v, o) => Sendable(w, o)
  BY <1>10, <1>11, Descended
<1>17. Spares(sync, w, o)
  BY <1>1, <1>2, <1>10, <1>13, <1>14, <1>15, <1>16 DEF Spares
<1> QED
  BY <1>3, <1>9, <1>10, <1>12, <1>17

LEMMA DequeueApart ==
    ASSUME NEW v, NEW N \in Nat, QueueOK(v, N), NEW o, Own(v, o)
    PROVE  Spares(v, Dequeue(v), o)
<1>1. PICK w : w = Dequeue(v)
  OBVIOUS
<1>2. Evolves(v, w, {}) /\ w.mapped = v.mapped
  BY <1>1, DequeueOK
<1>3. Descends(v, w)
  BY <1>2, EvolvesDescends
<1>4. Sendable(v, o) => Sendable(w, o)
  BY <1>2, <1>3, Descended
<1>5. Sendable(v, o) => Told(w, o) = Told(v, o)
  <2>1. Sendable(v, o) => Told(Dequeue(v), o) = Told(v, o)
    BY DequeueSpares
  <2> QED BY <1>1, <2>1
<1> QED
  BY <1>1, <1>2, <1>4, <1>5 DEF Spares

\* The end of a request that is not the object's.
LEMMA OthersAnswered ==
    ASSUME NEW N \in Nat, QueueOK(sync, N), NEW r \in sync.sent, Receive(r) \/ RequestFailed(r),
           NEW o, Lone(sync, o), Own(sync, o), r \notin ContentOf(sync, o)
    PROVE  Spares(sync, sync', o)
<1>1. /\ QueueOK(Without(r), N) /\ r \in Requests /\ AnswerFits(r)
      /\ Without(r).queue = sync.queue /\ Without(r).sent = sync.sent \ {r}
      /\ Without(r).mapped = sync.mapped /\ Without(r).events = sync.events
  BY WithoutOK
<1>2. PICK v : v = Without(r)
  OBVIOUS
<1>3. Descends(sync, v)
  BY <1>2, WithoutDescends
<1>4. Lone(v, o) /\ Own(v, o)
  BY <1>3, Descended
<1>5. Spares(sync, v, o)
  <2>1. Sendable(sync, o) => Sendable(v, o)
    BY <1>1, <1>2, <1>3, Descended
  <2> QED BY <1>1, <1>2, <2>1 DEF Spares, Told
<1>6. IsContent(r) => o \notin Elems(r.objs)
  BY DEF ContentOf, Pending
<1>7. ASSUME NEW kind \in EventKinds, IsContent(r) \/ kind \notin Settling,
             sync' \in {FailAll(r, kind), Dequeue(FailAll(r, kind))}
      PROVE  Spares(sync, sync', o)
  <2>1. PICK w : w = FailAll(r, kind)
    OBVIOUS
  <2>2. QueueOK(w, N) /\ Own(w, o) /\ Spares(sync, w, o)
    BY <1>6, <1>7, <2>1, FailAllSpares
  <2>3. Spares(w, Dequeue(w), o)
    BY <2>2, DequeueApart
  <2> QED BY <1>7, <2>1, <2>2, <2>3 DEF Spares
<1>8. CASE Receive(r)
  <2>1. CASE \E w : \E e \in Events :
                 /\ sync' = Dequeue(w) /\ Answered(Without(r), w, {Whole(r)}, e, N)
                 /\ e.o = r.objs[1] /\ e.n = r.n /\ r.op # "Bulk"
                 /\ \/ e.kind \in {"Updated", "Rejected"} /\ r.op = "Update"
                    \/ e.kind = "Denied" /\ r.op = "Create"
                    \/ e.kind = "Recorded" /\ r.op = "Record"
                 /\ e.kind = "Rejected" => r.answer = "Rejected"
    <3>1. PICK w : \E e \in Events :
                 /\ sync' = Dequeue(w) /\ Answered(Without(r), w, {Whole(r)}, e, N)
                 /\ e.o = r.objs[1] /\ e.n = r.n /\ r.op # "Bulk"
                 /\ \/ e.kind \in {"Updated", "Rejected"} /\ r.op = "Update"
                    \/ e.kind = "Denied" /\ r.op = "Create"
                    \/ e.kind = "Recorded" /\ r.op = "Record"
      BY <2>1
    <3>2. PICK e \in Events :
                 /\ sync' = Dequeue(w) /\ Answered(Without(r), w, {Whole(r)}, e, N)
                 /\ e.o = r.objs[1] /\ e.n = r.n /\ r.op # "Bulk"
                 /\ \/ e.kind \in {"Updated", "Rejected"} /\ r.op = "Update"
                    \/ e.kind = "Denied" /\ r.op = "Create"
                    \/ e.kind = "Recorded" /\ r.op = "Record"
      BY <3>1
    <3>3. PICK D : D = {Whole(r)}
      OBVIOUS
    <3>4. Answered(v, w, D, e, N)
      BY <1>2, <3>2, <3>3
    <3>5. ~About(e, o)
      <4>1. SUFFICES ASSUME About(e, o) PROVE FALSE
        OBVIOUS
      <4>2. e.o = o /\ e.kind # "Recorded"
        BY <4>1 DEF About, Settling
      <4>3. IsContent(r)
        BY <3>2, <4>2 DEF IsContent, Creations
      <4>4. r.objs[1] \in Elems(r.objs)
        BY <1>1 DEF Requests, ObjectLists, Elems
      <4> QED BY <1>6, <3>2, <4>2, <4>3, <4>4
    <3>6. Spares(v, Dequeue(w), o)
      BY <1>1, <1>2, <1>4, <3>4, <3>5, TakenApart
    <3> QED BY <1>5, <3>2, <3>6 DEF Spares
  <2>2. CASE r.answer = "Created" /\ sync' = CreatedEach(Without(r), r)[Len(r.objs)]
    <3>1. o \notin Elems(r.objs)
      BY <1>1, <1>6, <2>2 DEF AnswerFits, IsContent
    <3>2. Spares(v, CreatedEach(v, r)[Len(r.objs)], o)
      BY <1>1, <1>2, <1>4, <2>2, <3>1, CreationSpares
    <3>3. Spares(v, sync', o)
      BY <1>2, <2>2, <3>2
    <3> QED BY <1>5, <3>3 DEF Spares
  <2>3. CASE r.answer = "KeyConflict" /\ sync' = Dequeue(FailAll(r, "KeyConflict"))
    <3>1. IsContent(r)
      BY <1>1, <2>3 DEF AnswerFits, IsContent
    <3> QED BY <1>7, <2>3, <3>1 DEF EventKinds
  <2> QED BY <1>8, <2>1, <2>2, <2>3, ReceiveForms
<1>9. CASE RequestFailed(r)
  <2>1. PICK kind : kind = IF IsContent(r) THEN "Failed" ELSE "NotRecorded"
    OBVIOUS
  <2>2. sync' \in {FailAll(r, kind), Dequeue(FailAll(r, kind))}
    BY <1>9, <2>1 DEF RequestFailed
  <2>3. kind \in EventKinds /\ (IsContent(r) \/ kind \notin Settling)
    BY <2>1 DEF EventKinds, Settling
  <2> QED BY <1>7, <2>2, <2>3
<1> QED
  BY <1>8, <1>9

\* Once an edit has failed, so have all others.
Verdict(v, o) ==
    \/ Told(v, o) \cap Failures = {}
    \/ Waiting(v, o) = {} /\ Told(v, o) \subseteq Failures

\* What failed with a request, and with the dequeueing, is told as failures.
LEMMA FailuresTold ==
    ASSUME NEW N \in Nat, QueueOK(sync, N), Quiet, NEW r \in sync.sent, NEW o, NEW x,
           x \in {FailAll(r, "Failed"), Dequeue(FailAll(r, "Failed"))}
    PROVE  Told(x, o) \subseteq {"Failed"}
<1>1. /\ QueueOK(Without(r), N) /\ r \in Requests /\ AnswerFits(r)
      /\ Without(r).events = <<>>
  BY WithoutOK DEF Quiet
<1>2. PICK v, ds, es : /\ v = Without(r) /\ ds = KeysOf(r)
                       /\ es = [k \in DOMAIN r.objs |-> Event("Failed", r.objs[k], r.n, NoConflict)]
  OBVIOUS
<1>3. FailAll(r, "Failed") = Fail(v, ds, es)
  BY <1>2 DEF FailAll, KeysOf
<1>4. es \in Seq(Events)
  <2>1. r.objs \in Seq(Objects) /\ Len(r.objs) \in Nat /\ DOMAIN r.objs = 1..Len(r.objs)
    BY <1>1 DEF Requests, ObjectLists
  <2>2. ASSUME NEW k \in DOMAIN r.objs PROVE es[k] \in Events
    <3>1. PICK p \in Elems(r.objs) : p = r.objs[k]
      BY DEF Elems
    <3>2. "Failed" \in EventKinds
      BY DEF EventKinds
    <3>3. Event("Failed", p, r.n, NoConflict) \in Events
      BY <1>1, <3>2, AnswerEvents
    <3> QED BY <1>2, <3>1, <3>3
  <2>3. es \in [1..Len(r.objs) -> Events]
    BY <1>2, <2>1, <2>2
  <2> QED BY <2>1, <2>3
<1>5. PICK w : w = Fail(v, ds, es)
  OBVIOUS
<1>6. QueueOK(v, N)
  BY <1>1, <1>2
<1>7. QueueOK(w, N)
  BY <1>4, <1>5, <1>6, FailOK
<1>8. PICK fs : Reports(v, w, fs) /\ w.events = v.events \o fs \o es
  <2>1. \E fs : /\ Reports(v, Fail(v, ds, es), fs)
                /\ Fail(v, ds, es).events = v.events \o fs \o es
    BY <1>4, <1>6, FailReports
  <2> QED BY <1>5, <2>1
<1>9. fs \in Seq(Events) /\ \A k \in DOMAIN fs : fs[k].kind = "Failed"
  BY <1>8 DEF Reports
<1>10. Told(w, o) \subseteq {"Failed"}
  <2>1. w.events = fs \o es
    BY <1>1, <1>2, <1>8, <1>9
  <2>2. KindsOf(fs \o es, o) = KindsOf(fs, o) \cup KindsOf(es, o)
    BY <1>4, <1>9, KindsJoined
  <2>3. KindsOf(fs, o) \subseteq {"Failed"}
    BY <1>9 DEF KindsOf
  <2>4. KindsOf(es, o) \subseteq {"Failed"}
    BY <1>2 DEF KindsOf, Event
  <2> QED BY <2>1, <2>2, <2>3, <2>4 DEF Told
<1>11. Told(Dequeue(w), o) \subseteq {"Failed"}
  <2>1. PICK ys : Reports(w, Dequeue(w), ys) /\ Dequeue(w).events = w.events \o ys
    BY <1>7, DequeueReports
  <2>2. ys \in Seq(Events) /\ \A k \in DOMAIN ys : ys[k].kind = "Failed"
    BY <2>1 DEF Reports
  <2>3. PICK y : y = w.events
    OBVIOUS
  <2>4. y \in Seq(Events)
    BY <1>7, <2>3 DEF QueueOK, SyncQueues
  <2>5. KindsOf(y \o ys, o) = KindsOf(y, o) \cup KindsOf(ys, o)
    BY <2>2, <2>4, KindsJoined
  <2>6. KindsOf(ys, o) \subseteq {"Failed"}
    BY <2>2 DEF KindsOf
  <2> QED BY <1>10, <2>1, <2>3, <2>5, <2>6 DEF Told
<1> QED
  BY <1>3, <1>5, <1>10, <1>11

\* The end of the object's own request.
LEMMA OwnAnswered ==
    ASSUME NEW N \in Nat, QueueOK(sync, N), Quiet, NEW r \in sync.sent,
           Receive(r) \/ RequestFailed(r), NEW o, NEW id, Named(sync, o, id), Chained(sync, o),
           Plainly(sync, o), r \in ContentOf(sync, o)
    PROVE  Updates(Without(r), o) /\ (Alive(sync', o, id) => Verdict(sync', o))
<1>1. /\ QueueOK(Without(r), N) /\ r \in Requests /\ AnswerFits(r)
      /\ Without(r).queue = sync.queue /\ Without(r).sent = sync.sent \ {r}
      /\ Without(r).mapped = sync.mapped /\ Without(r).events = sync.events
  BY WithoutOK
<1>2. PICK v : v = Without(r)
  OBVIOUS
<1>3. Descends(sync, v)
  BY <1>2, WithoutDescends
<1>4. Lone(sync, o) /\ Own(sync, o) /\ Lone(v, o) /\ Own(v, o)
  BY <1>3, Descended DEF Plainly
<1>5. IsContent(r) /\ r.objs = <<o>> /\ r.op \in {"Create", "Update"}
  BY <1>4 DEF Lone, ContentOf, IsContent, Creations
<1>6. Updates(v, o)
  <2>1. SUFFICES ASSUME NEW i \in ContentOf(v, o) PROVE i.op = "Update"
    BY DEF Updates
  <2>2. r \notin Elems(sync.queue)
    BY OneItem DEF Pending
  <2>3. i \in ContentOf(sync, o) /\ i # r
    BY <1>1, <1>2, <2>2 DEF ContentOf, Pending
  <2>4. i.n \in Nat /\ r.n \in Nat
    <3>1. Elems(sync.queue) \subseteq Items /\ sync.sent \subseteq Requests
      BY ElemsType DEF QueueOK, SyncQueues
    <3> QED BY <2>3, <3>1 DEF ContentOf, Pending, Items, Requests
  <2>5. i.n # r.n
    BY <2>3, OneItem DEF ContentOf
  <2>6. r.n < i.n
    BY <2>2, <2>3, <2>4, <2>5 DEF Chained
  <2> QED BY <2>3, <2>6 DEF Chained
<1>7. Told(v, o) = {}
  BY <1>1, <1>2 DEF Told, KindsOf, Quiet
<1>8. ASSUME Alive(sync, o, id)
      PROVE  r.op = "Update" /\ Sendable(v, o)
  <2>1. Updates(sync, o) /\ Sendable(sync, o)
    BY <1>8, AliveUpdates
  <2> QED BY <1>1, <1>2, <1>3, <2>1, Descended DEF Updates
<1>9. ASSUME Receive(r), Alive(sync', o, id) PROVE Verdict(sync', o)
  <2>1. CASE \E w : \E e \in Events :
                 /\ sync' = Dequeue(w) /\ Answered(Without(r), w, {Whole(r)}, e, N)
                 /\ e.o = r.objs[1] /\ e.n = r.n /\ r.op # "Bulk"
                 /\ \/ e.kind \in {"Updated", "Rejected"} /\ r.op = "Update"
                    \/ e.kind = "Denied" /\ r.op = "Create"
                    \/ e.kind = "Recorded" /\ r.op = "Record"
                 /\ e.kind = "Rejected" => r.answer = "Rejected"
    <3>1. PICK w : \E e \in Events :
                 /\ sync' = Dequeue(w) /\ Answered(Without(r), w, {Whole(r)}, e, N)
                 /\ e.o = r.objs[1] /\ e.n = r.n /\ r.op # "Bulk"
                 /\ \/ e.kind \in {"Updated", "Rejected"} /\ r.op = "Update"
                    \/ e.kind = "Denied" /\ r.op = "Create"
                    \/ e.kind = "Recorded" /\ r.op = "Record"
      BY <2>1
    <3>2. PICK e \in Events :
                 /\ sync' = Dequeue(w) /\ Answered(Without(r), w, {Whole(r)}, e, N)
                 /\ e.o = r.objs[1] /\ e.n = r.n /\ r.op # "Bulk"
                 /\ \/ e.kind \in {"Updated", "Rejected"} /\ r.op = "Update"
                    \/ e.kind = "Denied" /\ r.op = "Create"
                    \/ e.kind = "Recorded" /\ r.op = "Record"
      BY <3>1
    <3>3. PICK D : D = {Whole(r)}
      OBVIOUS
    <3>4. Answered(v, w, D, e, N)
      BY <1>2, <3>2, <3>3
    <3>5. QueueOK(w, N) /\ w.mapped = sync.mapped
      BY <1>1, <1>2, <3>2, <3>4 DEF Answered
    <3>6. Dequeue(w).mapped = w.mapped
      BY <3>5, DequeueOK
    <3>7. Alive(sync, o, id)
      BY <1>9, <3>2, <3>5, <3>6 DEF Alive
    <3>8. e.kind \in {"Updated", "Rejected"}
      BY <1>8, <3>2, <3>7
    <3>9. Told(Dequeue(w), o) = Told(v, o) \cup {f.kind : f \in {f \in {e} : About(f, o)}}
      BY <1>1, <1>2, <1>4, <1>8, <3>4, <3>7, TakenSpares
    <3>10. Told(sync', o) \cap Failures = {}
      BY <1>7, <3>2, <3>8, <3>9 DEF Failures
    <3> QED BY <3>10 DEF Verdict
  <2>2. CASE r.answer = "Created" /\ sync' = CreatedEach(Without(r), r)[Len(r.objs)]
    <3>1. PICK u : u = CreatedEach(v, r)
      OBVIOUS
    <3>2. u[0] = v /\ \A k \in 1..Len(r.objs) : u[k] = ObjectCreated(u[k - 1], r, r.objs[k])
      <4>1. LET created == CreatedEach(v, r)
            IN  /\ created[0] = v
                /\ \A k \in 1..Len(r.objs) :
                       created[k] = ObjectCreated(created[k - 1], r, r.objs[k])
        BY <1>1, <1>2, <2>2, CreatedEachSteps
      <4> QED BY <3>1, <4>1
    <3>3. Len(r.objs) = 1 /\ r.objs[1] = o /\ o \in Elems(r.objs)
      BY <1>5 DEF Elems
    <3>4. sync' = ObjectCreated(v, r, o)
      BY <1>2, <2>2, <3>1, <3>2, <3>3
    <3>5. PICK w : \E e \in Events :
              /\ ObjectCreated(v, r, o) = Dequeue(w)
              /\ Answered(v, w, KeysOf(r), e, N)
              /\ e.kind = "Created" /\ e.o = o /\ e.n = r.n
      BY <1>1, <1>2, <2>2, <3>3, ObjectCreatedAnswers
    <3>6. PICK e \in Events :
              /\ ObjectCreated(v, r, o) = Dequeue(w)
              /\ Answered(v, w, KeysOf(r), e, N)
              /\ e.kind = "Created" /\ e.o = o /\ e.n = r.n
      BY <3>5
    <3>7. PICK D : D = KeysOf(r)
      OBVIOUS
    <3>8. Answered(v, w, D, e, N) /\ o \in w.mapped
      BY <3>6, <3>7 DEF Answered
    <3>9. Told(Dequeue(w), o) = Told(v, o) \cup {f.kind : f \in {f \in {e} : About(f, o)}}
      BY <1>1, <1>2, <1>4, <3>8, TakenSpares
    <3>10. Told(sync', o) \cap Failures = {}
      BY <1>7, <3>4, <3>6, <3>9 DEF Failures
    <3> QED BY <3>10 DEF Verdict
  <2>3. CASE r.answer = "KeyConflict" /\ sync' = Dequeue(FailAll(r, "KeyConflict"))
    <3>1. PICK x : x = FailAll(r, "KeyConflict")
      OBVIOUS
    <3>2. QueueOK(x, N) /\ x.mapped = sync.mapped
      <4>1. "KeyConflict" \in EventKinds
        BY DEF EventKinds
      <4>2. QueueOK(x, N)
        BY <3>1, <4>1, FailAllFrees DEF Frees
      <4>3. x.mapped = sync.mapped
        BY <1>1, <3>1 DEF FailAll, Fail, QueueOK, SyncQueues
      <4> QED BY <4>2, <4>3
    <3>3. Dequeue(x).mapped = x.mapped
      BY <3>2, DequeueOK
    <3>4. Alive(sync, o, id)
      BY <1>9, <2>3, <3>1, <3>2, <3>3 DEF Alive
    <3>5. r.op \in Creations
      BY <1>1, <2>3 DEF AnswerFits
    <3> QED BY <1>8, <3>4, <3>5 DEF Creations
  <2> QED BY <1>9, <2>1, <2>2, <2>3, ReceiveForms
<1>10. ASSUME RequestFailed(r) PROVE Verdict(sync', o)
  <2>1. PICK x : x = FailAll(r, "Failed")
    OBVIOUS
  <2>2. sync' \in {x, Dequeue(x)}
    BY <1>5, <1>10, <2>1 DEF RequestFailed
  <2>3. /\ QueueOK(x, N) /\ \A i \in Elems(x.queue) : i.deps \cap KeysOf(r) = {}
    <3>1. "Failed" \in EventKinds
      BY DEF EventKinds
    <3> QED BY <2>1, <3>1, FailAllFrees DEF Frees
  <2>4. Elems(x.queue) \subseteq Elems(sync.queue) /\ x.sent = sync.sent \ {r}
    <3>1. PICK ds, es : /\ ds = KeysOf(r)
                        /\ es = [k \in DOMAIN r.objs |-> Event("Failed", r.objs[k], r.n, NoConflict)]
      OBVIOUS
    <3>2. x = Fail(v, ds, es)
      BY <1>2, <2>1, <3>1 DEF FailAll, KeysOf
    <3>3. x.queue = Filter(v.queue, Elems(v.queue) \ DependentsOf(v, ds)) /\ x.sent = v.sent
      BY <1>1, <1>2, <3>2 DEF Fail, QueueOK, SyncQueues
    <3>4. PICK S : S = Elems(v.queue) \ DependentsOf(v, ds)
      OBVIOUS
    <3>5. Elems(Filter(v.queue, S)) = Elems(v.queue) \cap S
      <4>1. v.queue \in Seq(Items) /\ \A j, k \in DOMAIN v.queue : v.queue[j].n = v.queue[k].n => j = k
        BY <1>1, <1>2 DEF QueueOK, SyncQueues, NumbersDiffer
      <4> QED BY <4>1, FilteredItems
    <3> QED BY <1>1, <1>2, <3>3, <3>4, <3>5
  <2>5. Waiting(x, o) = {}
    BY <2>3, <2>4, AllFail
  <2>6. Waiting(Dequeue(x), o) = {}
    <3>1. PICK y : y = Dequeue(x)
      OBVIOUS
    <3>2. Evolves(x, y, {})
      BY <2>3, <3>1, DequeueOK
    <3>3. Waiting(y, o) \subseteq Waiting(x, o)
      BY <3>2, EvolvesDescends, Descended
    <3> QED BY <2>5, <3>1, <3>3
  <2>7. Told(sync', o) \subseteq {"Failed"}
    <3>1. PICK y : y = sync'
      OBVIOUS
    <3>2. y \in {FailAll(r, "Failed"), Dequeue(FailAll(r, "Failed"))}
      BY <2>1, <2>2, <3>1
    <3>3. Told(y, o) \subseteq {"Failed"}
      BY <3>2, FailuresTold
    <3> QED BY <3>1, <3>3
  <2> QED BY <2>2, <2>5, <2>6, <2>7 DEF Verdict, Failures
<1> QED
  BY <1>2, <1>6, <1>9, <1>10

(***************************************************************************)
(* An object that was rejected while edits were under way can only be      *)
(* Errored once all of these have failed.                                  *)
(***************************************************************************)
Lasting(v, o, object) ==
    /\ Plainly(v, o)
    /\ Alive(v, o, object.id) =>
          /\ Verdict(v, o)
          /\ object.status = Errored => Waiting(v, o) = {} /\ Told(v, o) \subseteq Failures

\* What SQLite has of an object, and what it marks as pending.
Kept(object, row) ==
    /\ row.id = object.id /\ row.content = object.content
    /\ IsPending(object.status) => row.pending

Persists(v, o, object, row) ==
    /\ Kept(object, row) /\ object.status >= InConflict
    /\ o \in Plain => Lasting(v, o, object)

PersistInv == \A o \in Objects : Persists(sync, o, model[o], saved[o])

\* Nothing is under way for an Errored object.
LEMMA ErroredRests ==
    ASSUME NEW v, NEW o, NEW object, NEW row, ObjectOK(v, o, object, row), Lasting(v, o, object),
           object.status = Errored
    PROVE  Waiting(v, o) = {} /\ Told(v, o) \subseteq Failures
<1>1. CASE Alive(v, o, object.id)
  BY <1>1 DEF Lasting
<1>2. CASE ~Alive(v, o, object.id)
  <2>1. object.id = "Client"
    BY <1>2 DEF ObjectOK, Personal, IsPending, Exists, Alive, Errored, NoLocalChanges, InConflict
  <2>2. Live(v, o) = {}
    BY <2>1 DEF ObjectOK, Counted, IsCounted, Errored
  <2>3. Waiting(v, o) = {} /\ Announced(v.events, o) = {}
    BY <2>2 DEF Live
  <2>4. KindsOf(v.events, o) = {}
    BY <2>3, NothingAnnounced
  <2> QED BY <2>3, <2>4 DEF Told
<1> QED
  BY <1>1, <1>2

\* A step that tells nothing more of the object.
LEMMA LastingOn ==
    ASSUME NEW v, NEW w, NEW o, NEW object, Descends(v, w), o \in w.mapped <=> o \in v.mapped,
           Lasting(v, o, object), Alive(v, o, object.id) => Told(w, o) \subseteq Told(v, o)
    PROVE  Lasting(w, o, object)
<1>1. Lone(w, o) /\ Own(w, o) /\ (Updates(v, o) => Updates(w, o)) /\ Waiting(w, o) \subseteq Waiting(v, o)
  BY Descended DEF Lasting, Plainly
<1>2. Plainly(w, o)
  BY <1>1 DEF Lasting, Plainly
<1>3. Alive(w, o, object.id) => Alive(v, o, object.id)
  BY DEF Alive
<1> QED
  BY <1>1, <1>2, <1>3 DEF Lasting, Verdict

\* An answer, or the failure of a request.
LEMMA AnswerTakenKept ==
    ASSUME TeamObjects = {}, TypeInv, OrderInv, PersistInv,
           NEW r \in sync.sent, Receive(r) \/ RequestFailed(r)
    PROVE  PersistInv'
<1>1. PICK N \in Nat : N = next
  BY DEF TypeInv
<1>2. QueueOK(sync, N) /\ UNCHANGED <<model, saved>> /\ Quiet
  BY <1>1 DEF TypeInv, Receive, RequestFailed
<1>3. PICK v, w : v = Without(r) /\ w = sync'
  OBVIOUS
<1>4. Descends(sync, v) /\ Descends(v, w)
  <2>1. PICK D : D = KeysOf(r)
    OBVIOUS
  <2>2. Evolves(v, w, D)
    BY <1>2, <1>3, <2>1, ReceiveFrees, RequestFailedFrees DEF Frees
  <2>3. Descends(v, w)
    BY <2>2, EvolvesDescends
  <2> QED BY <1>2, <1>3, <2>3, WithoutDescends
<1>5. ASSUME NEW o \in Plain, NEW object, object = model[o]
      PROVE  Lasting(w, o, object)
  <2>1. PICK id, row : id = object.id /\ row = saved[o]
    OBVIOUS
  <2>2. /\ ObjectOK(sync, o, object, row) /\ Named(sync, o, id) /\ Chained(sync, o)
        /\ Lasting(sync, o, object) /\ Plainly(sync, o) /\ o \in Objects
    BY <1>5, <2>1
       DEF OrderInv, ObjectOK, InOrder, PersistInv, Persists, Plain, Lasting, Objects
  <2>3. Lone(sync, o) /\ Own(sync, o)
    BY <2>2 DEF Plainly
  <2>4. Lone(v, o) /\ Own(v, o) /\ Waiting(v, o) \subseteq Waiting(sync, o)
    BY <1>4, <2>3, Descended
  <2>5. Lone(w, o) /\ Own(w, o) /\ (Updates(v, o) => Updates(w, o)) /\ Waiting(w, o) \subseteq Waiting(v, o)
    BY <1>4, <2>4, Descended
  <2>6. CASE r \in ContentOf(sync, o)
    <3>1. Updates(v, o) /\ (Alive(w, o, id) => Verdict(w, o))
      <4>1. Updates(Without(r), o) /\ (Alive(sync', o, id) => Verdict(sync', o))
        BY <1>2, <2>2, <2>6, OwnAnswered
      <4> QED BY <1>3, <4>1
    <3>2. object.status # Errored
      BY <2>2, <2>6, ErroredRests DEF Waiting
    <3> QED BY <2>1, <2>5, <3>1, <3>2 DEF Lasting, Plainly
  <2>7. CASE r \notin ContentOf(sync, o)
    <3>1. Spares(sync, w, o)
      <4>1. Spares(sync, sync', o)
        BY <1>2, <2>3, <2>7, OthersAnswered
      <4> QED BY <1>3, <4>1
    <3>2. Told(sync, o) = {}
      BY <1>2 DEF Told, KindsOf, Quiet
    <3>3. Updates(sync, o) => Updates(v, o)
      BY <1>4, Descended
    <3>4. Plainly(w, o)
      BY <2>2, <2>5, <3>1, <3>3 DEF Plainly, Spares
    <3>5. ASSUME Alive(w, o, id)
          PROVE  Told(w, o) = {}
      <4>1. Alive(sync, o, id)
        BY <3>1, <3>5 DEF Alive, Spares
      <4>2. Sendable(sync, o)
        BY <2>2, <4>1, AliveUpdates
      <4> QED BY <3>1, <3>2, <4>2 DEF Spares
    <3>6. object.status = Errored => Waiting(w, o) = {}
      BY <2>2, <2>4, <2>5, ErroredRests
    <3> QED BY <2>1, <3>4, <3>5, <3>6 DEF Lasting, Verdict
  <2> QED BY <2>6, <2>7
<1> QED
  BY <1>2, <1>3, <1>5 DEF PersistInv, Persists

\* The server answers a request, or its answer is lost.
LEMMA ServeKept ==
    ASSUME TypeInv, PersistInv, NEW r \in sync.sent, Serve(r) \/ LoseAnswer(r)
    PROVE  PersistInv'
<1>1. r \in Requests /\ sync \in SyncQueues
  BY DEF TypeInv, QueueOK, SyncQueues
<1>2. PICK s : /\ s.n = r.n /\ s.op = r.op /\ s.objs = r.objs
               /\ sync' = [sync EXCEPT !.sent = (@ \ {r}) \cup {s}] /\ UNCHANGED <<model, saved>>
  <2>1. CASE Serve(r)
    <3>1. PICK answer : Answer(r, answer)
      BY <2>1 DEF Serve, ApplyCreation, DenyCreation, FindKeyConflict, ApplyUpdate, ApplyRecord
    <3>2. PICK f : f = [o \in Elems(r.objs) |-> server'[o]]
      OBVIOUS
    <3>3. PICK s : s = [r EXCEPT !.answer = answer, !.found = f]
      OBVIOUS
    <3>4. s.n = r.n /\ s.op = r.op /\ s.objs = r.objs
      BY <1>1, <3>3 DEF Requests
    <3>5. sync' = [sync EXCEPT !.sent = (@ \ {r}) \cup {s}] /\ UNCHANGED <<model, saved>>
      BY <3>1, <3>2, <3>3 DEF Answer
    <3> QED BY <3>4, <3>5
  <2>2. CASE LoseAnswer(r)
    <3>1. PICK s : s = [r EXCEPT !.answer = "None", !.found = <<>>, !.resent = @ + 1]
      OBVIOUS
    <3>2. s.n = r.n /\ s.op = r.op /\ s.objs = r.objs
      BY <1>1, <3>1 DEF Requests
    <3>3. sync' = [sync EXCEPT !.sent = (@ \ {r}) \cup {s}] /\ UNCHANGED <<model, saved>>
      BY <2>2, <3>1 DEF LoseAnswer
    <3> QED BY <3>2, <3>3
  <2> QED BY <2>1, <2>2
<1>3. PICK w : w = sync'
  OBVIOUS
<1>4. /\ w.queue = sync.queue /\ w.sent = (sync.sent \ {r}) \cup {s}
      /\ w.mapped = sync.mapped /\ w.events = sync.events
  BY <1>1, <1>2, <1>3 DEF SyncQueues
<1>5. Descends(sync, w)
  BY <1>2, <1>4 DEF Descends, Pending
<1>6. ASSUME NEW o, NEW object, Lasting(sync, o, object) PROVE Lasting(w, o, object)
  <2>1. Told(w, o) = Told(sync, o)
    BY <1>4 DEF Told
  <2> QED BY <1>4, <1>5, <1>6, <2>1, LastingOn
<1> QED
  BY <1>2, <1>3, <1>6 DEF PersistInv, Persists

\* Nothing is told of the object when the queue is tried, if it can be sent.
LEMMA DequeueLasts ==
    ASSUME NEW v, NEW N \in Nat, QueueOK(v, N), NEW o, NEW object, Named(v, o, object.id),
           Lasting(v, o, object)
    PROVE  Lasting(Dequeue(v), o, object)
<1>1. PICK w, id : w = Dequeue(v) /\ id = object.id
  OBVIOUS
<1>2. Evolves(v, w, {})
  BY <1>1, DequeueOK
<1>3. Descends(v, w)
  BY <1>2, EvolvesDescends
<1>4. Plainly(v, o) /\ Own(v, o) /\ Named(v, o, id)
  BY <1>1 DEF Lasting, Plainly
<1>5. Spares(v, w, o)
  BY <1>1, <1>4, DequeueApart
<1>6. Alive(v, o, id) => Sendable(v, o)
  BY <1>4, AliveUpdates
<1>7. Lasting(w, o, object)
  BY <1>1, <1>3, <1>5, <1>6, LastingOn DEF Spares
<1> QED
  BY <1>1, <1>7

\* The dequeueing starts or stops.
LEMMA PollKept ==
    ASSUME TeamObjects = {}, TypeInv, OrderInv, PersistInv, Poll \/ GoOffline PROVE PersistInv'
<1>1. UNCHANGED <<model, saved>>
  BY DEF Poll, GoOffline
<1>2. PICK N \in Nat : N = next
  BY DEF TypeInv
<1>3. PICK v : v = sync
  OBVIOUS
<1>4. QueueOK(v, N)
  BY <1>2, <1>3 DEF TypeInv
<1>5. PICK running \in BOOLEAN :
          \/ sync' = [v EXCEPT !.running = running]
          \/ sync' = Dequeue([v EXCEPT !.running = running])
  BY <1>3 DEF Poll, GoOffline
<1>6. PICK u : u = [v EXCEPT !.running = running]
  OBVIOUS
<1>7. /\ QueueOK(u, N) /\ u.queue = v.queue /\ u.sent = v.sent
      /\ u.mapped = v.mapped /\ u.events = v.events
  <2> DEFINE w == [v EXCEPT !.running = running]
  <2>1. /\ QueueOK(w, N) /\ w.queue = v.queue /\ w.sent = v.sent
        /\ w.mapped = v.mapped /\ w.events = v.events
        /\ \A D : DependenciesOK(v, D) => DependenciesOK(w, D)
    BY <1>4, RunningOK
  <2> QED BY <1>6, <2>1
<1>8. Descends(v, u)
  BY <1>7 DEF Descends, Pending
<1>9. ASSUME NEW o \in Plain, NEW object, object = model[o]
      PROVE  Lasting(u, o, object) /\ Lasting(Dequeue(u), o, object)
  <2>1. Lasting(v, o, object) /\ Named(v, o, object.id)
    BY <1>3, <1>9 DEF PersistInv, Persists, OrderInv, ObjectOK, InOrder, Plain, Objects
  <2>2. Told(u, o) = Told(v, o)
    BY <1>7 DEF Told
  <2>3. Lasting(u, o, object)
    BY <1>7, <1>8, <2>1, <2>2, LastingOn
  <2>4. ContentOf(u, o) = ContentOf(v, o)
    BY <1>7 DEF ContentOf, Pending
  <2>5. Named(u, o, object.id)
    BY <1>7, <2>1, <2>4 DEF Named
  <2> QED BY <1>7, <2>3, <2>5, DequeueLasts
<1>10. PICK w : w = sync'
  OBVIOUS
<1>11. w = u \/ w = Dequeue(u)
  BY <1>5, <1>6, <1>10
<1>12. ASSUME NEW o \in Plain, NEW object, object = model[o] PROVE Lasting(w, o, object)
  BY <1>9, <1>11, <1>12
<1> QED
  BY <1>1, <1>10, <1>12 DEF PersistInv, Persists

\* The object o, now known as it is, once the item is enqueued.
EditLasts(v, item, o, old, object) ==
    IF IsContent(item) /\ o \in Elems(item.objs)
    THEN /\ item.objs = <<o>> /\ item.op # "Bulk" /\ item.refs = {}
         /\ EditNames(v, item, o, old.id, object.id) /\ object.status > 0
    ELSE object = old

LEMMA EnqueueLasts ==
    ASSUME NEW v, NEW N \in Nat, QueueOK(v, N), DependenciesOK(v, {}), NEW item \in Items, item.n = N,
           item.op # "Bulk" => Len(item.objs) = 1,
           item.op \in {"Bulk", "Record"} => item.refs = {},
           v.events = <<>>, Inferred(v, item).events = <<>>,
           NEW o, NEW old, NEW object, Lasting(v, o, old), Named(v, o, old.id),
           EditLasts(v, item, o, old, object)
    PROVE  Lasting(Enqueue(v, item), o, object)
<1> DEFINE new == Inferred(v, item).item
           u == Queued(v, item)
<1>1. /\ QueueOK(u, N + 1) /\ Enqueue(v, item) = Dequeue(u)
      /\ Elems(u.queue) = Elems(v.queue) \cup {new}
      /\ u.sent = v.sent /\ u.mapped = v.mapped
      /\ u.events = <<>>
  <2>1. /\ QueueOK(u, N + 1) /\ Enqueue(v, item) = Dequeue(u)
        /\ Elems(u.queue) = Elems(v.queue) \cup {new}
        /\ u.sent = v.sent /\ u.mapped = v.mapped
        /\ u.events = v.events \o Inferred(v, item).events
    BY QueuedOK
  <2>2. v.events \o Inferred(v, item).events = <<>>
    OBVIOUS
  <2> QED BY <2>1, <2>2
<1>2. Same(new, item) /\ new.n = N /\ (item.refs = {} => WaitsForOwn(v, new))
  <2>1. v \in SyncQueues
    BY DEF QueueOK
  <2>2. /\ new \in Items /\ Same(new, item) /\ new.refs \subseteq item.refs
        /\ (item.op # "Update" /\ item.refs = {}) => new.deps = {}
        /\ \A d \in new.deps : \E j \in Pending(v) : Settles(j, d)
        /\ Inferred(v, item).events \in Seq(Events)
    BY <2>1, InferredProperties
  <2>3. item.refs = {} => WaitsForOwn(v, new)
    BY <2>1, InferredOwn
  <2> QED BY <2>2, <2>3 DEF Same
<1>3. \A i \in Pending(v) : i.n \in Nat /\ i.n < N
  <2>1. Elems(v.queue) \subseteq Items /\ v.sent \subseteq Requests
    BY ElemsType DEF QueueOK, SyncQueues
  <2> QED BY <2>1 DEF Pending, Items, Requests, QueueOK, ItemOK
<1> HIDE DEF new, u
<1>4. Lone(v, o) /\ Own(v, o) /\ (o \in v.mapped => Updates(v, o))
  BY DEF Lasting, Plainly
<1>5. /\ ContentOf(v, o) \subseteq ContentOf(u, o)
      /\ ContentOf(u, o) \subseteq ContentOf(v, o) \cup {new}
      /\ \A i \in ContentOf(v, o) : i \in Elems(u.queue) <=> i \in Elems(v.queue)
  <2>1. new \notin Pending(v)
    BY <1>2, <1>3
  <2> QED BY <1>1, <2>1 DEF ContentOf, Pending
<1>6. ASSUME new \in ContentOf(u, o)
      PROVE  /\ IsContent(item) /\ o \in Elems(item.objs) /\ new.objs = <<o>> /\ new.op # "Bulk"
             /\ WaitsForOwn(v, new) /\ EditNames(v, item, o, old.id, object.id) /\ object.status > 0
             /\ new.op = item.op /\ new.client = item.client
  <2>1. IsContent(item) /\ o \in Elems(item.objs)
    BY <1>2, <1>6 DEF Same, ContentOf, IsContent
  <2> QED BY <1>2, <2>1 DEF Same, EditLasts
<1>7. Lone(u, o)
  BY <1>4, <1>5, <1>6 DEF Lone
<1>8. Own(u, o)
  <2>1. SUFFICES ASSUME NEW i \in Elems(u.queue) \cap ContentOf(u, o), NEW d \in i.deps,
                        NEW j \in Pending(u), d[1] = j.n
                 PROVE  j \in ContentOf(u, o)
    BY DEF Own
  <2>2. PICK k \in Pending(v) : d[1] = k.n /\ (i = new => k \in ContentOf(v, o))
    <3>1. CASE i = new
      BY <1>6, <2>1, <3>1 DEF WaitsForOwn, ContentOf, Elems
    <3>2. CASE i # new
      <4>1. i \in Elems(v.queue)
        BY <1>5, <2>1, <3>2
      <4>2. PICK k \in Pending(v) : Settles(k, d)
        BY <2>1, <4>1 DEF DependenciesOK
      <4>3. d[1] = k.n
        BY <4>2 DEF Settles, DependencyOn
      <4> QED BY <3>2, <4>3
    <3> QED BY <3>1, <3>2
  <2>3. j \in Pending(v)
    <3>1. j.n < N /\ N \in Nat
      BY <1>3, <2>1, <2>2
    <3>2. j # new
      BY <1>2, <3>1
    <3> QED BY <1>1, <2>1, <3>2 DEF Pending
  <2>4. j \in ContentOf(v, o)
    <3>1. CASE i = new
      <4>1. j.n = k.n
        BY <2>1, <2>2
      <4>2. j = k
        BY <2>3, <4>1, OneItem
      <4> QED BY <2>2, <3>1, <4>2
    <3>2. CASE i # new
      <4>1. i \in Elems(v.queue) \cap ContentOf(v, o)
        BY <1>5, <2>1, <3>2
      <4> QED BY <1>4, <2>1, <2>3, <4>1 DEF Own
    <3> QED BY <3>1, <3>2
  <2> QED BY <1>5, <2>4
<1>9. o \in u.mapped => Updates(u, o)
  <2>1. ASSUME o \in v.mapped, new \in ContentOf(u, o) PROVE new.op = "Update"
    BY <1>6, <2>1 DEF EditNames
  <2> QED BY <1>1, <1>4, <1>5, <2>1 DEF Updates
<1>10. Alive(u, o, object.id) => Sendable(u, o)
  <2>1. SUFFICES ASSUME Alive(u, o, object.id), NEW i \in Elems(u.queue) \cap ContentOf(u, o)
                 PROVE  ~IsUnsendable(u, i)
    BY DEF Sendable
  <2>2. CASE i = new
    <3>1. CASE item.op = "Update" /\ item.client = (old.id = "Client") /\ object.id = old.id
      <4>1. SUFFICES ASSUME IsUnsendable(u, i) PROVE FALSE
        OBVIOUS
      <4>2. new.client /\ new.objs[1] \notin u.mapped /\ new.objs = <<o>> /\ new.client = item.client
        BY <1>6, <2>1, <2>2, <4>1 DEF IsUnsendable
      <4>3. o \notin u.mapped
        BY <4>2
      <4>4. old.id = "Server"
        BY <2>1, <3>1, <4>3 DEF Alive
      <4>5. item.client
        BY <4>2
      <4>6. old.id = "Client"
        BY <3>1, <4>5
      <4> QED BY <4>4, <4>6
    <3>2. CASE item.op \in Creations
      BY <1>6, <2>1, <2>2, <3>2 DEF IsUnsendable
    <3> QED BY <1>6, <2>1, <2>2, <3>1, <3>2 DEF EditNames
  <2>3. CASE i # new
    <3>1. i \in Elems(v.queue) \cap ContentOf(v, o)
      BY <1>5, <2>1, <2>3
    <3>2. CASE o \in v.mapped
      BY <1>1, <1>7, <2>1, <3>2 DEF Lone, IsUnsendable
    <3>3. CASE o \notin v.mapped
      <4>1. object.id = "Server"
        BY <1>1, <2>1, <3>3 DEF Alive
      <4>2. old.id = "Server"
        <5>1. CASE IsContent(item) /\ o \in Elems(item.objs)
          BY <4>1, <5>1 DEF EditLasts, EditNames
        <5>2. CASE ~(IsContent(item) /\ o \in Elems(item.objs))
          BY <4>1, <5>2 DEF EditLasts
        <5> QED BY <5>1, <5>2
      <4>3. ~i.client
        BY <3>1, <3>3, <4>2 DEF Named
      <4> QED BY <4>3 DEF IsUnsendable
    <3> QED BY <3>2, <3>3
  <2> QED BY <2>2, <2>3
<1>11. Told(u, o) = {}
  BY <1>1 DEF Told, KindsOf
<1>12. Alive(u, o, object.id) /\ object.status = Errored => Waiting(u, o) = {}
  <2>1. SUFFICES ASSUME Alive(u, o, object.id), object.status = Errored PROVE Waiting(u, o) = {}
    OBVIOUS
  <2>2. ~(object.status > 0)
    BY <2>1 DEF Errored
  <2>3. object = old /\ new \notin ContentOf(u, o)
    BY <1>6, <2>2 DEF EditLasts
  <2>4. Waiting(v, o) = {}
    BY <1>1, <2>1, <2>3 DEF Lasting, Alive
  <2> QED BY <1>5, <2>3, <2>4 DEF Waiting
<1>13. Lasting(u, o, object)
  BY <1>7, <1>8, <1>9, <1>11, <1>12 DEF Lasting, Plainly, Verdict
<1>14. PICK M \in Nat : M = N + 1
  OBVIOUS
<1>15. PICK w : w = Dequeue(u)
  OBVIOUS
<1>16. QueueOK(u, M) /\ Evolves(u, w, {}) /\ Descends(u, w)
  <2>1. QueueOK(u, M)
    BY <1>1, <1>14
  <2>2. Evolves(u, w, {})
    BY <1>15, <2>1, DequeueOK
  <2> QED BY <2>1, <2>2, EvolvesDescends
<1>17. Spares(u, w, o)
  BY <1>8, <1>15, <1>16, DequeueApart
<1>18. Lasting(w, o, object)
  BY <1>10, <1>13, <1>16, <1>17, LastingOn DEF Spares
<1> QED
  BY <1>1, <1>15, <1>18

\* What is written of the objects keeps what SQLite has of them.
KeptStep == \A o \in Objects :
    (Kept(model[o], saved[o]) /\ model[o].status >= InConflict)
        => Kept(model'[o], saved'[o]) /\ model'[o].status >= InConflict

LEMMA EnqueueKept ==
    ASSUME TeamObjects = {}, ~MayDangle, TypeInv, OrderInv, PersistInv, KeptStep,
           NEW item, Enqueues(item)
    PROVE  PersistInv'
<1>1. PICK N \in Nat : N = next
  BY DEF TypeInv
<1>2. PICK v, w : v = sync /\ w = Enqueue(v, item)
  OBVIOUS
<1>3. /\ EnqueueNext(item) /\ item \in Items /\ item.n = N /\ Quiet
      /\ item.op # "Bulk" => Len(item.objs) = 1
      /\ item.op = "Bulk" => Elems(item.objs) \subseteq Preferences
      /\ item.op \in {"Bulk", "Record"} => item.refs = {}
      /\ item.objs[1] \notin Workflows => item.refs = {}
      /\ \A o \in Objects :
            IF IsContent(item) /\ o \in Elems(item.objs) THEN EditsObject(item, o)
            ELSE model'[o] = model[o]
  BY <1>1 DEF Enqueues
<1>4. sync' = w /\ v.events = <<>> /\ QueueOK(v, N) /\ DependenciesOK(v, {})
  BY <1>1, <1>2, <1>3 DEF EnqueueNext, TypeInv, Quiet
<1>5. Inferred(v, item).events = <<>>
  <2>1. \A e \in item.refs : ItemsWithId(v, e, {TRUE}) # {}
    BY <1>2, <1>3 DEF EnqueueNext, MayEnqueue
  <2> QED BY <2>1, InferredEvents
<1>6. ASSUME NEW o \in Plain, NEW old, old = model[o], NEW object, object = model'[o]
      PROVE  Lasting(w, o, object)
  <2>1. o \in Objects /\ o \notin Workflows /\ o \notin Preferences
    BY KindsAssumption DEF Plain, Objects
  <2>2. Lasting(v, o, old) /\ Named(v, o, old.id)
    BY <1>2, <1>6, <2>1 DEF PersistInv, Persists, OrderInv, ObjectOK, InOrder
  <2>3. EditLasts(v, item, o, old, object)
    <3>1. CASE IsContent(item) /\ o \in Elems(item.objs)
      <4>1. EditsObject(item, o)
        BY <1>3, <2>1, <3>1
      <4>2. EditNames(v, item, o, old.id, object.id) /\ object.status > 0
        <5>1. old.status \in Int
          BY <1>6, <2>1 DEF TypeInv, ObjectsOK, ModelObjects
        <5> QED BY <1>2, <1>6, <4>1, <5>1 DEF EditsObject
      <4>3. item.op # "Bulk"
        BY <1>3, <2>1, <3>1
      <4>4. item.objs = <<o>>
        BY <1>3, <3>1, <4>3 DEF Items, ObjectLists, Elems
      <4>5. item.refs = {}
        BY <1>3, <2>1, <4>4
      <4> QED BY <3>1, <4>2, <4>3, <4>4, <4>5 DEF EditLasts
    <3>2. CASE ~(IsContent(item) /\ o \in Elems(item.objs))
      BY <1>3, <1>6, <2>1, <3>2 DEF EditLasts
    <3> QED BY <3>1, <3>2
  <2>4. Lasting(Enqueue(v, item), o, object)
    BY <1>3, <1>4, <1>5, <2>2, <2>3, EnqueueLasts
  <2> QED BY <1>2, <2>4
<1>7. \A o \in Objects : Kept(model'[o], saved'[o]) /\ model'[o].status >= InConflict
  BY DEF PersistInv, Persists, KeptStep
<1> QED
  BY <1>4, <1>6, <1>7 DEF PersistInv, Persists

\* What is saved is kept.
LEMMA SaveKept ==
    ASSUME ObjectsOK, NEW o \in Objects, NEW object, Save(o, object), object.status >= InConflict
    PROVE  KeptStep
<1>1. Kept(object, Upsert(object))
  BY DEF Kept, Upsert
<1>2. /\ model'[o] = object /\ saved'[o] = Upsert(object)
      /\ \A p \in Objects : p # o => model'[p] = model[p] /\ saved'[p] = saved[p]
  BY DEF Save, ObjectsOK
<1> QED
  BY <1>1, <1>2 DEF KeptStep

LEMMA EditKept ==
    ASSUME TypeInv, OrderInv, PersistInv, NEW o \in Objects \ TeamObjects,
           Create(o) \/ Update(o) \/ Record(o) \/ Resync(o)
    PROVE  KeptStep
<1>1. ObjectsOK
  BY DEF TypeInv
<1>2. PICK old, row : old = model[o] /\ row = saved[o]
  OBVIOUS
<1>3. /\ old \in ModelObjects /\ old.status \in Int /\ row \in Rows
      /\ model \in [Objects -> ModelObjects] /\ saved \in [Objects -> Rows]
  BY <1>1, <1>2 DEF ObjectsOK, ModelObjects
<1>4. CASE Create(o)
  <2>1. PICK team, object : /\ object = [Unborn EXCEPT !.id = "Client", !.content = next, !.status = 1,
                                                       !.team = team]
                            /\ Save(o, object)
    BY <1>4 DEF Create
  <2>2. object.status >= InConflict
    BY <2>1 DEF Unborn, InConflict
  <2> QED BY <1>1, <2>1, <2>2, SaveKept
<1>5. CASE Update(o)
  <2>1. PICK status : status = IF old.status > 0 THEN old.status + 1 ELSE 1
    OBVIOUS
  <2>2. status >= InConflict
    BY <1>3, <2>1 DEF InConflict
  <2>3. PICK object : object = [old EXCEPT !.content = next, !.status = status] /\ Save(o, object)
    BY <1>2, <1>5, <2>1 DEF Update
  <2>4. object.status = status
    BY <1>3, <2>3 DEF ModelObjects
  <2> QED BY <1>1, <2>2, <2>3, <2>4, SaveKept
<1>6. CASE Record(o)
  BY <1>6 DEF Record, KeptStep
<1>7. CASE Resync(o)
  <2>1. PICK object : object = [old EXCEPT !.status = 1]
    OBVIOUS
  <2>2. object.id = old.id /\ object.content = old.content /\ object.status = 1
    BY <1>3, <2>1 DEF ModelObjects
  <2>3. UNCHANGED saved /\ model' = [model EXCEPT ![o].status = 1] /\ old.status = Errored
    BY <1>2, <1>7 DEF Resync
  <2>4. /\ model'[o] = object /\ saved'[o] = row
        /\ \A p \in Objects : p # o => model'[p] = model[p] /\ saved'[p] = saved[p]
    BY <1>2, <1>3, <2>1, <2>3
  <2>5. Kept(old, row) => Kept(object, row)
    BY <2>2, <2>3 DEF Kept, IsPending, Errored, NoLocalChanges, InConflict
  <2>6. object.status >= InConflict
    BY <2>2 DEF InConflict
  <2> QED BY <1>2, <2>4, <2>5, <2>6 DEF KeptStep
<1> QED
  BY <1>4, <1>5, <1>6, <1>7

LEMMA UserStepKept ==
    ASSUME TeamObjects = {}, ~MayDangle, TypeInv, OrderInv, PersistInv, NEW o \in Objects,
           Create(o) \/ Update(o) \/ Record(o) \/ Resync(o)
    PROVE  PersistInv'
<1>1. KeptStep
  BY EditKept
<1>2. PICK item : Enqueues(item)
  BY CreateEnqueues, UpdateEnqueues, RecordEnqueues, ResyncEnqueues
<1> QED
  BY <1>1, <1>2, EnqueueKept

LEMMA BulkCreateKept ==
    ASSUME TeamObjects = {}, ~MayDangle, TypeInv, OrderInv, PersistInv,
           NEW p \in Preferences, NEW q \in Preferences, p # q, BulkCreate(<<p, q>>)
    PROVE  PersistInv'
<1>1. PICK item : Enqueues(item)
  BY BulkCreateEnqueues
<1>2. PICK object : /\ object = [Unborn EXCEPT !.id = "Client", !.content = next, !.status = 1]
                    /\ model' = [o \in Objects |-> IF o \in Elems(<<p, q>>) THEN object ELSE model[o]]
                    /\ saved' = [o \in Objects |-> IF o \in Elems(<<p, q>>) THEN Upsert(object) ELSE saved[o]]
  BY DEF BulkCreate
<1>3. object.status >= InConflict
  BY <1>2 DEF Unborn, InConflict
<1>4. Kept(object, Upsert(object))
  BY DEF Kept, Upsert
<1>5. PICK S : S = Elems(<<p, q>>)
  OBVIOUS
<1>6. \A o \in Objects : \/ model'[o] = object /\ saved'[o] = Upsert(object)
                         \/ model'[o] = model[o] /\ saved'[o] = saved[o]
  BY <1>2, <1>5
<1>7. KeptStep
  BY <1>3, <1>4, <1>6 DEF KeptStep
<1> QED
  BY <1>1, <1>7, EnqueueKept

\* The user takes the server's content, or it changes.
LEMMA ObjectStepsKept ==
    ASSUME TypeInv, PersistInv, NEW o \in Objects, ReplaceWithConflict(o) \/ Refresh(o) \/ OthersEdit(o)
    PROVE  PersistInv'
<1>1. UNCHANGED sync /\ model \in [Objects -> ModelObjects] /\ saved \in [Objects -> Rows]
  BY DEF ReplaceWithConflict, Refresh, OthersEdit, TypeInv, ObjectsOK
<1>2. CASE OthersEdit(o)
  BY <1>1, <1>2 DEF OthersEdit, PersistInv
<1>3. CASE ReplaceWithConflict(o) \/ Refresh(o)
  <2>1. PICK old, row : old = model[o] /\ row = saved[o]
    OBVIOUS
  <2>2. old \in ModelObjects
    BY <1>1, <2>1
  <2>3. PICK object : /\ Save(o, object) /\ object.id = old.id
                      /\ object.status = old.status \/ object.status = NoLocalChanges
    <3>1. CASE ReplaceWithConflict(o)
      <4>1. PICK object : object = [old EXCEPT !.status = NoLocalChanges, !.conflict = NoConflict,
                                               !.rev = old.conflict.rev, !.content = old.conflict.content]
        OBVIOUS
      <4>2. Save(o, object)
        BY <2>1, <3>1, <4>1 DEF ReplaceWithConflict
      <4>3. object.id = old.id /\ object.status = NoLocalChanges
        BY <2>2, <4>1 DEF ModelObjects
      <4> QED BY <4>2, <4>3
    <3>2. CASE Refresh(o)
      <4>1. PICK now : now = server[o]
        OBVIOUS
      <4>2. PICK a, b : /\ a = [old EXCEPT !.conflict = now]
                        /\ b = [old EXCEPT !.rev = now.rev, !.content = now.content]
        OBVIOUS
      <4>3. Save(o, a) \/ Save(o, b)
        BY <2>1, <3>2, <4>1, <4>2 DEF Refresh
      <4>4. a.id = old.id /\ a.status = old.status /\ b.id = old.id /\ b.status = old.status
        BY <2>2, <4>2 DEF ModelObjects
      <4> QED BY <4>3, <4>4
    <3> QED BY <1>3, <3>1, <3>2
  <2>4. \A p \in Objects : p # o => model'[p] = model[p] /\ saved'[p] = saved[p]
    BY <1>1, <2>3 DEF Save
  <2>5. model'[o] = object /\ saved'[o] = Upsert(object)
    BY <1>1, <2>3 DEF Save
  <2>6. PICK s : s = sync
    OBVIOUS
  <2>7. Persists(s, o, object, Upsert(object))
    <3>1. Persists(s, o, old, row)
      BY <2>1, <2>6 DEF PersistInv
    <3>2. Kept(object, Upsert(object))
      BY DEF Kept, Upsert
    <3>3. object.status >= InConflict
      BY <2>3, <3>1 DEF Persists, InConflict, NoLocalChanges
    <3>4. Lasting(s, o, old) => Lasting(s, o, object)
      BY <2>3 DEF Lasting, Errored, NoLocalChanges
    <3> QED BY <3>1, <3>2, <3>3, <3>4 DEF Persists
  <2>8. \A p \in Objects : Persists(s, p, model'[p], saved'[p])
    BY <2>4, <2>5, <2>6, <2>7 DEF PersistInv
  <2> QED BY <1>1, <2>6, <2>8 DEF PersistInv
<1> QED
  BY <1>2, <1>3

\* The event is told no more.
LEMMA DeliveredTells ==
    ASSUME NEW N \in Nat, QueueOK(sync, N), DependenciesOK(sync, {}), ~Quiet,
           NEW e, e = Head(sync.events), NEW o
    PROVE  /\ Descends(sync, Delivered) /\ Delivered.mapped = sync.mapped
           /\ Told(Delivered, o) \subseteq Told(sync, o)
           /\ About(e, o) => e.kind \in Told(sync, o)
<1>1. /\ Delivered.queue = sync.queue /\ Delivered.sent = sync.sent
      /\ Delivered.mapped = sync.mapped /\ Delivered.events = Tail(sync.events)
  BY DeliveredOK
<1>2. Descends(sync, Delivered)
  BY <1>1 DEF Descends, Pending
<1>3. PICK x : x = sync.events
  OBVIOUS
<1>4. x \in Seq(Events) /\ x # <<>>
  BY <1>3 DEF QueueOK, SyncQueues, Quiet
<1>5. /\ 1 \in DOMAIN x /\ Head(x) = x[1]
      /\ \A p \in DOMAIN Tail(x) : p + 1 \in DOMAIN x /\ Tail(x)[p] = x[p + 1]
  BY <1>4
<1>6. KindsOf(Tail(x), o) \subseteq KindsOf(x, o)
  BY <1>5 DEF KindsOf
<1>7. About(e, o) => e.kind \in KindsOf(x, o)
  BY <1>3, <1>5 DEF KindsOf
<1> QED
  BY <1>1, <1>2, <1>3, <1>6, <1>7 DEF Told

\* What each event does to its object.
LEMMA HandledKept ==
    ASSUME TypeInv, OrderInv, PersistInv, ~Quiet, NEW e, e = Head(sync.events), e \in Events,
           e.o \notin TeamObjects,
           \/ HandleCreated(e) \/ HandleUpdated(e) \/ HandleFailed(e) \/ HandleKeyConflict(e)
           \/ HandleRejected(e) \/ HandleRecorded(e)
    PROVE  Persists(Delivered, e.o, model'[e.o], saved'[e.o])
<1>1. PICK o, object, row, object2, row2 :
          /\ o = e.o /\ object = model[o] /\ row = saved[o]
          /\ object2 = model'[o] /\ row2 = saved'[o]
  OBVIOUS
<1>2. PICK N \in Nat : N = next
  BY DEF TypeInv
<1>3. /\ o \in Objects /\ object \in ModelObjects /\ row \in Rows /\ object.status \in Int
      /\ model \in [Objects -> ModelObjects] /\ saved \in [Objects -> Rows]
  BY <1>1 DEF TypeInv, ObjectsOK, Events, ModelObjects
<1>4. PICK id : id = object.id
  OBVIOUS
<1>5. /\ InOrder(sync, o, id, {}) /\ Named(sync, o, id) /\ Counted(sync, o, object)
      /\ Personal(object, row) /\ QueueOK(sync, N) /\ DependenciesOK(sync, {})
  BY <1>1, <1>2, <1>3, <1>4 DEF ObjectOK, OrderInv, InOrder, TypeInv
<1>6. Kept(object, row) /\ object.status >= InConflict /\ (o \in Plain => Lasting(sync, o, object))
  BY <1>1, <1>3 DEF PersistInv, Persists
<1>7. PICK d : d = Delivered
  OBVIOUS
<1>8. /\ Descends(sync, d) /\ d.mapped = sync.mapped
      /\ Told(d, o) \subseteq Told(sync, o) /\ (About(e, o) => e.kind \in Told(sync, o))
  BY <1>5, <1>7, DeliveredTells
<1>9. e.kind \in Settling <=> About(e, o)
  BY <1>1 DEF About
<1>10. About(e, o) => e.n \in Live(sync, o)
  <2>1. PICK new : new = IF e.kind = "Created" THEN "Server" ELSE id
    OBVIOUS
  <2>2. \/ new = id /\ ~(e.kind = "Created" /\ e.o = o)
        \/ new = "Server" /\ e.kind = "Created" /\ e.o = o
        \/ new = "Deleted"
    BY <1>1, <2>1
  <2>3. About(e, o) => e.n \in Live(sync, o) /\ Live(Delivered, o) = Live(sync, o) \ {e.n}
    BY <1>5, <2>2, DeliveredCarries
  <2> QED BY <2>3
<1>11. (About(e, o) /\ e.kind \notin Failures) => object.status # Errored
  <2>1. SUFFICES ASSUME About(e, o), e.kind \notin Failures, object.status = Errored PROVE FALSE
    OBVIOUS
  <2>2. id \in {"Client", "Server"}
    BY <1>4, <1>5, <2>1 DEF Personal, IsPending, Errored, NoLocalChanges, InConflict, Exists
  <2>3. ~(object.status > 0) /\ Live(sync, o) # {}
    BY <1>10, <2>1 DEF Errored
  <2>4. ~IsCounted(o, id)
    BY <1>4, <1>5, <2>3 DEF Counted
  <2>5. id = "Server" /\ o \in Plain
    BY <1>3, <2>2, <2>4 DEF IsCounted, Plain, Objects
  <2>6. Told(sync, o) \subseteq Failures
    BY <1>4, <1>6, <2>1, <2>5 DEF Lasting, Alive
  <2> QED BY <1>8, <2>1, <2>6
<1>12. ASSUME Kept(object2, row2), object2.status >= InConflict,
              o \in Plain => (Alive(sync, o, object2.id) => Alive(sync, o, id)),
              object2.status = Errored => object.status = Errored \/ (About(e, o) /\ e.kind \in Failures)
       PROVE  Persists(d, o, object2, row2)
  <2>1. ASSUME o \in Plain PROVE Lasting(sync, o, object2)
    <3>1. Lasting(sync, o, object)
      BY <1>6, <2>1
    <3>2. Plainly(sync, o)
      BY <3>1 DEF Lasting
    <3>3. ASSUME Alive(sync, o, object2.id)
          PROVE  /\ Verdict(sync, o)
                 /\ object2.status = Errored => Waiting(sync, o) = {} /\ Told(sync, o) \subseteq Failures
      <4>1. Alive(sync, o, object.id)
        BY <1>4, <1>12, <2>1, <3>3
      <4>2. /\ Verdict(sync, o)
            /\ object.status = Errored => Waiting(sync, o) = {} /\ Told(sync, o) \subseteq Failures
        BY <3>1, <4>1 DEF Lasting
      <4>3. (About(e, o) /\ e.kind \in Failures)
                => Waiting(sync, o) = {} /\ Told(sync, o) \subseteq Failures
        BY <1>8, <4>2 DEF Verdict
      <4> QED BY <1>12, <4>2, <4>3
    <3> QED BY <3>2, <3>3 DEF Lasting
  <2>2. ASSUME o \in Plain PROVE Lasting(d, o, object2)
    BY <1>8, <2>1, <2>2, LastingOn
  <2> QED BY <1>12, <2>2 DEF Persists
<1>13. CASE HandleCreated(e)
  <2>1. /\ e.kind = "Created"
        /\ object2 = [object EXCEPT !.id = "Server", !.rev = e.rev, !.status = Decrement(@, NoLocalChanges)]
        /\ row2 = MarkSynced([row EXCEPT !.id = "Server"], object.status, e.rev)
    BY <1>1, <1>3, <1>13 DEF HandleCreated
  <2>2. /\ object2.id = "Server" /\ object2.content = object.content
        /\ object2.status = Decrement(object.status, NoLocalChanges)
    BY <1>3, <2>1 DEF ModelObjects
  <2>3. /\ row2.id = "Server" /\ row2.content = row.content
        /\ ~NoLongerInFlight(object.status) => row2.pending = row.pending
    BY <1>3, <2>1 DEF MarkSynced, Rows
  <2>4. About(e, o) /\ e.kind \notin Failures
    BY <1>9, <2>1 DEF Settling, Failures
  <2>5. Alive(sync, o, id)
    <3>1. o \in sync.mapped
      <4>1. PICK x : x = sync.events
        OBVIOUS
      <4>2. x \in Seq(Events) /\ x # <<>>
        BY <1>5, <4>1 DEF QueueOK, SyncQueues, Quiet
      <4>3. 1 \in DOMAIN x /\ x[1] = e
        BY <4>1, <4>2
      <4> QED BY <1>1, <1>5, <2>1, <4>1, <4>3 DEF Named
    <3> QED BY <3>1 DEF Alive
  <2>6. object.status # Errored
    BY <1>11, <2>4
  <2>7. /\ object2.status >= InConflict /\ object2.status # Errored
        /\ IsPending(object2.status) => ~NoLongerInFlight(object.status) /\ IsPending(object.status)
    BY <1>3, <1>6, <2>2, <2>6
       DEF Decrement, IsPending, NoLongerInFlight, NoLocalChanges, Errored, InConflict
  <2>8. Kept(object2, row2)
    BY <1>6, <2>2, <2>3, <2>7 DEF Kept
  <2> QED BY <1>1, <1>7, <1>12, <2>5, <2>7, <2>8
<1>14. CASE HandleUpdated(e)
  <2>1. e.kind = "Updated" /\ row2 = MarkSynced(row, object.status, e.rev)
    BY <1>1, <1>3, <1>14 DEF HandleUpdated
  <2>2. PICK conflict : object2 = [object EXCEPT !.rev = e.rev, !.status = Decrement(@, NoLocalChanges),
                                                 !.conflict = conflict]
    BY <1>1, <1>3, <1>14 DEF HandleUpdated
  <2>3. /\ object2.id = object.id /\ object2.content = object.content
        /\ object2.status = Decrement(object.status, NoLocalChanges)
    BY <1>3, <2>2 DEF ModelObjects
  <2>4. /\ row2.id = row.id /\ row2.content = row.content
        /\ ~NoLongerInFlight(object.status) => row2.pending = row.pending
    BY <1>3, <2>1 DEF MarkSynced, Rows
  <2>5. About(e, o) /\ e.kind \notin Failures
    BY <1>9, <2>1 DEF Settling, Failures
  <2>6. object.status # Errored
    BY <1>11, <2>5
  <2>7. /\ object2.status >= InConflict /\ object2.status # Errored
        /\ IsPending(object2.status) => ~NoLongerInFlight(object.status) /\ IsPending(object.status)
    BY <1>3, <1>6, <2>3, <2>6
       DEF Decrement, IsPending, NoLongerInFlight, NoLocalChanges, Errored, InConflict
  <2>8. Kept(object2, row2)
    BY <1>6, <2>3, <2>4, <2>7 DEF Kept
  <2> QED BY <1>1, <1>4, <1>7, <1>12, <2>3, <2>7, <2>8
<1>15. CASE HandleFailed(e)
  <2>1. e.kind \in {"Failed", "Denied"} /\ row2 = row
    BY <1>1, <1>15 DEF HandleFailed
  <2>2. object2 = [object EXCEPT !.status = Decrement(@, Errored)]
    BY <1>1, <1>3, <1>15 DEF HandleFailed
  <2>3. /\ object2.id = object.id /\ object2.content = object.content
        /\ object2.status = Decrement(object.status, Errored)
    BY <1>3, <2>2 DEF ModelObjects
  <2>4. About(e, o) /\ e.kind \in Failures
    BY <1>9, <2>1 DEF Settling, Failures
  <2>5. object2.status >= InConflict /\ (IsPending(object2.status) => IsPending(object.status))
    BY <1>3, <1>6, <2>3 DEF Decrement, IsPending, NoLocalChanges, Errored, InConflict
  <2>6. Kept(object2, row2)
    BY <1>6, <2>1, <2>3, <2>5 DEF Kept
  <2> QED BY <1>1, <1>4, <1>7, <1>12, <2>3, <2>4, <2>5, <2>6
<1>16. CASE HandleKeyConflict(e)
  <2>1. object2 = [Unborn EXCEPT !.id = "Deleted"] /\ row2 = Upsert(object2)
    BY <1>1, <1>3, <1>16 DEF HandleKeyConflict
  <2>2. object2.id = "Deleted" /\ object2.status = NoLocalChanges
    BY <2>1 DEF Unborn
  <2>3. Kept(object2, row2)
    BY <2>1 DEF Kept, Upsert
  <2>4. object2.status >= InConflict /\ object2.status # Errored
    BY <2>2 DEF NoLocalChanges, Errored, InConflict
  <2>5. Alive(sync, o, object2.id) => Alive(sync, o, id)
    BY <2>2 DEF Alive
  <2> QED BY <1>1, <1>7, <1>12, <2>3, <2>4, <2>5
<1>17. CASE HandleRejected(e)
  <2>1. CASE KeepLocalContent(e)
    <3>1. PICK conflict : object2 = [object EXCEPT !.conflict = conflict, !.status = InConflict]
      BY <1>1, <1>3, <2>1 DEF KeepLocalContent
    <3>2. /\ object2.id = object.id /\ object2.content = object.content /\ object2.status = InConflict
          /\ row2 = row
      BY <1>1, <1>3, <2>1, <3>1 DEF ModelObjects, KeepLocalContent
    <3>3. Kept(object2, row2)
      BY <1>6, <3>2 DEF Kept, IsPending
    <3>4. object2.status >= InConflict /\ object2.status # Errored
      BY <3>2 DEF Errored, InConflict
    <3> QED BY <1>1, <1>4, <1>7, <1>12, <3>2, <3>3, <3>4
  <2>2. CASE IgnoreRejection(e)
    <3>1. object2 = object /\ row2 = row
      BY <1>1, <2>2 DEF IgnoreRejection
    <3> QED BY <1>1, <1>4, <1>6, <1>7, <1>12, <3>1
  <2>3. CASE TakeServerContent(e)
    <3>1. object2 = [object EXCEPT !.content = e.content, !.rev = e.rev,
                                   !.status = Decrement(@, NoLocalChanges)]
          /\ row2 = Upsert(object2)
      BY <1>1, <1>3, <2>3 DEF TakeServerContent
    <3>2. object2.id = object.id /\ object2.status = Decrement(object.status, NoLocalChanges)
      BY <1>3, <3>1 DEF ModelObjects
    <3>3. Kept(object2, row2)
      BY <3>1 DEF Kept, Upsert
    <3>4. object2.status >= InConflict /\ (object2.status = Errored => object.status = Errored)
      BY <1>3, <1>6, <3>2 DEF Decrement, NoLocalChanges, Errored, InConflict
    <3> QED BY <1>1, <1>4, <1>7, <1>12, <3>2, <3>3, <3>4
  <2> QED BY <2>1, <2>2, <2>3, <1>17 DEF HandleRejected
<1>18. CASE HandleRecorded(e)
  <2>1. object2 = object /\ row2 = row
    BY <1>1, <1>18 DEF HandleRecorded
  <2> QED BY <1>1, <1>4, <1>6, <1>7, <1>12, <2>1
<1> QED
  BY <1>13, <1>14, <1>15, <1>16, <1>17, <1>18

LEMMA DeliverKept ==
    ASSUME TeamObjects = {}, TypeInv, OrderInv, PersistInv, Deliver PROVE PersistInv'
<1>1. PICK N \in Nat : N = next
  BY DEF TypeInv
<1>2. QueueOK(sync, N) /\ DependenciesOK(sync, {}) /\ ~Quiet /\ ObjectsOK
  BY <1>1 DEF TypeInv, Deliver
<1>3. PICK e, w : e = Head(sync.events) /\ w = Delivered
  OBVIOUS
<1>4. e \in Events
  BY <1>2, <1>3, DeliveredOK
<1>5. \/ HandleCreated(e) \/ HandleUpdated(e) \/ HandleFailed(e) \/ HandleKeyConflict(e)
      \/ HandleDenied(e) \/ HandleRejected(e) \/ HandleRecorded(e)
  BY <1>3 DEF Deliver
<1>6. ~HandleDenied(e)
  <2>1. e.o \in Objects /\ ~model[e.o].team
    BY <1>4 DEF Events, OrderInv, ObjectOK, Personal
  <2> QED BY <2>1 DEF HandleDenied
<1>7. sync' = w
  BY <1>3, <1>5, <1>6 DEF HandleCreated, HandleUpdated, HandleFailed, HandleKeyConflict,
                          HandleRejected, HandleRecorded
<1>8. Persists(w, e.o, model'[e.o], saved'[e.o])
  BY <1>2, <1>3, <1>4, <1>5, <1>6, HandledKept
<1>9. ASSUME NEW o \in Objects, o # e.o PROVE Persists(w, o, model'[o], saved'[o])
  <2>1. PICK object, row : object = model[o] /\ row = saved'[o]
    OBVIOUS
  <2>2. Persists(sync, o, object, saved[o])
    BY <2>1 DEF PersistInv
  <2>3. model'[o] = object /\ (row = saved[o] \/ row = Upsert(object))
    BY <1>2, <1>4, <1>5, <1>9, <2>1, OthersHandled
  <2>4. Kept(object, Upsert(object))
    BY DEF Kept, Upsert
  <2>5. Kept(object, row) /\ object.status >= InConflict
    BY <2>2, <2>3, <2>4 DEF Persists
  <2>6. /\ Descends(sync, w) /\ w.mapped = sync.mapped /\ Told(w, o) \subseteq Told(sync, o)
    BY <1>2, <1>3, DeliveredTells
  <2>7. Lasting(sync, o, object) => Lasting(w, o, object)
    BY <2>6, LastingOn
  <2>8. Persists(w, o, object, row)
    BY <2>2, <2>5, <2>7 DEF Persists
  <2> QED BY <2>1, <2>3, <2>8
<1> QED
  BY <1>7, <1>8, <1>9 DEF PersistInv

\* After a restart, an item waits only for items of its own object, if that refers to nothing.
LEMMA RestartedLasts ==
    ASSUME NEW w, NEW N \in Nat, QueueOK(w, N), NEW order, RestartedFrom(w, order),
           NEW o \in Plain, NEW object, object.status # Errored
    PROVE  Lasting(w, o, object)
<1>1. w.sent = {} /\ w.mapped = {} /\ w.events = <<>> /\ Pending(w) = Elems(w.queue)
  BY DEF RestartedFrom, Pending
<1>2. ASSUME NEW i \in ContentOf(w, o) PROVE i.objs = <<o>> /\ i.op # "Bulk" /\ i \in Elems(w.queue)
  <2>1. i \in Elems(w.queue) /\ i.op # "Record" /\ o \in Elems(i.objs)
    BY <1>1 DEF ContentOf, IsContent, Creations
  <2>2. PICK k : IsItemOf(i, order[k], LoadedObjects[order[k]])
    BY <2>1 DEF RestartedFrom
  <2>3. i.objs = <<order[k]>> /\ i.op # "Bulk"
    BY <2>2 DEF IsItemOf
  <2>4. order[k] = o
    BY <2>1, <2>3 DEF Elems
  <2> QED BY <2>1, <2>3, <2>4
<1>3. Lone(w, o)
  BY <1>2 DEF Lone
<1>4. Own(w, o)
  <2>1. SUFFICES ASSUME NEW i \in ContentOf(w, o), NEW d \in i.deps, NEW j \in Pending(w), d[1] = j.n
                 PROVE  j \in ContentOf(w, o)
    BY DEF Own
  <2>2. i \in Elems(w.queue) /\ i.objs[1] = o
    BY <1>2
  <2>3. o \notin Workflows
    BY KindsAssumption DEF Plain
  <2>4. WaitsForOwn(w, i)
    BY <2>2, <2>3 DEF RestartedFrom
  <2>5. PICK p \in Pending(w) : IsContent(p) /\ o \in Elems(p.objs) /\ d[1] = p.n
    BY <2>1, <2>2, <2>4 DEF WaitsForOwn
  <2>6. j = p
    BY <2>1, <2>5, OneItem
  <2> QED BY <2>5, <2>6 DEF ContentOf
<1>5. Told(w, o) = {}
  <2>1. DOMAIN w.events = {}
    BY <1>1
  <2> QED BY <2>1 DEF Told, KindsOf
<1> QED
  BY <1>1, <1>3, <1>4, <1>5 DEF Lasting, Plainly, Verdict

LEMMA RestartKept ==
    ASSUME TypeInv, PersistInv, Restart PROVE PersistInv'
<1>1. PICK w : w = sync'
  OBVIOUS
<1>2. /\ model' = LoadedObjects /\ UNCHANGED saved /\ TypeInv'
      /\ \E order \in Orderings(LoadedPending) : RestartedFrom(w, order)
  BY <1>1, RestartSteps
<1>3. PICK order : RestartedFrom(w, order)
  BY <1>2
<1>4. PICK N \in Nat : QueueOK(w, N)
  BY <1>1, <1>2 DEF TypeInv
<1>5. ASSUME NEW o \in Objects PROVE Persists(w, o, LoadedObjects[o], saved[o])
  <2>1. PICK object, row : object = LoadedObjects[o] /\ row = saved[o]
    OBVIOUS
  <2>2. row \in Rows /\ object = Loaded(row)
    BY <2>1 DEF TypeInv, ObjectsOK, LoadedObjects
  <2>3. /\ object.id = row.id /\ object.content = row.content
        /\ object.status = IF row.pending THEN 1 ELSE 0
    BY <2>2 DEF Loaded, Unborn, Rows, NoLocalChanges
  <2>4. Kept(object, row)
    BY <2>3 DEF Kept, IsPending, NoLocalChanges
  <2>5. object.status >= InConflict /\ object.status # Errored
    BY <2>3 DEF InConflict, Errored
  <2>6. o \in Plain => Lasting(w, o, object)
    BY <1>3, <1>4, <2>5, RestartedLasts
  <2>7. Persists(w, o, object, row)
    BY <2>4, <2>5, <2>6 DEF Persists
  <2> QED BY <2>1, <2>7
<1> QED
  BY <1>1, <1>2, <1>5 DEF PersistInv

LEMMA PersistInvInit ==
    ASSUME Init PROVE PersistInv
<1>1. /\ sync.queue = <<>> /\ sync.sent = {} /\ sync.mapped = {} /\ sync.events = <<>>
      /\ \A o \in Objects : model[o] = Unborn /\ saved[o] = Upsert(Unborn)
  BY DEF Init
<1>2. DOMAIN sync.queue = {} /\ DOMAIN sync.events = {}
  BY <1>1
<1>3. Elems(sync.queue) = {} /\ \A o : ContentOf(sync, o) = {} /\ Told(sync, o) = {}
  BY <1>1, <1>2 DEF Pending, ContentOf, Elems, Told, KindsOf
<1>4. \A o \in Objects : Plainly(sync, o) /\ Verdict(sync, o)
  BY <1>1, <1>3 DEF Plainly, Lone, Own, Verdict
<1>5. Unborn.status = 0
  BY DEF Unborn, NoLocalChanges
<1>6. \A o \in Objects : Lasting(sync, o, Unborn)
  BY <1>4, <1>5 DEF Lasting, Errored
<1>7. Kept(Unborn, Upsert(Unborn)) /\ Unborn.status >= InConflict
  BY <1>5 DEF Kept, Upsert, InConflict
<1> QED
  BY <1>1, <1>6, <1>7 DEF PersistInv, Persists

LEMMA PersistInvStep ==
    ASSUME TeamObjects = {}, ~MayDangle, TypeInv, OrderInv, PersistInv, [Next]_vars PROVE PersistInv'
<1>1. CASE UNCHANGED vars
  BY <1>1 DEF PersistInv, vars
<1>2. CASE Next
  <2>1. CASE Deliver
    BY <2>1, DeliverKept
  <2>2. CASE \E r \in sync.sent : Serve(r) \/ LoseAnswer(r) \/ Receive(r) \/ RequestFailed(r)
    BY <2>2, ServeKept, AnswerTakenKept
  <2>3. CASE \E o \in Objects : Create(o) \/ Update(o) \/ Record(o) \/ Resync(o)
                                 \/ ReplaceWithConflict(o) \/ Refresh(o) \/ OthersEdit(o)
    BY <2>3, UserStepKept, ObjectStepsKept
  <2>4. CASE \E p, q \in Preferences : p # q /\ BulkCreate(<<p, q>>)
    BY <2>4, BulkCreateKept
  <2>5. CASE Poll \/ GoOffline
    BY <2>5, PollKept
  <2>6. CASE Restart
    BY <2>6, RestartKept
  <2> QED BY <1>2, <2>1, <2>2, <2>3, <2>4, <2>5, <2>6 DEF Next
<1> QED
  BY <1>1, <1>2

(***************************************************************************)
(* Where nothing is created in a team, an edit that is InFlight or Errored *)
(* is in SQLite with its content and its id, and marked to be sent after a *)
(* restart: MarkObjectAsSynced is only sent with the last answer, and what *)
(* fails after a rejection is never followed by an answer that succeeds.   *)
(***************************************************************************)
THEOREM EditsSurvive ==
    (~MayDangle /\ TeamObjects = {}) => (Spec => []EditsSurviveRestart)
<1>1. SUFFICES ASSUME ~MayDangle, TeamObjects = {} PROVE Spec => []EditsSurviveRestart
  OBVIOUS
<1>2. PersistInv => EditsSurviveRestart
  BY DEF PersistInv, Persists, Kept, EditsSurviveRestart
<1>3. Init => PersistInv
  BY PersistInvInit
<1>4. TypeInv /\ OrderInv /\ PersistInv /\ [Next]_vars => PersistInv'
  BY <1>1, PersistInvStep
<1>5. Spec => []OrderInv
  BY <1>1, OrderInvariant
<1> QED
  BY <1>2, <1>3, <1>4, <1>5, TypeInvariant, PTL DEF Spec

=============================================================================
