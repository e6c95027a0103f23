------------------------ MODULE PreprocessQueueProofs ------------------------
(***************************************************************************)
(* Proofs about the queue of batches under preprocessing: it implements    *)
(* the release in order that it promises.                                  *)
(***************************************************************************)
EXTENDS PreprocessQueue, OrderedSeqsProofs

-----------------------------------------------------------------------------
(* Flat sequences.                                                         *)

\* Induction on sequences for a set rather than a predicate.
LEMMA AppendInduction ==
    ASSUME NEW T, NEW P, <<>> \in P, \A s \in Seq(T), x \in T : s \in P => Append(s, x) \in P
    PROVE  Seq(T) \subseteq P
<1> DEFINE S == {n \in Nat : \A s \in Seq(T) : Len(s) = n => s \in P}
<1>1. 0 \in S
  <2>1. \A s \in Seq(T) : Len(s) = 0 => s = <<>>
    BY EmptySeq
  <2> QED BY <2>1
<1>2. ASSUME NEW n \in Nat, n \in S PROVE n + 1 \in S
  <2>1. SUFFICES ASSUME NEW s \in Seq(T), Len(s) = n + 1 PROVE s \in P
    OBVIOUS
  <2>2. s # <<>>
    BY <2>1, EmptySeq
  <2>3. PICK t \in Seq(T), x \in T : s = Append(t, x)
    BY <2>2, SequenceEmptyOrAppend
  <2>4. Len(t) = n
    BY <2>1, <2>3, AppendProperties, LenProperties
  <2> QED BY <1>2, <2>3, <2>4
<1> HIDE DEF S
<1>3. Nat \subseteq S
  BY <1>1, <1>2, SetInduction
<1> QED
  BY <1>3, LenProperties DEF S

\* f is the recursion of FlattenSeq.
Flattens(f, ss) ==
    f = [i \in 1..Len(ss) |-> IF i = 1 THEN ss[i] ELSE f[i - 1] \o ss[i]]

LEMMA FlattenExists ==
    ASSUME NEW T, NEW ss \in Seq(T)
    PROVE  \E f : Flattens(f, ss)
<1> DEFINE P == {us \in Seq(T) : \E f : Flattens(f, us)}
<1>1. <<>> \in P
  <2>1. Flattens([i \in 1..0 |-> 0], <<>>)
    BY DEF Flattens
  <2> QED BY <2>1, EmptySeq
<1>2. ASSUME NEW us \in Seq(T), NEW x \in T, us \in P PROVE Append(us, x) \in P
  <2> DEFINE n == Len(us)
             vs == Append(us, x)
  <2>1. PICK f : Flattens(f, us)
    BY <1>2
  <2>2. n \in Nat /\ vs \in Seq(T) /\ Len(vs) = n + 1 /\ vs[n + 1] = x
        /\ \A i \in 1..n : vs[i] = us[i]
    BY AppendProperties, LenProperties
  <2> DEFINE g == [i \in 1..(n + 1) |->
                      IF i = n + 1 THEN IF i = 1 THEN x ELSE f[n] \o x ELSE f[i]]
  <2>3. \A i \in 1..n : f[i] = IF i = 1 THEN us[i] ELSE f[i - 1] \o us[i]
    BY <2>1 DEF Flattens
  <2> HIDE DEF vs, n
  <2>4. \A i \in 1..(n + 1) : g[i] = IF i = 1 THEN vs[i] ELSE g[i - 1] \o vs[i]
    <3>1. SUFFICES ASSUME NEW i \in 1..(n + 1)
                   PROVE  g[i] = IF i = 1 THEN vs[i] ELSE g[i - 1] \o vs[i]
      OBVIOUS
    <3>2. CASE i = n + 1
      BY <2>2, <3>2
    <3>3. CASE i # n + 1
      <4>1. i \in 1..n /\ (i # 1 => i - 1 \in 1..n /\ i - 1 # n + 1)
        BY <2>2, <3>3
      <4> QED BY <2>2, <2>3, <3>3, <4>1
    <3> QED BY <3>2, <3>3
  <2>5. g = [i \in 1..(n + 1) |-> IF i = 1 THEN vs[i] ELSE g[i - 1] \o vs[i]]
    <3> DEFINE h == [i \in 1..(n + 1) |-> IF i = 1 THEN vs[i] ELSE g[i - 1] \o vs[i]]
    <3>1. \A i \in 1..(n + 1) : g[i] = h[i]
      BY <2>4
    <3> QED BY <3>1
  <2> HIDE DEF g
  <2>6. Flattens(g, vs)
    BY <2>2, <2>5 DEF Flattens
  <2> QED BY <2>2, <2>6 DEF vs
<1> HIDE DEF P
<1>3. ss \in P
  BY <1>1, <1>2, AppendInduction
<1> QED
  BY <1>3 DEF P

\* FlattenSeq ends that recursion.
LEMMA FlattenValue ==
    ASSUME NEW T, NEW ss \in Seq(T), ss # <<>>
    PROVE  \E f : Flattens(f, ss) /\ FlattenSeq(ss) = f[Len(ss)]
<1>1. Len(ss) # 0
  BY EmptySeq
<1> DEFINE Body(f) == [i \in 1..Len(ss) |-> IF i = 1 THEN ss[i] ELSE f[i - 1] \o ss[i]]
           flatten == CHOOSE f : f = Body(f)
<1>2. FlattenSeq(ss) = flatten[Len(ss)]
  BY <1>1 DEF FlattenSeq
<1>3. \E f : f = Body(f)
  BY FlattenExists DEF Flattens
<1>4. flatten = Body(flatten)
  <2> HIDE DEF Body
  <2> QED BY <1>3
<1> QED
  BY <1>2, <1>4 DEF Flattens

LEMMA FlattenAppend ==
    ASSUME NEW E, NEW ss \in Seq(Seq(E)), NEW x \in Seq(E)
    PROVE  FlattenSeq(Append(ss, x)) = IF ss = <<>> THEN x ELSE FlattenSeq(ss) \o x
<1> DEFINE vs == Append(ss, x)
           n == Len(ss)
<1>1. n \in Nat /\ vs \in Seq(Seq(E)) /\ vs # <<>> /\ Len(vs) = n + 1 /\ vs[n + 1] = x
      /\ \A i \in 1..n : vs[i] = ss[i]
  BY AppendProperties, LenProperties
<1>0. (ss = <<>>) <=> n = 0
  BY EmptySeq
<1> HIDE DEF vs, n
<1>2. PICK g : Flattens(g, vs) /\ FlattenSeq(vs) = g[n + 1]
  BY <1>1, FlattenValue
<1>3. \A i \in 1..(n + 1) : g[i] = IF i = 1 THEN vs[i] ELSE g[i - 1] \o vs[i]
  BY <1>1, <1>2 DEF Flattens
<1>4. CASE ss = <<>>
  BY <1>0, <1>1, <1>2, <1>3, <1>4 DEF vs
<1>5. CASE ss # <<>>
  <2>1. PICK f : Flattens(f, ss) /\ FlattenSeq(ss) = f[n]
    BY <1>5, FlattenValue DEF n
  <2>2. \A i \in 1..n : f[i] = IF i = 1 THEN ss[i] ELSE f[i - 1] \o ss[i]
    BY <2>1 DEF Flattens, n
  <2> DEFINE S == {i \in Nat : i \in 1..n => f[i] = g[i]}
  <2>3. 0 \in S
    OBVIOUS
  <2>4. ASSUME NEW i \in Nat, i \in S PROVE i + 1 \in S
    <3>1. SUFFICES ASSUME i + 1 \in 1..n PROVE f[i + 1] = g[i + 1]
      OBVIOUS
    <3>2. (i + 1) - 1 = i /\ i + 1 \in 1..(n + 1) /\ (i + 1 # 1 => i \in 1..n)
      BY <1>1, <3>1
    <3> QED BY <1>1, <1>3, <2>2, <2>4, <3>1, <3>2
  <2> HIDE DEF S
  <2>5. Nat \subseteq S
    BY <2>3, <2>4, SetInduction
  <2>6. n \in 1..n /\ n + 1 \in 1..(n + 1) /\ n + 1 # 1 /\ (n + 1) - 1 = n
    BY <1>0, <1>1, <1>5
  <2>7. f[n] = g[n]
    BY <1>1, <2>5, <2>6 DEF S
  <2>8. g[n + 1] = g[n] \o x
    BY <1>1, <1>3, <2>6
  <2> QED BY <1>2, <1>5, <2>1, <2>7, <2>8 DEF vs
<1> QED
  BY <1>4, <1>5

-----------------------------------------------------------------------------

LEMMA FlattenSteps ==
    ASSUME NEW E
    PROVE  /\ FlattenSeq(<<>>) = <<>>
           /\ \A ss \in Seq(Seq(E)) : FlattenSeq(ss) \in Seq(E)
           /\ \A ss \in Seq(Seq(E)), x \in Seq(E) :
                 FlattenSeq(Append(ss, x)) = FlattenSeq(ss) \o x
<1>1. FlattenSeq(<<>>) = <<>>
  BY EmptySeq DEF FlattenSeq
<1>2. \A ss \in Seq(Seq(E)), x \in Seq(E) : FlattenSeq(Append(ss, x)) = FlattenSeq(ss) \o x
  <2>1. TAKE ss \in Seq(Seq(E)), x \in Seq(E)
  <2>2. <<>> \o x = x
    BY ConcatEmptySeq
  <2> QED BY <1>1, <2>2, FlattenAppend
<1>3. \A ss \in Seq(Seq(E)) : FlattenSeq(ss) \in Seq(E)
  <2> DEFINE T == Seq(E)
             P == {ss \in Seq(T) : FlattenSeq(ss) \in Seq(E)}
  <2>1. <<>> \in P
    BY <1>1, EmptySeq
  <2>2. ASSUME NEW ss \in Seq(T), NEW x \in T, ss \in P PROVE Append(ss, x) \in P
    BY <1>2, <2>2, AppendProperties, ConcatProperties
  <2> HIDE DEF P, T
  <2>3. Seq(T) \subseteq P
    BY <2>1, <2>2, AppendInduction
  <2> QED BY <2>3 DEF P, T
<1> QED
  BY <1>1, <1>2, <1>3

\* A sequence is another one with an element, or two others, one after the other.
LEMMA AppendIs ==
    ASSUME NEW T, NEW s \in Seq(T), NEW x \in T, NEW u \in Seq(T), Len(u) = Len(s) + 1,
           \A i \in 1..Len(s) : u[i] = s[i], u[Len(s) + 1] = x
    PROVE  u = Append(s, x)
<1> DEFINE v == Append(s, x)
<1>1. v \in Seq(T) /\ Len(v) = Len(s) + 1 /\ v[Len(s) + 1] = x /\ Len(s) \in Nat
      /\ \A i \in 1..Len(s) : v[i] = s[i]
  BY AppendProperties, LenProperties
<1> HIDE DEF v
<1>2. \A i \in 1..Len(u) : u[i] = v[i]
  <2>1. \A i \in 1..Len(u) : i \in 1..Len(s) \/ i = Len(s) + 1
    BY <1>1
  <2> QED BY <1>1, <2>1
<1> QED
  BY <1>1, <1>2, SeqEqual DEF v

LEMMA ConcatIs ==
    ASSUME NEW T, NEW s \in Seq(T), NEW t \in Seq(T), NEW u \in Seq(T), Len(u) = Len(s) + Len(t),
           \A i \in 1..Len(s) : u[i] = s[i], \A i \in 1..Len(t) : u[Len(s) + i] = t[i]
    PROVE  u = s \o t
<1> DEFINE v == s \o t
<1>1. v \in Seq(T) /\ Len(v) = Len(s) + Len(t) /\ Len(s) \in Nat /\ Len(t) \in Nat
      /\ (\A i \in 1..Len(s) : v[i] = s[i]) /\ \A i \in 1..Len(t) : v[Len(s) + i] = t[i]
  BY LenProperties
<1> HIDE DEF v
<1>2. \A i \in 1..Len(u) : u[i] = v[i]
  <2>1. ASSUME NEW i \in 1..Len(u), i \notin 1..Len(s)
        PROVE  i - Len(s) \in 1..Len(t) /\ i = Len(s) + (i - Len(s))
    BY <1>1, <2>1
  <2> QED BY <1>1, <2>1
<1> QED
  BY <1>1, <1>2, SeqEqual DEF v

LEMMA ConcatFacts ==
    ASSUME NEW T, NEW s \in Seq(T), NEW t \in Seq(T)
    PROVE  /\ s \o t \in Seq(T) /\ Len(s \o t) = Len(s) + Len(t)
           /\ Len(s) \in Nat /\ Len(t) \in Nat /\ DOMAIN (s \o t) = 1..(Len(s) + Len(t))
           /\ \A i \in 1..Len(s) : (s \o t)[i] = s[i]
           /\ \A i \in 1..Len(t) : (s \o t)[Len(s) + i] = t[i]
BY LenProperties

LEMMA ConcatAppend ==
    ASSUME NEW T, NEW s \in Seq(T), NEW t \in Seq(T), NEW x \in T
    PROVE  s \o Append(t, x) = Append(s \o t, x)
<1>1. s \o t \in Seq(T) /\ <<x>> \in Seq(T)
  BY ConcatProperties
<1>2. Append(t, x) = t \o <<x>> /\ Append(s \o t, x) = (s \o t) \o <<x>>
  BY <1>1, AppendIsConcat
<1> QED
  BY <1>1, <1>2, ConcatAssociative

LEMMA FlattenConcat ==
    ASSUME NEW E, NEW ss \in Seq(Seq(E)), NEW tt \in Seq(Seq(E))
    PROVE  FlattenSeq(ss \o tt) = FlattenSeq(ss) \o FlattenSeq(tt)
<1> DEFINE T == Seq(E)
           P == {us \in Seq(T) : FlattenSeq(ss \o us) = FlattenSeq(ss) \o FlattenSeq(us)}
<1>1. <<>> \in P
  <2>1. ss \o <<>> = ss /\ FlattenSeq(ss) \o <<>> = FlattenSeq(ss)
    BY FlattenSteps, ConcatEmptySeq
  <2> QED BY <2>1, FlattenSteps, EmptySeq
<1>2. ASSUME NEW us \in Seq(T), NEW x \in T, us \in P PROVE Append(us, x) \in P
  <2>1. ss \o us \in Seq(T) /\ Append(us, x) \in Seq(T)
    BY ConcatProperties, AppendProperties
  <2>2. FlattenSeq(ss) \in Seq(E) /\ FlattenSeq(us) \in Seq(E)
    BY FlattenSteps
  <2>3. FlattenSeq(ss \o Append(us, x)) = FlattenSeq(ss \o us) \o x
    <3>1. ss \o Append(us, x) = Append(ss \o us, x)
      BY ConcatAppend
    <3> DEFINE vs == ss \o us
    <3> HIDE DEF vs
    <3>2. FlattenSeq(Append(vs, x)) = FlattenSeq(vs) \o x
      BY <2>1, FlattenSteps DEF vs
    <3> QED BY <3>1, <3>2 DEF vs
  <2>4. FlattenSeq(Append(us, x)) = FlattenSeq(us) \o x
    BY FlattenSteps
  <2>5. (FlattenSeq(ss) \o FlattenSeq(us)) \o x = FlattenSeq(ss) \o (FlattenSeq(us) \o x)
    BY <2>2, ConcatAssociative
  <2> QED BY <1>2, <2>1, <2>3, <2>4, <2>5
<1> HIDE DEF P
<1>3. Seq(T) \subseteq P
  BY <1>1, <1>2, AppendInduction
<1> QED
  BY <1>3 DEF P

-----------------------------------------------------------------------------
(* The batches as a flat list.                                             *)

Entry == [id : ActionIds, batch : ActionIds, done : BOOLEAN]

EntriesOf(b) ==
    [j \in DOMAIN b.actions |->
        [id |-> b.actions[j], batch |-> b.id, done |-> b.status = Done]]

Flat(bs) == FlattenSeq([i \in DOMAIN bs |-> EntriesOf(bs[i])])
ActionsIn(bs) == FlattenSeq([i \in DOMAIN bs |-> bs[i].actions])
Ids(es) == [i \in DOMAIN es |-> es[i].id]

LEMMA OutputProperties ==
    ASSUME NEW b \in Batch
    PROVE  /\ b.actions \in Seq(ActionIds) /\ b.actions # <<>> /\ Injective(b.actions)
           /\ EntriesOf(b) \in Seq(Entry) /\ Len(EntriesOf(b)) = Len(b.actions)
<1>1. b.actions \in Seq(ActionIds) /\ b.actions # <<>> /\ Injective(b.actions) /\ b.id \in ActionIds
  BY OutputsAssumption DEF Batch
<1>2. DOMAIN b.actions = 1..Len(b.actions) /\ Len(b.actions) \in Nat
      /\ \A j \in 1..Len(b.actions) : b.actions[j] \in ActionIds
  BY <1>1
<1>3. EntriesOf(b) \in [1..Len(b.actions) -> Entry]
  BY <1>1, <1>2 DEF EntriesOf, Entry
<1>4. EntriesOf(b) \in Seq(Entry)
  BY <1>2, <1>3, SeqDef
<1>5. DOMAIN EntriesOf(b) = 1..Len(b.actions)
  BY <1>3
<1> QED
  BY <1>1, <1>2, <1>4, <1>5, LenProperties

LEMMA MappedSeq ==
    ASSUME NEW bs \in Seq(Batch)
    PROVE  /\ [i \in DOMAIN bs |-> EntriesOf(bs[i])] \in Seq(Seq(Entry))
           /\ [i \in DOMAIN bs |-> bs[i].actions] \in Seq(Seq(ActionIds))
           /\ Len([i \in DOMAIN bs |-> EntriesOf(bs[i])]) = Len(bs)
           /\ Len([i \in DOMAIN bs |-> bs[i].actions]) = Len(bs)
<1>1. Len(bs) \in Nat /\ DOMAIN bs = 1..Len(bs) /\ \A i \in DOMAIN bs : bs[i] \in Batch
  BY LenProperties, ElementOfSeq
<1>2. \A i \in DOMAIN bs : EntriesOf(bs[i]) \in Seq(Entry) /\ bs[i].actions \in Seq(ActionIds)
  BY <1>1, OutputProperties
<1>3. [i \in DOMAIN bs |-> EntriesOf(bs[i])] \in [1..Len(bs) -> Seq(Entry)]
  BY <1>1, <1>2
<1>4. [i \in DOMAIN bs |-> bs[i].actions] \in [1..Len(bs) -> Seq(ActionIds)]
  BY <1>1, <1>2
<1> QED
  BY <1>1, <1>3, <1>4, SeqDef, LenProperties

\* The flat list grows with each batch by its actions, and so do their identifiers.
LEMMA FlatSteps ==
    ASSUME NEW bs \in Seq(Batch), NEW b \in Batch
    PROVE  /\ Flat(Append(bs, b)) = Flat(bs) \o EntriesOf(b)
           /\ ActionsIn(Append(bs, b)) = ActionsIn(bs) \o b.actions
<1> DEFINE cs == Append(bs, b)
           es == [i \in DOMAIN bs |-> EntriesOf(bs[i])]
           fs == [i \in DOMAIN cs |-> EntriesOf(cs[i])]
           acts == [i \in DOMAIN bs |-> bs[i].actions]
           ds == [i \in DOMAIN cs |-> cs[i].actions]
<1>1. cs \in Seq(Batch) /\ Len(cs) = Len(bs) + 1 /\ Len(bs) \in Nat /\ cs[Len(bs) + 1] = b
      /\ (\A i \in 1..Len(bs) : cs[i] = bs[i]) /\ DOMAIN bs = 1..Len(bs) /\ DOMAIN cs = 1..(Len(bs) + 1)
  BY AppendProperties, LenProperties
<1>2. /\ es \in Seq(Seq(Entry)) /\ acts \in Seq(Seq(ActionIds)) /\ Len(es) = Len(bs) /\ Len(acts) = Len(bs)
      /\ EntriesOf(b) \in Seq(Entry) /\ b.actions \in Seq(ActionIds)
  BY MappedSeq, OutputProperties
<1>3. /\ fs \in Seq(Seq(Entry)) /\ ds \in Seq(Seq(ActionIds)) /\ Len(fs) = Len(cs) /\ Len(ds) = Len(cs)
  BY <1>1, MappedSeq
<1>4. \A i \in 1..Len(bs) : fs[i] = es[i] /\ ds[i] = acts[i]
  BY <1>1
<1>5. fs[Len(bs) + 1] = EntriesOf(b) /\ ds[Len(bs) + 1] = b.actions
  BY <1>1
<1>6. Flat(cs) = FlattenSeq(fs) /\ ActionsIn(cs) = FlattenSeq(ds)
      /\ Flat(bs) = FlattenSeq(es) /\ ActionsIn(bs) = FlattenSeq(acts)
  BY DEF Flat, ActionsIn
<1> HIDE DEF cs, es, fs, acts, ds
<1>7. fs = Append(es, EntriesOf(b))
  <2>1. Len(fs) = Len(es) + 1 /\ (\A i \in 1..Len(es) : fs[i] = es[i]) /\ fs[Len(es) + 1] = EntriesOf(b)
    BY <1>1, <1>2, <1>3, <1>4, <1>5
  <2> QED BY <1>2, <1>3, <2>1, AppendIs
<1>8. ds = Append(acts, b.actions)
  <2>1. Len(ds) = Len(acts) + 1 /\ (\A i \in 1..Len(acts) : ds[i] = acts[i]) /\ ds[Len(acts) + 1] = b.actions
    BY <1>1, <1>2, <1>3, <1>4, <1>5
  <2> QED BY <1>2, <1>3, <2>1, AppendIs
<1>9. FlattenSeq(Append(es, EntriesOf(b))) = FlattenSeq(es) \o EntriesOf(b)
  BY <1>2, FlattenSteps
<1>10. FlattenSeq(Append(acts, b.actions)) = FlattenSeq(acts) \o b.actions
  BY <1>2, FlattenSteps
<1> QED
  BY <1>6, <1>7, <1>8, <1>9, <1>10 DEF cs

LEMMA FlatEmpty == Flat(<<>>) = <<>> /\ ActionsIn(<<>>) = <<>>
<1>1. [i \in DOMAIN <<>> |-> EntriesOf(<<>>[i])] = <<>> /\ [i \in DOMAIN <<>> |-> <<>>[i].actions] = <<>>
  OBVIOUS
<1>2. FlattenSeq(<<>>) = <<>>
  BY FlattenSteps
<1> QED
  BY <1>1, <1>2 DEF Flat, ActionsIn

LEMMA FlatType ==
    ASSUME NEW bs \in Seq(Batch)
    PROVE  Flat(bs) \in Seq(Entry) /\ ActionsIn(bs) \in Seq(ActionIds)
BY MappedSeq, FlattenSteps DEF Flat, ActionsIn

LEMMA FlatConcat ==
    ASSUME NEW bs \in Seq(Batch), NEW cs \in Seq(Batch)
    PROVE  Flat(bs \o cs) = Flat(bs) \o Flat(cs)
<1> DEFINE P == {ds \in Seq(Batch) : Flat(bs \o ds) = Flat(bs) \o Flat(ds)}
<1>1. <<>> \in P
  <2>1. bs \o <<>> = bs /\ Flat(bs) \o <<>> = Flat(bs)
    BY FlatType, ConcatEmptySeq
  <2> QED BY <2>1, FlatEmpty, EmptySeq
<1>2. ASSUME NEW ds \in Seq(Batch), NEW b \in Batch, ds \in P PROVE Append(ds, b) \in P
  <2>1. bs \o Append(ds, b) = Append(bs \o ds, b) /\ bs \o ds \in Seq(Batch) /\ Append(ds, b) \in Seq(Batch)
    BY ConcatAppend, ConcatProperties, AppendProperties
  <2> DEFINE us == bs \o ds
  <2> HIDE DEF us
  <2>2. Flat(Append(us, b)) = Flat(us) \o EntriesOf(b) /\ Flat(Append(ds, b)) = Flat(ds) \o EntriesOf(b)
    BY <2>1, FlatSteps DEF us
  <2>3. Flat(bs) \in Seq(Entry) /\ Flat(ds) \in Seq(Entry) /\ EntriesOf(b) \in Seq(Entry)
    BY FlatType, OutputProperties
  <2>4. (Flat(bs) \o Flat(ds)) \o EntriesOf(b) = Flat(bs) \o (Flat(ds) \o EntriesOf(b))
    BY <2>3, ConcatAssociative
  <2> QED BY <1>2, <2>1, <2>2, <2>4 DEF us
<1> HIDE DEF P
<1>3. Seq(Batch) \subseteq P
  BY <1>1, <1>2, AppendInduction
<1> QED
  BY <1>3 DEF P

-----------------------------------------------------------------------------
(* The operators of the promise on the flat list.                          *)

LEMMA CompletedConcat ==
    ASSUME NEW s \in Seq(Entry), NEW t \in Seq(Entry), NEW id
    PROVE  /\ Promise!Completed(s \o t, id) = Promise!Completed(s, id) \o Promise!Completed(t, id)
           /\ Ids(s \o t) = Ids(s) \o Ids(t)
           /\ Promise!Completed(s, id) \in Seq(Entry) /\ Ids(s) \in Seq(ActionIds)
<1> DEFINE C(u) == Promise!Completed(u, id)
           At(e) == [e EXCEPT !.done = @ \/ e.batch = id]
<1>1. ASSUME NEW u \in Seq(Entry)
      PROVE  /\ C(u) \in Seq(Entry) /\ Len(C(u)) = Len(u) /\ \A i \in 1..Len(u) : C(u)[i] = At(u[i])
             /\ Ids(u) \in Seq(ActionIds) /\ Len(Ids(u)) = Len(u) /\ \A i \in 1..Len(u) : Ids(u)[i] = u[i].id
  <2>1. Len(u) \in Nat /\ DOMAIN u = 1..Len(u) /\ \A i \in 1..Len(u) : u[i] \in Entry
    BY LenProperties, ElementOfSeq
  <2>2. \A e \in Entry : At(e) \in Entry /\ e.id \in ActionIds
    BY DEF Entry
  <2>3. C(u) = [i \in 1..Len(u) |-> At(u[i])]
    BY <2>1 DEF Promise!Completed
  <2>4. C(u) \in [1..Len(u) -> Entry] /\ Ids(u) \in [1..Len(u) -> ActionIds]
    BY <2>1, <2>2, <2>3 DEF Ids
  <2> HIDE DEF C
  <2> QED BY <2>1, <2>3, <2>4, SeqDef, LenProperties DEF Ids
<1> DEFINE u == s \o t
<1>2. u \in Seq(Entry) /\ Len(u) = Len(s) + Len(t) /\ Len(s) \in Nat /\ Len(t) \in Nat
      /\ (\A i \in 1..Len(s) : u[i] = s[i]) /\ \A i \in 1..Len(t) : u[Len(s) + i] = t[i]
  BY LenProperties
<1>3. C(u) \in Seq(Entry) /\ Len(C(u)) = Len(u) /\ (\A i \in 1..Len(u) : C(u)[i] = At(u[i]))
      /\ Ids(u) \in Seq(ActionIds) /\ Len(Ids(u)) = Len(u) /\ \A i \in 1..Len(u) : Ids(u)[i] = u[i].id
  BY <1>1, <1>2
<1> HIDE DEF C, At, u
<1>4. /\ \A i \in 1..Len(s) : C(u)[i] = C(s)[i] /\ Ids(u)[i] = Ids(s)[i]
      /\ \A i \in 1..Len(t) : C(u)[Len(s) + i] = C(t)[i] /\ Ids(u)[Len(s) + i] = Ids(t)[i]
  <2>1. (\A i \in 1..Len(s) : i \in 1..Len(u)) /\ (\A i \in 1..Len(t) : Len(s) + i \in 1..Len(u))
    BY <1>2
  <2>2. ASSUME NEW i \in 1..Len(s) PROVE C(u)[i] = C(s)[i] /\ Ids(u)[i] = Ids(s)[i]
    <3>1. C(u)[i] = At(u[i]) /\ C(s)[i] = At(s[i]) /\ Ids(u)[i] = u[i].id /\ Ids(s)[i] = s[i].id
      BY <1>1, <1>3, <2>1
    <3> QED BY <1>2, <3>1
  <2>3. ASSUME NEW i \in 1..Len(t) PROVE C(u)[Len(s) + i] = C(t)[i] /\ Ids(u)[Len(s) + i] = Ids(t)[i]
    <3>1. C(u)[Len(s) + i] = At(u[Len(s) + i]) /\ C(t)[i] = At(t[i])
          /\ Ids(u)[Len(s) + i] = u[Len(s) + i].id /\ Ids(t)[i] = t[i].id
      BY <1>1, <1>3, <2>1
    <3> QED BY <1>2, <3>1
  <2> QED BY <2>2, <2>3
<1>5. C(s) \in Seq(Entry) /\ C(t) \in Seq(Entry) /\ Len(C(s)) = Len(s) /\ Len(C(t)) = Len(t)
      /\ Ids(s) \in Seq(ActionIds) /\ Ids(t) \in Seq(ActionIds) /\ Len(Ids(s)) = Len(s) /\ Len(Ids(t)) = Len(t)
  BY <1>1
<1>6. C(u) = C(s) \o C(t)
  <2>1. Len(C(u)) = Len(C(s)) + Len(C(t)) /\ (\A i \in 1..Len(C(s)) : C(u)[i] = C(s)[i])
        /\ \A i \in 1..Len(C(t)) : C(u)[Len(C(s)) + i] = C(t)[i]
    BY <1>2, <1>3, <1>4, <1>5
  <2> QED BY <1>3, <1>5, <2>1, ConcatIs
<1>7. Ids(u) = Ids(s) \o Ids(t)
  <2>1. Len(Ids(u)) = Len(Ids(s)) + Len(Ids(t)) /\ (\A i \in 1..Len(Ids(s)) : Ids(u)[i] = Ids(s)[i])
        /\ \A i \in 1..Len(Ids(t)) : Ids(u)[Len(Ids(s)) + i] = Ids(t)[i]
    BY <1>2, <1>3, <1>4, <1>5
  <2> QED BY <1>3, <1>5, <2>1, ConcatIs
<1> QED
  BY <1>5, <1>6, <1>7 DEF C, u

EndedBatch(b, id) == IF b.id = id THEN [b EXCEPT !.status = Done] ELSE b
Ended(bs, id) == [i \in DOMAIN bs |-> EndedBatch(bs[i], id)]

LEMMA EndedType ==
    ASSUME NEW bs \in Seq(Batch), NEW id
    PROVE  /\ Ended(bs, id) \in Seq(Batch) /\ Len(Ended(bs, id)) = Len(bs)
           /\ \A i \in 1..Len(bs) : Ended(bs, id)[i] = EndedBatch(bs[i], id)
<1>1. Len(bs) \in Nat /\ DOMAIN bs = 1..Len(bs) /\ \A i \in 1..Len(bs) : bs[i] \in Batch
  BY LenProperties, ElementOfSeq
<1>2. \A b \in Batch : EndedBatch(b, id) \in Batch
  BY DEF EndedBatch, Batch
<1>3. Ended(bs, id) \in [1..Len(bs) -> Batch]
  BY <1>1, <1>2 DEF Ended
<1> QED
  BY <1>1, <1>3, SeqDef, LenProperties DEF Ended

LEMMA EntryFields ==
    ASSUME NEW x, NEW y, NEW z, NEW id
    PROVE  \A e : e = [id |-> x, batch |-> y, done |-> z] =>
               /\ [e EXCEPT !.done = @ \/ e.batch = id] = [id |-> x, batch |-> y, done |-> (z \/ y = id)]
               /\ e.id = x
OBVIOUS

LEMMA CompletedBatch ==
    ASSUME NEW b \in Batch, NEW id
    PROVE  /\ Promise!Completed(EntriesOf(b), id) = EntriesOf(EndedBatch(b, id))
           /\ Ids(EntriesOf(b)) = b.actions
<1> DEFINE es == EntriesOf(b)
           c == EndedBatch(b, id)
<1>1. c.actions = b.actions /\ c.id = b.id
      /\ (c.status = Done) = (b.status = Done \/ b.id = id)
  BY DEF EndedBatch, Batch
<1>2. DOMAIN es = DOMAIN b.actions
      /\ \A j \in DOMAIN b.actions :
            es[j] = [id |-> b.actions[j], batch |-> b.id, done |-> b.status = Done]
  BY DEF EntriesOf
<1>3. EntriesOf(c) = [j \in DOMAIN b.actions |->
          [id |-> b.actions[j], batch |-> b.id, done |-> (b.status = Done \/ b.id = id)]]
  <2> HIDE DEF c
  <2> QED BY <1>1 DEF EntriesOf
<1>4. Promise!Completed(es, id) = [j \in DOMAIN b.actions |-> [es[j] EXCEPT !.done = @ \/ es[j].batch = id]]
  <2> HIDE DEF es
  <2> QED BY <1>2 DEF Promise!Completed
<1>5. \A j \in DOMAIN b.actions :
          /\ [es[j] EXCEPT !.done = @ \/ es[j].batch = id]
                 = [id |-> b.actions[j], batch |-> b.id, done |-> (b.status = Done \/ b.id = id)]
          /\ es[j].id = b.actions[j]
  <2>1. TAKE j \in DOMAIN b.actions
  <2> DEFINE x == b.actions[j]
             y == b.id
             z == b.status = Done
             e == es[j]
  <2>2. e = [id |-> x, batch |-> y, done |-> z]
    BY <1>2
  <2> HIDE DEF x, y, z, e
  <2>3. [e EXCEPT !.done = @ \/ e.batch = id] = [id |-> x, batch |-> y, done |-> (z \/ y = id)] /\ e.id = x
    BY <2>2, EntryFields
  <2> QED BY <2>3 DEF x, y, z, e
<1>6. Ids(es) = b.actions
  <2>1. b.actions \in Seq(ActionIds)
    BY OutputProperties
  <2>2. b.actions = [j \in DOMAIN b.actions |-> b.actions[j]]
    BY <2>1
  <2>3. Ids(es) = [j \in DOMAIN b.actions |-> es[j].id]
    BY <1>2 DEF Ids
  <2>4. \A j \in DOMAIN b.actions : es[j].id = b.actions[j]
    BY <1>5
  <2> HIDE DEF es
  <2> QED BY <2>2, <2>3, <2>4
<1> QED
  BY <1>3, <1>4, <1>5, <1>6

\* The completion of a batch is seen in the flat list, whose identifiers are those of the batches.
LEMMA CompletedFlat ==
    ASSUME NEW bs \in Seq(Batch), NEW id
    PROVE  Promise!Completed(Flat(bs), id) = Flat(Ended(bs, id)) /\ Ids(Flat(bs)) = ActionsIn(bs)
<1> DEFINE P == {ds \in Seq(Batch) : /\ Promise!Completed(Flat(ds), id) = Flat(Ended(ds, id))
                                     /\ Ids(Flat(ds)) = ActionsIn(ds)}
<1>1. <<>> \in P
  <2>1. Promise!Completed(<<>>, id) = <<>> /\ Ended(<<>>, id) = <<>> /\ Ids(<<>>) = <<>>
    BY DEF Promise!Completed, Ended, Ids
  <2> QED BY <2>1, FlatEmpty, EmptySeq
<1>2. ASSUME NEW ds \in Seq(Batch), NEW b \in Batch, ds \in P PROVE Append(ds, b) \in P
  <2> DEFINE us == Append(ds, b)
             c == EndedBatch(b, id)
  <2>1. us \in Seq(Batch) /\ Len(us) = Len(ds) + 1 /\ us[Len(ds) + 1] = b /\ Len(ds) \in Nat
        /\ \A i \in 1..Len(ds) : us[i] = ds[i]
    BY AppendProperties, LenProperties
  <2>2. c \in Batch
    BY DEF EndedBatch, Batch
  <2>3. Ended(us, id) = Append(Ended(ds, id), c)
    <3> HIDE DEF us
    <3>1. Ended(us, id) \in Seq(Batch) /\ Len(Ended(us, id)) = Len(us)
          /\ \A i \in 1..Len(us) : Ended(us, id)[i] = EndedBatch(us[i], id)
      BY <2>1, EndedType
    <3>2. Ended(ds, id) \in Seq(Batch) /\ Len(Ended(ds, id)) = Len(ds)
          /\ \A i \in 1..Len(ds) : Ended(ds, id)[i] = EndedBatch(ds[i], id)
      BY EndedType
    <3>3. Len(Ended(us, id)) = Len(Ended(ds, id)) + 1
          /\ (\A i \in 1..Len(Ended(ds, id)) : Ended(us, id)[i] = Ended(ds, id)[i])
          /\ Ended(us, id)[Len(Ended(ds, id)) + 1] = c
      <4>1. (\A i \in 1..Len(ds) : i \in 1..Len(us)) /\ Len(ds) + 1 \in 1..Len(us)
        BY <2>1
      <4> QED BY <2>1, <3>1, <3>2, <4>1
    <3> HIDE DEF c
    <3> QED BY <2>2, <3>1, <3>2, <3>3, AppendIs
  <2>4. Flat(us) = Flat(ds) \o EntriesOf(b) /\ ActionsIn(us) = ActionsIn(ds) \o b.actions
    BY FlatSteps
  <2> HIDE DEF us
  <2>5. Flat(Append(Ended(ds, id), c)) = Flat(Ended(ds, id)) \o EntriesOf(c)
    BY <2>2, EndedType, FlatSteps
  <2>6. Flat(ds) \in Seq(Entry) /\ EntriesOf(b) \in Seq(Entry)
    BY FlatType, OutputProperties
  <2>7. /\ Promise!Completed(Flat(us), id)
               = Promise!Completed(Flat(ds), id) \o Promise!Completed(EntriesOf(b), id)
        /\ Ids(Flat(us)) = Ids(Flat(ds)) \o Ids(EntriesOf(b))
    BY <2>4, <2>6, CompletedConcat
  <2>8. Promise!Completed(EntriesOf(b), id) = EntriesOf(c) /\ Ids(EntriesOf(b)) = b.actions
    BY CompletedBatch
  <2>9. us \in P
    BY <1>2, <2>1, <2>3, <2>4, <2>5, <2>7, <2>8
  <2> QED BY <2>9 DEF us
<1> HIDE DEF P
<1>3. Seq(Batch) \subseteq P
  BY <1>1, <1>2, AppendInduction
<1> QED
  BY <1>3 DEF P

\* The entries are those of the batches.
LEMMA FlatElems ==
    ASSUME NEW bs \in Seq(Batch)
    PROVE  Elems(Flat(bs)) = UNION {Elems(EntriesOf(bs[i])) : i \in DOMAIN bs}
<1> DEFINE P == {ds \in Seq(Batch) : Elems(Flat(ds)) = UNION {Elems(EntriesOf(ds[i])) : i \in DOMAIN ds}}
<1>1. <<>> \in P
  BY FlatEmpty, EmptySeq DEF Elems
<1>2. ASSUME NEW ds \in Seq(Batch), NEW b \in Batch, ds \in P PROVE Append(ds, b) \in P
  <2> DEFINE us == Append(ds, b)
  <2>1. us \in Seq(Batch) /\ us[Len(ds) + 1] = b /\ (\A i \in DOMAIN ds : us[i] = ds[i])
        /\ DOMAIN us = DOMAIN ds \cup {Len(ds) + 1}
    BY LenProperties
  <2>2. Flat(us) = Flat(ds) \o EntriesOf(b) /\ Flat(ds) \in Seq(Entry) /\ EntriesOf(b) \in Seq(Entry)
    BY FlatSteps, FlatType, OutputProperties
  <2> HIDE DEF us
  <2>3. Elems(Flat(us)) = Elems(Flat(ds)) \cup Elems(EntriesOf(b))
    BY <2>2, ConcatElems
  <2>4. UNION {Elems(EntriesOf(us[i])) : i \in DOMAIN us}
            = (UNION {Elems(EntriesOf(ds[i])) : i \in DOMAIN ds}) \cup Elems(EntriesOf(b))
    BY <2>1
  <2>5. us \in P
    BY <1>2, <2>1, <2>3, <2>4
  <2> QED BY <2>5 DEF us
<1> HIDE DEF P
<1>3. Seq(Batch) \subseteq P
  BY <1>1, <1>2, AppendInduction
<1> QED
  BY <1>3 DEF P

LEMMA PrefixLenIs ==
    ASSUME NEW T, NEW n \in Nat, NEW m \in 0..n, 1..m \subseteq T, m < n => (m + 1) \notin T
    PROVE  PrefixLen(T, n) = m
<1> DEFINE p == PrefixLen(T, n)
<1>1. p \in 0..n /\ 1..p \subseteq T /\ (p < n => (p + 1) \notin T)
  BY PrefixLenProperties
<1> HIDE DEF p
<1>2. ~(p < m)
  <2>1. SUFFICES ASSUME p < m PROVE FALSE
    OBVIOUS
  <2>2. p + 1 \in 1..m /\ p < n
    BY <1>1, <2>1
  <2> QED BY <1>1, <2>2
<1>3. ~(m < p)
  <2>1. SUFFICES ASSUME m < p PROVE FALSE
    OBVIOUS
  <2>2. m + 1 \in 1..p /\ m < n
    BY <1>1, <2>1
  <2> QED BY <1>1, <2>2
<1> QED
  BY <1>1, <1>2, <1>3 DEF p

\* The list starts with the first action of the first batch.
LEMMA FlatFirst ==
    ASSUME NEW bs \in Seq(Batch), bs # <<>>
    PROVE  /\ Len(Flat(bs)) > 0
           /\ Flat(bs)[1].done = (bs[1].status = Done)
<1> DEFINE b == bs[1]
           cs == DropFirst(bs, 1)
           es == EntriesOf(b)
<1>1. 1 \in 1..Len(bs) /\ b \in Batch /\ cs \in Seq(Batch) /\ Len(bs) \in Nat
  <2>1. Len(bs) \in Nat /\ Len(bs) # 0
    BY LenProperties, EmptySeq
  <2> QED BY <2>1, ElementOfSeq, PrefixElems
<1>2. bs = <<b>> \o cs
  <2>1. SubSeq(bs, 1, Len(bs)) = <<bs[1]>> \o SubSeq(bs, 2, Len(bs))
    BY <1>1, SubSeqRecursiveFirst
  <2> QED BY <2>1, SubSeqFull DEF DropFirst
<1>3. es \in Seq(Entry) /\ Len(es) = Len(b.actions) /\ b.actions \in Seq(ActionIds) /\ b.actions # <<>>
  BY <1>1, OutputProperties
<1>4. 1 \in 1..Len(es) /\ es[1].done = (b.status = Done)
  <2>1. Len(b.actions) \in Nat /\ Len(b.actions) # 0 /\ DOMAIN b.actions = 1..Len(b.actions)
    BY <1>3, LenProperties, EmptySeq
  <2>2. 1 \in DOMAIN b.actions
    BY <2>1
  <2> QED BY <1>3, <2>1, <2>2 DEF EntriesOf
<1> HIDE DEF b, cs, es
<1>5. Flat(<<b>>) = es
  <2>1. <<b>> = Append(<<>>, b) /\ <<>> \in Seq(Batch)
    BY <1>1, EmptySeq
  <2>2. Flat(Append(<<>>, b)) = Flat(<<>>) \o es
    BY <1>1, <2>1, FlatSteps DEF es
  <2>3. <<>> \o es = es
    BY <1>3, ConcatEmptySeq
  <2> QED BY <2>1, <2>2, <2>3, FlatEmpty
<1>6. Flat(bs) = es \o Flat(cs)
  <2>1. <<b>> \in Seq(Batch)
    BY <1>1
  <2> QED BY <1>1, <1>2, <1>5, <2>1, FlatConcat
<1>7. Flat(cs) \in Seq(Entry)
  BY <1>1, FlatType
<1> DEFINE fs == Flat(cs)
<1>8. fs \in Seq(Entry)
  BY <1>7
<1> HIDE DEF fs
<1>9. Len(es \o fs) = Len(es) + Len(fs) /\ Len(fs) \in Nat /\ Len(es) \in Nat /\ (es \o fs)[1] = es[1]
  <2>1. Len(es \o fs) = Len(es) + Len(fs) /\ Len(fs) \in Nat /\ Len(es) \in Nat
        /\ \A i \in 1..Len(es) : (es \o fs)[i] = es[i]
    BY <1>3, <1>8, ConcatFacts
  <2> QED BY <1>4, <2>1
<1>10. Len(es \o fs) > 0
  BY <1>4, <1>9
<1> QED
  BY <1>4, <1>6, <1>9, <1>10 DEF fs, b

\* What can be released of the flat list is what the completed batches in front of it have.
LEMMA ReleasePrefix ==
    ASSUME NEW bs \in Seq(Batch), NEW k \in 0..Len(bs), \A j \in 1..k : bs[j].status = Done,
           k < Len(bs) => bs[k + 1].status # Done
    PROVE  /\ Promise!ReleasedIds(Flat(bs)) = ActionsIn(SubSeq(bs, 1, k))
           /\ DropFirst(Flat(bs), Promise!ReleasableLen(Flat(bs))) = Flat(DropFirst(bs, k))
<1> DEFINE ps == SubSeq(bs, 1, k)
           qs == DropFirst(bs, k)
           es == Flat(ps)
           fs == Flat(qs)
           m == Len(es)
<1>1. /\ ps \in Seq(Batch) /\ DOMAIN ps = 1..k /\ \A i \in 1..k : ps[i] = bs[i]
      /\ qs \in Seq(Batch) /\ DOMAIN qs = 1..(Len(bs) - k) /\ \A i \in 1..(Len(bs) - k) : qs[i] = bs[k + i]
  BY PrefixElems
<1>0. Len(bs) \in Nat /\ k \in Nat
  BY LenProperties
<1>2. bs = ps \o qs
  <2>1. SubSeq(bs, 1, k) \o SubSeq(bs, k + 1, Len(bs)) = SubSeq(bs, 1, Len(bs))
    <3>1. 1 \in 1..Len(bs) + 1 /\ k \in (1 - 1)..Len(bs) /\ Len(bs) \in k..Len(bs)
      BY <1>0
    <3> QED BY <3>1, ConcatAdjacentSubSeq
  <2> QED BY <2>1, SubSeqFull DEF DropFirst
<1>3. es \in Seq(Entry) /\ fs \in Seq(Entry)
  BY <1>1, FlatType
<1>4. Flat(bs) = es \o fs
  BY <1>1, <1>2, FlatConcat
<1>5. \A i \in 1..m : es[i].done
  <2> HIDE DEF ps
  <2>1. TAKE i \in 1..m
  <2>2. es[i] \in Elems(es)
    BY <1>3, LenProperties DEF Elems
  <2>3. Elems(es) = UNION {Elems(EntriesOf(ps[j])) : j \in DOMAIN ps}
    BY <1>1, FlatElems
  <2> HIDE DEF es
  <2>4. PICK j \in DOMAIN ps : es[i] \in Elems(EntriesOf(ps[j]))
    BY <2>2, <2>3
  <2> DEFINE b == ps[j]
             e == es[i]
  <2>5. b.status = Done /\ e \in Elems(EntriesOf(b))
    BY <1>1, <2>4
  <2> HIDE DEF b, e
  <2>6. PICK x \in DOMAIN b.actions : e = [id |-> b.actions[x], batch |-> b.id, done |-> b.status = Done]
    BY <2>5 DEF Elems, EntriesOf
  <2>7. e.done = (b.status = Done)
    BY <2>6
  <2>8. e.done
    BY <2>5, <2>7
  <2> QED BY <2>8 DEF e
<1>6. fs # <<>> => Len(fs) > 0 /\ ~fs[1].done
  <2>1. SUFFICES ASSUME fs # <<>> PROVE Len(fs) > 0 /\ ~fs[1].done
    OBVIOUS
  <2>2. qs # <<>>
    BY <2>1, FlatEmpty
  <2>3. Len(qs) # 0 /\ Len(qs) \in Nat /\ DOMAIN qs = 1..Len(qs)
    BY <1>1, <2>2, EmptySeq, LenProperties
  <2>4. 1 \in 1..(Len(bs) - k) /\ k < Len(bs)
    BY <1>0, <1>1, <2>3
  <2>5. qs[1].status # Done
    BY <1>0, <1>1, <2>4
  <2> HIDE DEF qs
  <2> QED BY <1>1, <2>2, <2>5, FlatFirst
<1> HIDE DEF ps, qs, es, fs
<1>7. m \in Nat /\ Len(fs) \in Nat /\ es \o fs \in Seq(Entry) /\ Len(es \o fs) = m + Len(fs)
      /\ (\A i \in 1..m : (es \o fs)[i] = es[i]) /\ (\A i \in 1..Len(fs) : (es \o fs)[m + i] = fs[i])
      /\ DOMAIN (es \o fs) = 1..(m + Len(fs))
  BY <1>3, ConcatFacts
<1> DEFINE us == es \o fs
           n == Len(us)
           T == {i \in DOMAIN us : us[i].done}
<1>12. us \in Seq(Entry) /\ n = m + Len(fs) /\ DOMAIN us = 1..(m + Len(fs))
      /\ (\A i \in 1..m : us[i] = es[i]) /\ (\A i \in 1..Len(fs) : us[m + i] = fs[i])
  BY <1>7
<1> HIDE DEF m, us
<1>8. Promise!ReleasableLen(us) = m
  <2>1. 1..m \subseteq T /\ m \in 0..n
    BY <1>5, <1>7, <1>12
  <2>2. m < n => (m + 1) \notin T
    <3>1. SUFFICES ASSUME m < n PROVE ~us[m + 1].done
      OBVIOUS
    <3>2. fs # <<>>
      BY <1>3, <1>7, <1>12, <3>1, EmptySeq
    <3>3. 1 \in 1..Len(fs)
      BY <1>6, <1>7, <3>2
    <3>4. us[m + 1] = fs[1]
      BY <1>12, <3>3
    <3> QED BY <1>6, <3>2, <3>4
  <2>3. n \in Nat
    BY <1>7, <1>12
  <2>4. PrefixLen(T, n) = m
    <3> HIDE DEF T, n
    <3> QED BY <2>1, <2>2, <2>3, PrefixLenIs
  <2> QED BY <2>4 DEF Promise!ReleasableLen, Promise!PrefixLen, PrefixLen
<1>9. Promise!ReleasedIds(us) = Ids(es)
  <2>1. Promise!ReleasedIds(us) = [i \in 1..m |-> us[i].id]
    BY <1>8 DEF Promise!ReleasedIds
  <2>2. DOMAIN es = 1..m
    BY <1>3, LenProperties DEF m
  <2> QED BY <1>12, <2>1, <2>2 DEF Ids
<1>10. Ids(es) = ActionsIn(ps)
  BY <1>1, CompletedFlat DEF es
<1>11. DropFirst(us, m) = fs
  <2> DEFINE d == DropFirst(us, m)
  <2>1. m \in 0..Len(us)
    BY <1>7, <1>12
  <2>2. d \in Seq(Entry) /\ DOMAIN d = 1..(Len(us) - m) /\ \A i \in 1..(Len(us) - m) : d[i] = us[m + i]
    <3>1. us \in Seq(Entry)
      BY <1>12
    <3>2. /\ DropFirst(us, m) \in Seq(Entry) /\ DOMAIN DropFirst(us, m) = 1..(Len(us) - m)
          /\ \A i \in 1..(Len(us) - m) : DropFirst(us, m)[i] = us[m + i]
      BY <2>1, <3>1, PrefixElems
    <3> QED BY <3>2
  <2> HIDE DEF d
  <2>3. Len(d) = Len(fs)
    BY <1>7, <1>12, <2>2, LenProperties
  <2>4. \A i \in 1..Len(d) : d[i] = fs[i]
    BY <1>7, <1>12, <2>2, <2>3
  <2> QED BY <1>3, <2>2, <2>3, <2>4, SeqEqual DEF d
<1> QED
  BY <1>4, <1>8, <1>9, <1>10, <1>11 DEF ps, qs, fs, us

-----------------------------------------------------------------------------
(***************************************************************************)
(* The invariant.  A batch is named by its first action, no action is in   *)
(* two batches, and the first batch is never a completed one.              *)
(***************************************************************************)
TypeInv == batches \in Seq(Batch) /\ queued \in Seq(ActionIds)
NamedByFirst == \A i \in DOMAIN batches : batches[i].id = batches[i].actions[1]
Disjoint ==
    \A i, j \in DOMAIN batches :
        i # j => ActionIdsOf(batches[i]) \cap ActionIdsOf(batches[j]) = {}
FirstIsPending == batches # <<>> => batches[1].status = Pending
QueueInv == TypeInv /\ NamedByFirst /\ Disjoint /\ FirstIsPending

PromiseStep == Promise!Next \/ UNCHANGED Promise!vars

LEMMA BatchFacts ==
    ASSUME QueueInv
    PROVE  /\ Len(batches) \in Nat /\ DOMAIN batches = 1..Len(batches)
           /\ \A i \in DOMAIN batches :
                 /\ batches[i] \in Batch /\ batches[i].id \in ActionIdsOf(batches[i])
                 /\ 1 \in DOMAIN batches[i].actions
           /\ \A i, j \in DOMAIN batches : batches[i].id = batches[j].id => i = j
<1>1. Len(batches) \in Nat /\ DOMAIN batches = 1..Len(batches)
      /\ \A i \in DOMAIN batches : batches[i] \in Batch
  BY LenProperties, ElementOfSeq DEF QueueInv, TypeInv
<1>2. ASSUME NEW i \in DOMAIN batches
      PROVE  batches[i].id \in ActionIdsOf(batches[i]) /\ 1 \in DOMAIN batches[i].actions
  <2> DEFINE b == batches[i]
             acts == b.actions
  <2>1. acts \in Seq(ActionIds) /\ acts # <<>>
    BY <1>1, OutputProperties
  <2> HIDE DEF acts
  <2>2. 1 \in DOMAIN acts
    <3>1. Len(acts) \in Nat /\ DOMAIN acts = 1..Len(acts)
      BY <2>1, LenProperties
    <3>2. Len(acts) # 0
      BY <2>1, EmptySeq
    <3>3. 1 \in 1..Len(acts)
      BY <3>1, <3>2
    <3> QED BY <3>1, <3>3
  <2>3. b.id = acts[1]
    BY DEF QueueInv, NamedByFirst, acts
  <2> QED BY <2>2, <2>3 DEF ActionIdsOf, Elems, acts
<1>3. \A i, j \in DOMAIN batches : batches[i].id = batches[j].id => i = j
  BY <1>2 DEF QueueInv, Disjoint
<1> QED
  BY <1>1, <1>2, <1>3

LEMMA InitInv == Init => QueueInv /\ Promise!Init
<1>1. SUFFICES ASSUME Init PROVE QueueInv /\ Promise!Init
  OBVIOUS
<1>2. batches = <<>> /\ queued = <<>>
  BY <1>1 DEF Init
<1>3. QueueInv
  BY <1>2, EmptySeq DEF QueueInv, TypeInv, NamedByFirst, Disjoint, FirstIsPending
<1>4. FlatEntries = <<>>
  BY <1>2, FlatEmpty DEF FlatEntries, Flat, EntriesOf
<1> QED
  BY <1>2, <1>3, <1>4 DEF Promise!Init

LEMMA FlatEntriesIs == FlatEntries = Flat(batches)
BY DEF FlatEntries, Flat, EntriesOf

LEMMA InsertStep ==
    ASSUME QueueInv, NEW output \in Outputs, InsertBatch(output)
    PROVE  QueueInv' /\ PromiseStep
<1> DEFINE b == [id |-> output[1], status |-> Pending, actions |-> output]
           n == Len(batches)
<1>1. output \in Seq(ActionIds) /\ output # <<>>
  BY OutputsAssumption
<1>2. 1 \in DOMAIN output /\ output[1] \in ActionIds
  BY <1>1, LenProperties, EmptySeq
<1>3. b \in Batch
  BY <1>2 DEF Batch
<1>4. batches \in Seq(Batch) /\ queued \in Seq(ActionIds) /\ batches' = Append(batches, b) /\ queued' = queued
      /\ output \in Outputs /\ Elems(output) \cap Received = {}
  BY DEF QueueInv, TypeInv, InsertBatch
<1>5. b.id = output[1] /\ b.status = Pending /\ b.actions = output
  OBVIOUS
<1> HIDE DEF b
<1>6. batches' \in Seq(Batch) /\ batches'[n + 1] = b /\ (\A i \in 1..n : batches'[i] = batches[i])
      /\ DOMAIN batches' = 1..(n + 1) /\ DOMAIN batches = 1..n /\ n \in Nat /\ Len(batches') = n + 1
  BY <1>3, <1>4, AppendProperties, LenProperties
<1>7. \A i \in 1..n : ActionIdsOf(batches[i]) \cap Elems(output) = {}
  BY <1>4, <1>6 DEF Received
<1> HIDE DEF n
<1>8. QueueInv'
  <2>1. TypeInv'
    BY <1>4, <1>6 DEF TypeInv
  <2>2. NamedByFirst'
    <3>1. \A i \in 1..(n + 1) : i \in 1..n \/ i = n + 1
      BY <1>6
    <3> QED BY <1>5, <1>6, <3>1 DEF QueueInv, NamedByFirst
  <2>3. Disjoint'
    <3>1. \A i \in 1..(n + 1) : i \in 1..n \/ i = n + 1
      BY <1>6
    <3>2. ActionIdsOf(b) = Elems(output)
      BY <1>5 DEF ActionIdsOf
    <3>3. \A i, j \in 1..n : i # j => ActionIdsOf(batches[i]) \cap ActionIdsOf(batches[j]) = {}
      BY <1>6 DEF QueueInv, Disjoint
    <3>4. ASSUME NEW i \in 1..(n + 1), NEW j \in 1..(n + 1), i # j
          PROVE  ActionIdsOf(batches'[i]) \cap ActionIdsOf(batches'[j]) = {}
      <4>1. CASE i \in 1..n /\ j \in 1..n
        BY <1>6, <3>3, <3>4, <4>1
      <4>2. CASE i \in 1..n /\ j = n + 1
        BY <1>6, <1>7, <3>2, <4>2
      <4>3. CASE i = n + 1 /\ j \in 1..n
        BY <1>6, <1>7, <3>2, <4>3
      <4> QED BY <3>1, <3>4, <4>1, <4>2, <4>3
    <3>5. Disjoint' = \A i, j \in DOMAIN batches' :
              i # j => ActionIdsOf(batches'[i]) \cap ActionIdsOf(batches'[j]) = {}
      BY DEF Disjoint, ActionIdsOf
    <3> QED BY <1>6, <3>4, <3>5
  <2>4. FirstIsPending'
    <3>1. batches'[1].status = Pending
      <4>1. CASE n = 0
        BY <1>5, <1>6, <4>1
      <4>2. CASE n # 0
        <5>1. 1 \in 1..n /\ batches # <<>>
          BY <1>4, <1>6, <4>2, EmptySeq DEF n
        <5> QED BY <1>6, <5>1 DEF QueueInv, FirstIsPending
      <4> QED BY <4>1, <4>2
    <3> QED BY <3>1 DEF FirstIsPending
  <2> QED BY <2>1, <2>2, <2>3, <2>4 DEF QueueInv
<1>9. Promise!Insert(output)
  <2>1. FlatEntries' = FlatEntries \o EntriesOf(b)
    <3>1. Flat(Append(batches, b)) = Flat(batches) \o EntriesOf(b)
      BY <1>3, <1>4, FlatSteps
    <3>2. FlatEntries' = Flat(batches')
      BY DEF FlatEntries, Flat, EntriesOf
    <3> QED BY <1>4, <3>1, <3>2, FlatEntriesIs
  <2>2. EntriesOf(b) = Promise!Tagged(output)
    <3>1. EntriesOf(b) = [j \in DOMAIN output |-> [id |-> output[j], batch |-> output[1], done |-> Pending = Done]]
      BY <1>5 DEF EntriesOf
    <3>2. (Pending = Done) = FALSE
      BY DEF Pending, Done
    <3> QED BY <3>1, <3>2 DEF Promise!Tagged
  <2>3. Elems(output) \cap (Elems(queued) \cup {FlatEntries[i].id : i \in DOMAIN FlatEntries}) = {}
    <3>1. ASSUME NEW k \in DOMAIN FlatEntries PROVE FlatEntries[k].id \notin Elems(output)
      <4>1. FlatEntries[k] \in Elems(Flat(batches))
        BY <3>1, FlatEntriesIs DEF Elems
      <4>2. PICK i \in DOMAIN batches : FlatEntries[k] \in Elems(EntriesOf(batches[i]))
        BY <1>4, <4>1, FlatElems
      <4> DEFINE c == batches[i]
                 e == FlatEntries[k]
      <4>3. ActionIdsOf(c) \cap Elems(output) = {} /\ e \in Elems(EntriesOf(c))
        BY <1>6, <1>7, <4>2
      <4> HIDE DEF c, e
      <4>4. PICK j \in DOMAIN c.actions : e = [id |-> c.actions[j], batch |-> c.id, done |-> c.status = Done]
        BY <4>3 DEF Elems, EntriesOf
      <4>5. e.id = c.actions[j]
        BY <4>4
      <4>6. e.id \in ActionIdsOf(c)
        BY <4>5 DEF ActionIdsOf, Elems
      <4> QED BY <4>3, <4>6 DEF e
    <3>2. Elems(output) \cap Elems(queued) = {}
      BY <1>4 DEF Received
    <3> QED BY <3>1, <3>2
  <2> QED BY <1>4, <2>1, <2>2, <2>3 DEF Promise!Insert, Promise!Elems, Elems
<1> QED
  BY <1>8, <1>9 DEF PromiseStep, Promise!Next

\* The run of completed batches behind a batch.
LEMMA LastReadyProperties ==
    ASSUME QueueInv, NEW i \in DOMAIN batches
    PROVE  /\ LastReady(i) \in i..Len(batches)
           /\ \A j \in (i + 1)..LastReady(i) : batches[j].status = Done
           /\ LastReady(i) < Len(batches) => batches[LastReady(i) + 1].status = Pending
<1> DEFINE n == Len(batches)
           T == {j \in 1..n : j <= i \/ batches[j].status = Done}
           p == PrefixLen(T, n)
           Ready(k) == /\ \A j \in (i + 1)..k : batches[j].status = Done
                       /\ k < n => batches[k + 1].status = Pending
<1>1. n \in Nat /\ i \in 1..n /\ \A j \in 1..n : batches[j].status \in {Pending, Done}
  BY BatchFacts DEF Batch
<1>2. p \in 0..n /\ 1..p \subseteq T /\ (p < n => (p + 1) \notin T)
  <2> HIDE DEF T, n
  <2> QED BY <1>1, PrefixLenProperties
<1> HIDE DEF p, n
<1>3. p \in i..n
  <2>1. ~(p < i)
    <3>1. SUFFICES ASSUME p < i PROVE FALSE
      OBVIOUS
    <3>2. p + 1 \in 1..n /\ p < n /\ p + 1 <= i
      BY <1>1, <1>2, <3>1
    <3> QED BY <1>2, <3>2
  <2> QED BY <1>1, <1>2, <2>1
<1>4. Ready(p)
  <2>1. ASSUME NEW j \in (i + 1)..p PROVE batches[j].status = Done
    <3>1. j \in 1..p /\ ~(j <= i)
      BY <1>1, <1>3
    <3> QED BY <1>2, <3>1
  <2>2. ASSUME p < n PROVE batches[p + 1].status = Pending
    <3>1. p + 1 \in 1..n
      BY <1>1, <1>3, <2>2
    <3> QED BY <1>1, <1>2, <2>2, <3>1
  <2> QED BY <2>1, <2>2
<1>5. LastReady(i) = CHOOSE k \in i..n : Ready(k)
  BY DEF LastReady, n
<1>6. LastReady(i) \in i..n /\ Ready(LastReady(i))
  <2> HIDE DEF Ready
  <2> QED BY <1>3, <1>4, <1>5
<1> QED
  BY <1>6 DEF n

\* The completion of the batch at position i, in the flat list.
LEMMA CompletionFlat ==
    ASSUME QueueInv, NEW i \in DOMAIN batches, batches[i].status = Pending
    PROVE  LET id == batches[i].id
           IN  /\ id \in Promise!PendingBatches(FlatEntries)
               /\ Promise!Completed(FlatEntries, id) = Flat(Ended(batches, id))
               /\ Ended(batches, id) \in Seq(Batch) /\ Len(Ended(batches, id)) = Len(batches)
               /\ \A j \in DOMAIN batches : Ended(batches, id)[j]
                      = IF j = i THEN [batches[i] EXCEPT !.status = Done] ELSE batches[j]
<1> DEFINE b == batches[i]
           id == b.id
<1>1. batches \in Seq(Batch)
  BY DEF QueueInv, TypeInv
<1>2. Promise!Completed(FlatEntries, id) = Flat(Ended(batches, id))
  BY <1>1, CompletedFlat, FlatEntriesIs
<1>3. Ended(batches, id) \in Seq(Batch) /\ Len(Ended(batches, id)) = Len(batches)
      /\ \A j \in DOMAIN batches : Ended(batches, id)[j] = EndedBatch(batches[j], id)
  <2> HIDE DEF id
  <2> QED BY <1>1, BatchFacts, EndedType
<1>4. \A j \in DOMAIN batches : EndedBatch(batches[j], id)
          = IF j = i THEN [batches[i] EXCEPT !.status = Done] ELSE batches[j]
  BY BatchFacts DEF EndedBatch
<1>5. id \in Promise!PendingBatches(FlatEntries)
  <2>1. 1 \in DOMAIN b.actions /\ b.status = Pending
    BY BatchFacts
  <2> DEFINE e == EntriesOf(b)[1]
  <2>2. e \in Elems(EntriesOf(b)) /\ e = [id |-> b.actions[1], batch |-> b.id, done |-> b.status = Done]
    BY <2>1 DEF Elems, EntriesOf
  <2>3. e.batch = id /\ (e.done = (b.status = Done))
    BY <2>2
  <2>4. ~e.done
    BY <2>1, <2>3 DEF Pending, Done
  <2> HIDE DEF e
  <2>5. e \in Elems(Flat(batches))
    <3>1. Elems(Flat(batches)) = UNION {Elems(EntriesOf(batches[j])) : j \in DOMAIN batches}
      BY <1>1, FlatElems
    <3> QED BY <2>2, <3>1
  <2>6. PICK k \in DOMAIN FlatEntries : e = FlatEntries[k]
    BY <2>5, FlatEntriesIs DEF Elems
  <2>7. k \in {j \in DOMAIN FlatEntries : ~FlatEntries[j].done} /\ FlatEntries[k].batch = id
    BY <2>3, <2>4, <2>6
  <2> HIDE DEF id
  <2> QED BY <2>7 DEF Promise!PendingBatches
<1> QED
  BY <1>2, <1>3, <1>4, <1>5

\* A completion releases the completed batches in front.
LEMMA CompletesIn ==
    ASSUME QueueInv, NEW i \in DOMAIN batches, batches[i].status = Pending,
           NEW cs, cs = Ended(batches, batches[i].id), NEW k \in 0..Len(batches),
           \A j \in 1..k : cs[j].status = Done,
           k < Len(batches) => cs[k + 1].status = Pending,
           batches' = DropFirst(cs, k), queued' = queued \o ActionsIn(SubSeq(cs, 1, k))
    PROVE  PromiseStep
<1> DEFINE id == batches[i].id
           es == Promise!Completed(FlatEntries, id)
<1>1. /\ id \in Promise!PendingBatches(FlatEntries) /\ es = Flat(cs)
      /\ cs \in Seq(Batch) /\ Len(cs) = Len(batches)
  BY CompletionFlat
<1>2. id \in ActionIds
  BY BatchFacts DEF Batch
<1> HIDE DEF es, id
<1>3. /\ Promise!ReleasedIds(es) = ActionsIn(SubSeq(cs, 1, k))
      /\ DropFirst(es, Promise!ReleasableLen(es)) = Flat(DropFirst(cs, k))
  <2>1. k < Len(cs) => cs[k + 1].status # Done
    BY <1>1 DEF Pending, Done
  <2>2. k \in 0..Len(cs)
    BY <1>1
  <2> QED BY <1>1, <2>1, <2>2, ReleasePrefix
<1>4. queued' = queued \o Promise!ReleasedIds(es)
  BY <1>3
<1>5. FlatEntries' = Promise!DropFirst(es, Promise!ReleasableLen(es))
  <2>1. FlatEntries' = Flat(batches')
    BY DEF FlatEntries, Flat, EntriesOf
  <2>2. DropFirst(es, Promise!ReleasableLen(es)) = Promise!DropFirst(es, Promise!ReleasableLen(es))
    BY DEF DropFirst, Promise!DropFirst
  <2> QED BY <1>3, <2>1, <2>2
<1>6. Promise!Complete(id)
  BY <1>1, <1>4, <1>5 DEF Promise!Complete, es
<1> QED
  BY <1>2, <1>6 DEF PromiseStep, Promise!Next

LEMMA MarkDoneStep ==
    ASSUME QueueInv, NEW i \in DOMAIN batches, batches[i].status = Pending, MarkDone(i)
    PROVE  QueueInv' /\ PromiseStep
<1> DEFINE cs == Ended(batches, batches[i].id)
<1>1. /\ cs \in Seq(Batch) /\ Len(cs) = Len(batches)
      /\ \A j \in DOMAIN batches :
            cs[j] = IF j = i THEN [batches[i] EXCEPT !.status = Done] ELSE batches[j]
  BY CompletionFlat
<1>2. Len(batches) \in Nat /\ DOMAIN batches = 1..Len(batches) /\ batches \in Seq(Batch)
      /\ \A j \in DOMAIN batches : batches[j] \in Batch
  BY BatchFacts DEF QueueInv, TypeInv
<1> HIDE DEF cs
<1>3. 1 \in DOMAIN batches /\ i # 1 /\ batches[1].status = Pending
  <2>1. PICK j \in 1..(i - 1) : batches[j].status = Pending
    BY DEF MarkDone, HasPendingBefore
  <2>2. 1 \in DOMAIN batches /\ i # 1
    BY <1>2, <2>1
  <2>3. batches # <<>>
    BY <2>2
  <2> QED BY <2>2, <2>3 DEF QueueInv, FirstIsPending
<1>4. batches' = cs /\ queued' = queued
  <2>1. batches' = [batches EXCEPT ![i].status = Done] /\ queued' = queued
    BY DEF MarkDone
  <2>2. batches' = [j \in DOMAIN batches |->
                       IF j = i THEN [batches[i] EXCEPT !.status = Done] ELSE batches[j]]
    BY <1>2, <2>1
  <2>3. DOMAIN cs = DOMAIN batches /\ cs = [j \in DOMAIN cs |-> cs[j]]
    BY <1>1, <1>2, LenProperties
  <2> QED BY <1>1, <2>1, <2>2, <2>3
<1>5. \A j \in DOMAIN batches : cs[j].id = batches[j].id /\ cs[j].actions = batches[j].actions
  BY <1>1, <1>2 DEF Batch
<1>6. cs[1] = batches[1] /\ DOMAIN cs = DOMAIN batches
  BY <1>1, <1>2, <1>3, LenProperties
<1>7. QueueInv'
  <2>1. TypeInv'
    BY <1>1, <1>4 DEF QueueInv, TypeInv
  <2>2. NamedByFirst'
    BY <1>4, <1>5, <1>6 DEF QueueInv, NamedByFirst
  <2>3. Disjoint'
    BY <1>4, <1>5, <1>6 DEF QueueInv, Disjoint, ActionIdsOf
  <2>4. FirstIsPending'
    BY <1>3, <1>4, <1>6 DEF FirstIsPending
  <2> QED BY <2>1, <2>2, <2>3, <2>4 DEF QueueInv
<1>8. PromiseStep
  <2>1. batches' = DropFirst(cs, 0)
    BY <1>1, <1>4, SubSeqFull DEF DropFirst
  <2>2. queued' = queued \o ActionsIn(SubSeq(cs, 1, 0))
    <3>1. SubSeq(cs, 1, 0) = <<>>
      BY <1>1, SubSeqEmpty
    <3>2. queued \o <<>> = queued
      BY ConcatEmptySeq DEF QueueInv, TypeInv
    <3> QED BY <1>4, <3>1, <3>2, FlatEmpty
  <2>3. 0 \in 0..Len(batches) /\ (\A j \in 1..0 : cs[j].status = Done) /\ cs[0 + 1].status = Pending
    BY <1>2, <1>3, <1>6
  <2> QED BY <2>1, <2>2, <2>3, CompletesIn DEF cs
<1> QED
  BY <1>7, <1>8

LEMMA ReleaseStep ==
    ASSUME QueueInv, NEW i \in DOMAIN batches, batches[i].status = Pending, Release(i)
    PROVE  QueueInv' /\ PromiseStep
<1> DEFINE cs == Ended(batches, batches[i].id)
           k == LastReady(i)
           n == Len(batches)
<1>1. /\ cs \in Seq(Batch) /\ Len(cs) = n
      /\ \A j \in DOMAIN batches :
            cs[j] = IF j = i THEN [batches[i] EXCEPT !.status = Done] ELSE batches[j]
  BY CompletionFlat
<1>2. n \in Nat /\ DOMAIN batches = 1..n /\ batches \in Seq(Batch) /\ i \in 1..n
      /\ \A j \in 1..n : batches[j] \in Batch
  BY BatchFacts DEF QueueInv, TypeInv
<1>3. k \in i..n /\ (\A j \in (i + 1)..k : batches[j].status = Done)
      /\ (k < n => batches[k + 1].status = Pending)
  BY LastReadyProperties
<1>4. /\ \A j \in 1..(i - 1) : batches[j].status # Pending
      /\ queued' = queued \o FlattenSeq([j \in 1..k |-> batches[j].actions])
      /\ batches' = DropFirst(batches, k)
  BY DEF Release, HasPendingBefore
<1> HIDE DEF cs, k, n
<1>5. k \in 0..n /\ k \in Nat
  BY <1>2, <1>3
<1>6. \A j \in 1..n : cs[j].actions = batches[j].actions
  BY <1>1, <1>2 DEF Batch
<1>7. \A j \in 1..k : cs[j].status = Done
  <2>1. TAKE j \in 1..k
  <2>2. j \in 1..n
    BY <1>2, <1>3, <1>5
  <2>3. CASE j = i
    BY <1>1, <1>2, <2>2, <2>3 DEF Batch
  <2>4. CASE j < i
    <3>1. batches[j].status # Pending /\ batches[j].status \in {Pending, Done} /\ cs[j] = batches[j]
      <4>1. j \in 1..(i - 1) /\ j # i
        BY <1>2, <2>2, <2>4
      <4> QED BY <1>1, <1>2, <1>4, <2>2, <4>1 DEF Batch
    <3> QED BY <3>1
  <2>5. CASE j > i
    <3>1. j \in (i + 1)..k /\ j # i
      BY <1>2, <1>5, <2>5
    <3> QED BY <1>1, <1>2, <1>3, <2>2, <3>1
  <2> QED BY <1>2, <2>2, <2>3, <2>4, <2>5
<1>8. k < n => cs[k + 1].status = Pending
  <2>1. SUFFICES ASSUME k < n PROVE cs[k + 1].status = Pending
    OBVIOUS
  <2>2. k + 1 \in 1..n /\ k + 1 # i
    BY <1>2, <1>3, <2>1
  <2> QED BY <1>1, <1>2, <1>3, <2>1, <2>2
<1> DEFINE ds == DropFirst(batches, k)
           fs == DropFirst(cs, k)
<1>9. /\ ds \in Seq(Batch) /\ DOMAIN ds = 1..(n - k) /\ \A j \in 1..(n - k) : ds[j] = batches[k + j]
  <2>1. k \in 0..Len(batches)
    BY <1>5 DEF n
  <2>2. /\ DropFirst(batches, k) \in Seq(Batch) /\ DOMAIN DropFirst(batches, k) = 1..(Len(batches) - k)
        /\ \A j \in 1..(Len(batches) - k) : DropFirst(batches, k)[j] = batches[k + j]
    BY <1>2, <2>1, PrefixElems
  <2> QED BY <2>2 DEF n
<1>10. /\ fs \in Seq(Batch) /\ DOMAIN fs = 1..(n - k) /\ \A j \in 1..(n - k) : fs[j] = cs[k + j]
       /\ DOMAIN SubSeq(cs, 1, k) = 1..k /\ \A j \in 1..k : SubSeq(cs, 1, k)[j] = cs[j]
  <2>1. k \in 0..Len(cs)
    BY <1>1, <1>5
  <2>2. /\ DropFirst(cs, k) \in Seq(Batch) /\ DOMAIN DropFirst(cs, k) = 1..(Len(cs) - k)
        /\ \A j \in 1..(Len(cs) - k) : DropFirst(cs, k)[j] = cs[k + j]
        /\ DOMAIN SubSeq(cs, 1, k) = 1..k /\ \A j \in 1..k : SubSeq(cs, 1, k)[j] = cs[j]
    BY <1>1, <2>1, PrefixElems
  <2> QED BY <1>1, <2>2
<1> HIDE DEF ds, fs
<1>11. \A j \in 1..(n - k) : k + j \in 1..n /\ k + j # i
  BY <1>2, <1>3
<1>12. ds = fs
  <2>1. \A j \in 1..(n - k) : ds[j] = fs[j]
    BY <1>1, <1>2, <1>9, <1>10, <1>11
  <2>2. ds = [j \in DOMAIN ds |-> ds[j]] /\ fs = [j \in DOMAIN fs |-> fs[j]]
    BY <1>9, <1>10
  <2> QED BY <1>9, <1>10, <2>1, <2>2
<1>13. PromiseStep
  <2>1. batches' = DropFirst(cs, k)
    BY <1>4, <1>12 DEF ds, fs
  <2>2. ActionsIn(SubSeq(cs, 1, k)) = FlattenSeq([j \in 1..k |-> batches[j].actions])
    <3> DEFINE ps == SubSeq(cs, 1, k)
    <3>0. \A j \in 1..k : j \in 1..n
      BY <1>2, <1>3
    <3>1. DOMAIN ps = 1..k /\ \A j \in 1..k : ps[j].actions = batches[j].actions
      BY <1>6, <1>10, <3>0
    <3> HIDE DEF ps
    <3>2. [j \in DOMAIN ps |-> ps[j].actions] = [j \in 1..k |-> batches[j].actions]
      BY <3>1
    <3> QED BY <3>2 DEF ActionsIn, ps
  <2>3. queued' = queued \o ActionsIn(SubSeq(cs, 1, k))
    BY <1>4, <2>2
  <2>4. k \in 0..Len(batches) /\ (k < Len(batches) => cs[k + 1].status = Pending)
    BY <1>5, <1>8 DEF n
  <2> QED BY <1>7, <2>1, <2>3, <2>4, CompletesIn DEF cs
<1>14. QueueInv'
  <2>1. batches' = ds
    BY <1>4 DEF ds
  <2>2. TypeInv'
    <3> DEFINE ss == [j \in 1..k |-> batches[j].actions]
    <3>1. \A j \in 1..k : batches[j].actions \in Seq(ActionIds)
      BY <1>2, <1>5, OutputProperties
    <3>2. ss \in [1..k -> Seq(ActionIds)]
      BY <3>1
    <3>3. ss \in Seq(Seq(ActionIds))
      BY <1>5, <3>2, SeqDef
    <3> HIDE DEF ss
    <3>4. FlattenSeq(ss) \in Seq(ActionIds)
      BY <3>3, FlattenSteps
    <3>5. queued \o FlattenSeq(ss) \in Seq(ActionIds)
      BY <3>4, ConcatProperties DEF QueueInv, TypeInv
    <3> QED BY <1>4, <1>9, <2>1, <3>5 DEF TypeInv, ss
  <2>3. NamedByFirst'
    BY <1>2, <1>9, <1>11, <2>1 DEF QueueInv, NamedByFirst
  <2>4. Disjoint'
    <3>1. ASSUME NEW j \in 1..(n - k), NEW l \in 1..(n - k), j # l
          PROVE  ActionIdsOf(ds[j]) \cap ActionIdsOf(ds[l]) = {}
      <4>1. k + j # k + l
        BY <1>5, <3>1
      <4> QED BY <1>2, <1>9, <1>11, <4>1 DEF QueueInv, Disjoint
    <3>2. Disjoint' = \A j, l \in DOMAIN batches' :
              j # l => ActionIdsOf(batches'[j]) \cap ActionIdsOf(batches'[l]) = {}
      BY DEF Disjoint, ActionIdsOf
    <3> QED BY <1>9, <2>1, <3>1, <3>2
  <2>5. FirstIsPending'
    <3>1. SUFFICES ASSUME ds # <<>> PROVE ds[1].status = Pending
      BY <2>1 DEF FirstIsPending
    <3>2. Len(ds) # 0 /\ Len(ds) \in Nat /\ DOMAIN ds = 1..Len(ds)
      BY <1>9, <3>1, EmptySeq, LenProperties
    <3>3. 1 \in 1..(n - k) /\ k < n
      BY <1>2, <1>5, <1>9, <3>2
    <3> QED BY <1>3, <1>9, <3>3
  <2> QED BY <2>2, <2>3, <2>4, <2>5 DEF QueueInv
<1> QED
  BY <1>13, <1>14

LEMMA QueueStep == QueueInv /\ [Next]_vars => QueueInv' /\ PromiseStep
<1>1. SUFFICES ASSUME QueueInv, [Next]_vars PROVE QueueInv' /\ PromiseStep
  OBVIOUS
<1>2. CASE \E output \in Outputs : InsertBatch(output)
  BY <1>1, <1>2, InsertStep
<1>3. CASE \E i \in DOMAIN batches : HandlePreprocessActionsResult(i)
  BY <1>1, <1>3, MarkDoneStep, ReleaseStep DEF HandlePreprocessActionsResult
<1>4. CASE UNCHANGED vars
  <2>1. FlatEntries' = FlatEntries
    BY <1>4 DEF vars, FlatEntries
  <2>2. QueueInv'
    BY <1>1, <1>4 DEF vars, QueueInv, TypeInv, NamedByFirst, Disjoint, FirstIsPending, ActionIdsOf
  <2> QED BY <1>4, <2>1, <2>2 DEF vars, PromiseStep, Promise!vars
<1> QED
  BY <1>1, <1>2, <1>3, <1>4 DEF Next

-----------------------------------------------------------------------------
(***************************************************************************)
(* The queue of batches is safe to use as a queue of actions: every step   *)
(* of insert_preprocess_action_batch and of                                *)
(* handle_preprocess_actions_result is a step of the promise, so actions   *)
(* come out once, in the order of their insertion, and each as soon as     *)
(* nothing before it is outstanding, whatever the order of completion.     *)
(***************************************************************************)
THEOREM QueueKeepsItsPromise ==
    Spec => Promise!Init /\ [][Promise!Next]_(Promise!vars)
<1>1. Init => QueueInv /\ Promise!Init
  BY InitInv
<1>2. QueueInv /\ [Next]_vars => QueueInv' /\ [Promise!Next]_(Promise!vars)
  BY QueueStep DEF PromiseStep
<1> QED
  BY <1>1, <1>2, PTL DEF Spec
=============================================================================
