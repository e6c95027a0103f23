---------------------------- MODULE OrderedSeqs ----------------------------
(***************************************************************************)
(* Operators on sequences used by the queue models, written without        *)
(* recursion so that facts about them can be proved: the SelectSeq and     *)
(* SortSeq of the libraries are recursive or take an operator parameter,   *)
(* which the provers cannot expand.                                        *)
(***************************************************************************)
EXTENDS Integers, Sequences, FiniteSets

\* The elements of a sequence.
Elems(s) == {s[i] : i \in DOMAIN s}

\* No element occurs twice.
Injective(s) == \A i, j \in DOMAIN s : s[i] = s[j] => i = j

\* The length of the longest prefix 1..m of 1..n that lies inside T.
PrefixLen(T, n) ==
    CHOOSE m \in 0..n : /\ 1..m \subseteq T
                        /\ m < n => (m + 1) \notin T

\* s without its first n elements.
DropFirst(s, n) == SubSeq(s, n + 1, Len(s))

\* s without the element at position i (VecDeque::remove).
RemoveIndex(s, i) == SubSeq(s, 1, i - 1) \o SubSeq(s, i + 1, Len(s))

\* The position of x in s.
PositionOf(x, s) == CHOOSE i \in DOMAIN s : s[i] = x

(***************************************************************************)
(* The k-th element of K, where R is a strict total order of K given as a  *)
(* set of pairs.                                                           *)
(***************************************************************************)
Nth(K, R, k) ==
    CHOOSE x \in K : Cardinality({y \in K : <<y, x>> \in R}) = k - 1

\* The elements of s that are in S, in their order in s.
Filter(s, S) ==
    LET K == {i \in DOMAIN s : s[i] \in S}
        R == {p \in K \X K : p[1] < p[2]}
    IN  [k \in 1..Cardinality(K) |-> s[Nth(K, R, k)]]

\* s sorted by key (a function from the positions of s), equal keys keeping
\* their order, as slice::sort_by_key does.
StableSort(s, key) ==
    LET K == DOMAIN s
        R == {p \in K \X K : \/ key[p[1]] < key[p[2]]
                             \/ key[p[1]] = key[p[2]] /\ p[1] < p[2]}
    IN  [k \in K |-> s[Nth(K, R, k)]]

\* The sequences that list every element of the finite set S once.
Orderings(S) == {s \in [1..Cardinality(S) -> S] : Injective(s)}
=============================================================================
