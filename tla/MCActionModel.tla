--------------------------- MODULE MCActionModel ---------------------------
(***************************************************************************)
(* Instances of ActionModel for TLC.  The names of the actions say what    *)
(* the executors answer about them in most instances: p1 and p2 are        *)
(* read-only, s1 has its result at once, r1 and r2 are commands.           *)
(***************************************************************************)
EXTENDS ActionModel

CONSTANTS c1, c2, p1, p2, s1, r1, r2

OneConversation  == {c1}

MCCommands == {r1, r2} \cap ActionIds

\* The answers of executors that let the actions in auto run by themselves.
Answers(auto) ==
    [auto |-> auto \cap ActionIds, parallel |-> {p1, p2} \cap ActionIds,
     sync |-> {s1} \cap ActionIds, ready |-> ActionIds]

(***************************************************************************)
(* Permissions and capabilities that change: p2 stops being parallel, p1   *)
(* comes to need consent, r1 comes to run by itself but is not ready.      *)
(***************************************************************************)
MixedIds      == {p1, p2, s1, r1}
MixedOutputs  == [c \in {c1} |-> {<<p1, p2, r1>>, <<s1>>}]
MixedSettings == {Answers({p1, p2, s1}),
                  [auto |-> {p2, r1}, parallel |-> {p1}, sync |-> {s1},
                   ready |-> {p1, p2, s1}]}
=============================================================================
