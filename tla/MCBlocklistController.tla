----------------------- MODULE MCBlocklistController -----------------------
(***************************************************************************)
(* Instances of BlocklistController for TLC: p1 and p2 are read-only and   *)
(* run by themselves, s1 has its result at once, r1 and r2 are commands    *)
(* that need consent.                                                      *)
(***************************************************************************)
EXTENDS BlocklistController

CONSTANTS c1, p1, p2, s1, r1, r2

MCCommands == {r1, r2}
MCIds      == {p1, p2, s1, r1, r2}
MCSettings == {[auto |-> {p1, p2, s1}, parallel |-> {p1, p2}, sync |-> {s1}, ready |-> MCIds]}

\* Two actions that run together and then two commands; a synchronous action.
TurnOutputs == [c \in {c1} |-> {<<p1, p2, r1, r2>>, <<s1>>}]

\* An action that runs by itself.
StopOutputs == [c \in {c1} |-> {<<p1>>}]

\* A command that needs consent, and an action that has its result at once.
MixedOutputs == [c \in {c1} |-> {<<r1, s1>>}]
=============================================================================
