-------------------------- MODULE MCPreprocessQueue --------------------------
(***************************************************************************)
(* Four batches, one of them with two actions, so that two completed       *)
(* batches can wait behind a pending one and others can follow it.         *)
(***************************************************************************)
EXTENDS PreprocessQueue

CONSTANTS a1, a2, a3, a4, a5

MCActionIds == {a1, a2, a3, a4, a5}
MCOutputs   == {<<a1>>, <<a2, a3>>, <<a4>>, <<a5>>}
=============================================================================
