---------------------------- MODULE MCSyncQueue ----------------------------
(***************************************************************************)
(* Instances of SyncQueue: an enum with the workflow that refers to it,    *)
(* a notebook, a fact, and two preferences.                                *)
(***************************************************************************)
EXTENDS SyncQueue, TLC

CONSTANTS aNotebook, aWorkflow, anEnum, aFact, aSetting, anotherSetting

TheReference == [o \in {aWorkflow} |-> {anEnum}]

\* Objects that neither refer to each other nor are created together meet in no run.
Groups   == {aWorkflow, anEnum} :> 3 @@ {aNotebook} :> 3 @@ {aFact} :> 3 @@ {aSetting, anotherSetting} :> 2
TwoItems == {aWorkflow, anEnum} :> 2
FourItems == {aWorkflow, anEnum} :> 4
=============================================================================
