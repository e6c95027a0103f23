--------------------------- MODULE StreamContract ---------------------------
(***************************************************************************)
(* What the controller of a conversation is promised by a response stream, *)
(* whatever happens to the attempts behind it: it answers or fails once,   *)
(* may report in between that it waits for the network, and ends once.     *)
(* These are the steps of a stream in BlocklistController.                 *)
(***************************************************************************)

VARIABLES
    phase,          \* what the events of the stream told the controller
    resumes,        \* should_resume_conversation_after_stream_finished
    resumable       \* can_attempt_resume_on_error

vars == <<phase, resumes, resumable>>

Phases  == {"Open", "Waiting", "Completed", "Failed", "Ended", "Cancelled"}
Settled == {"Ended", "Cancelled"}

Init ==
    /\ phase = "Open"
    /\ resumes = FALSE
    /\ resumable \in BOOLEAN

Moves(from, to) == phase \in from /\ phase' = to /\ UNCHANGED <<resumes, resumable>>

Waits     == Moves({"Open"}, "Waiting")
Returns   == Moves({"Waiting"}, "Open")
Completes == Moves({"Open"}, "Completed")
Ends      == Moves({"Completed", "Failed"}, "Ended")
Cancels   == Moves(Phases \ Settled, "Cancelled")

\* A failure that no retry repairs; only a stream that may be resumed is.
Fails(next) ==
    /\ phase = "Open"
    /\ phase' = next
    /\ resumes' \in {FALSE, resumable}
    /\ UNCHANGED resumable

Next ==
    \/ Waits
    \/ Returns
    \/ Completes
    \/ Fails("Failed")
    \/ Fails("Ended")   \* the failure found at the end of the stream
    \/ Ends
    \/ Cancels

Spec == Init /\ [][Next]_vars
=============================================================================
