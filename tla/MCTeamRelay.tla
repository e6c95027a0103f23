----------------------------- MODULE MCTeamRelay -----------------------------
(***************************************************************************)
(* An instance of TeamRelay for TLC: w is a word, r is repeated, c and d   *)
(* are commands, t1 and t2 calls of connected servers, t3 of an unknown    *)
(* one, t4 an earlier call, t0 one that only its result is left of.        *)
(***************************************************************************)
EXTENDS TeamRelay

CONSTANTS w, r, c, d, q1, q2, t0, t1, t2, t3, t4

MCCommands  == {c, d}
MCQueries   == {<<q1>>, <<q2>>}
MCConnected == {t1, t2}
MCHistories ==
    {<<>>,
     <<[kind |-> "Query", text |-> <<w>>], [kind |-> "Result", id |-> t0, text |-> <<w>>],
       [kind |-> "Executed"]>>,
     <<[kind |-> "Query", text |-> <<w>>], [kind |-> "Call", id |-> t4],
       [kind |-> "Result", id |-> t4, text |-> <<w>>],
       [kind |-> "Result", id |-> t0, text |-> <<w>>]>>}
MCReplies ==
    {[text |-> <<w, c>>, calls |-> <<>>],
     [text |-> <<c, d>>, calls |-> <<>>],
     [text |-> <<w, w>>, calls |-> <<t1>>],
     [text |-> <<>>, calls |-> <<t1, t2>>],
     [text |-> <<w>>, calls |-> <<t3>>],
     [text |-> <<w, r, r, r, c>>, calls |-> <<t2>>]}
=============================================================================
