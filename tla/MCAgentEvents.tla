---------------------------- MODULE MCAgentEvents ----------------------------
(***************************************************************************)
(* Instances of AgentEvents for TLC, with two children.                    *)
(***************************************************************************)
EXTENDS AgentEvents

CONSTANTS a, b

Message(sender) == [kind |-> "Message", sender |-> sender]
Status(sender) == [kind |-> "Status", sender |-> sender]
Critical(sender) == [kind |-> "Critical", sender |-> sender]
Other(sender) == [kind |-> "Other", sender |-> sender]

MCAllTypes == {Message(a), Status(a), Status(b), Critical(a), Critical(b), Other(b)}

\* A message and a life cycle event of its sender in either order, a status that another
\* supersedes, one that does not, and one next to an event that nothing supersedes.
PairLogs == {<<Message(a), Status(a)>>, <<Status(a), Status(a)>>, <<Status(a), Status(b)>>,
             <<Status(b), Critical(b)>>, <<Critical(b), Message(a)>>}

SingleLogs == [1..1 -> MCAllTypes]
=============================================================================
