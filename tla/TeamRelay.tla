------------------------------ MODULE TeamRelay ------------------------------
(***************************************************************************)
(* A conversation with the relay, the transport of the default build:      *)
(* stream_chat_completion in app/src/ai/team_relay/mod.rs and its caller   *)
(* generate_multi_agent_output in app/src/ai/agent/api/impl.rs.  Each      *)
(* request is assembled from the messages of the conversation's task; the  *)
(* reply is streamed into that task, and the results of its tools are the  *)
(* input of the next request.                                              *)
(*                                                                         *)
(* The relay is external.  It sends a text as deltas or as snapshots of    *)
(* the whole, and its tool calls by index or in one message; it may fail   *)
(* at any point.  What the client does with a reply (the task's messages,  *)
(* the follow-up with all results) is that of ActionModel and              *)
(* BlocklistController, taken as one step.                                 *)
(***************************************************************************)
EXTENDS RelayMessages, FiniteSets

CONSTANTS
    Queries,        \* what the user may ask, as texts
    Replies,        \* what the relay may answer: [text, calls]
    Histories,      \* the messages a conversation may be restored with
    Connected,      \* the tool calls whose MCP server is known
    Done, Stopped,  \* the token of a result and of that of a cancelled tool
    Notice,         \* the token of a notice the client adds to the answer
    MaxRequests     \* bound: the requests of a conversation

ASSUME MaxRequestsAssumption == MaxRequests \in Nat
VARIABLES
    phase,          \* of the client: idle, streaming, running tools, failed
    history,        \* the messages of the conversation's task
    request,        \* the messages of the latest request
    inputs,         \* the tool results and summaries sent with it
    requests,       \* how many requests were sent
    asked,          \* the queries the relay received so far
    given,          \* the tools whose results it received so far
    reply,          \* what the relay is answering
    mode,           \* how it sends it: deltas or snapshots
    sent,           \* how many tokens it has sent
    named, argued,  \* the calls it has sent the names, the arguments of
    accumulated,    \* the text received
    slots,          \* tool_calls: what is known of each call
    halted,         \* halt_repetition
    ran             \* the calls and the commands the reply led to

sending == <<request, inputs, requests, asked, given, reply, mode>>
vars == <<phase, history, sending, sent, named, argued, accumulated, slots,
          halted, ran>>

NoInputs == [results |-> <<>>, summaries |-> <<>>]
NoReply  == [text |-> <<>>, calls |-> <<>>]
NoRuns   == [calls |-> <<>>, commands |-> <<>>]

\* A slot of tool_calls; args counts the copies of its arguments.
EmptySlot == [id |-> NoId, args |-> 0]

Init ==
    /\ phase = "Idle"
    /\ history \in Histories
    /\ request = <<>>
    /\ inputs = NoInputs
    /\ requests = 0
    /\ asked = {}
    /\ given = {}
    /\ reply = NoReply
    /\ mode = "Delta"
    /\ sent = 0
    /\ named = {} /\ argued = {}
    /\ accumulated = <<>>
    /\ slots = <<>>
    /\ halted = FALSE
    /\ ran = NoRuns

-----------------------------------------------------------------------------
(* The request.                                                            *)

\* The text of the reply is a message of the task, filled as it arrives.
WithOutput(text) == Append(history, [kind |-> "Output", text |-> text])

\* What came of the calls and commands of the last reply.
InputsOf(outcome) ==
    [results |-> [k \in DOMAIN ran.calls |-> [id |-> ran.calls[k], text |-> <<outcome>>]],
     summaries |-> [k \in DOMAIN ran.commands |-> <<outcome>>]]

\* The request goes out; the reply starts with an empty message of the task.
Send(query, next) ==
    /\ requests < MaxRequests
    /\ requests' = requests + 1
    /\ request' = Assemble(ExtractHistory(history), query, next.results, next.summaries)
    /\ inputs' = next
    /\ \/ /\ phase' = "Streaming"
          /\ history' = WithOutput(<<>>)
          /\ asked' = asked \cup ({query} \ {NoText})
          /\ given' = given \cup {next.results[k].id : k \in DOMAIN next.results}
       \/ /\ phase' = "Failed"    \* no connection, or refused
          /\ UNCHANGED <<history, asked, given>>
    /\ reply' \in Replies
    /\ mode' \in {"Delta", "Snapshot"}
    /\ sent' = 0
    /\ named' = {} /\ argued' = {}
    /\ accumulated' = <<>>
    /\ slots' = <<>>
    /\ halted' = FALSE
    /\ ran' = NoRuns

Ask ==
    /\ phase \in {"Idle", "Failed"}
    /\ \E query \in Queries : Send(query, NoInputs)

FollowUp ==
    /\ phase = "Acting"
    /\ Send(NoText, InputsOf(Done))

\* A query while tools run: they are cancelled, their results go along.
Interrupt ==
    /\ phase = "Acting"
    /\ \E query \in Queries : Send(query, InputsOf(Stopped))

(***************************************************************************)
(* ResumeConversation after a failure: an input without a user message and *)
(* without tool results is refused before anything is sent.                *)
(***************************************************************************)
Resume ==
    /\ phase = "Failed"
    /\ phase' = "Idle"
    /\ UNCHANGED <<history, sending, sent, named, argued, accumulated, slots,
                   halted, ran>>

-----------------------------------------------------------------------------
(* The reply.                                                              *)

\* A text of which the last tokens are the same.
IsDegenerateTail(text) ==
    /\ Len(text) >= RepeatLimit
    /\ \A k \in Len(text) - RepeatLimit + 1 .. Len(text) : text[k] = Last(text)

\* The answer in the task grows with the text received.
Grown(text, notice) ==
    [history EXCEPT ![Len(history)].text = text \o (IF notice THEN <<Notice>> ELSE <<>>)]

\* Mutant: a snapshot is taken for a delta.
DeltaAlways(incoming) == incoming

\* incremental_text_delta: what is new in the incoming text.
IncrementalTextDelta(incoming) ==
    IF incoming = accumulated THEN <<>>
    ELSE IF accumulated # <<>> /\ IsPrefix(accumulated, incoming)
    THEN SubSeq(incoming, Len(accumulated) + 1, Len(incoming))
    ELSE incoming

\* A frame with text: some further tokens, or the text up to them.
TextFrame ==
    /\ phase = "Streaming" /\ ~halted
    /\ \E upTo \in sent + 1 .. Len(reply.text) :
        LET from == IF mode = "Snapshot" THEN 1 ELSE sent + 1
            text == accumulated \o IncrementalTextDelta(SubSeq(reply.text, from, upTo))
        IN  /\ sent' = upTo
            /\ accumulated' = text
            /\ halted' = (text # accumulated /\ IsDegenerateTail(text))
            /\ history' = Grown(text, halted')
    /\ UNCHANGED <<phase, sending, named, argued, slots, ran>>

\* Mutant: a delta goes to the last slot whatever its index.
LastSlot(k) == IF slots = <<>> THEN 1 ELSE Len(slots)

\* The slot of the k-th call: the index of its deltas.
SlotOf(k) == k

\* tool_calls, with slots up to the given one.
Padded(count) ==
    [k \in 1..(IF count > Len(slots) THEN count ELSE Len(slots)) |->
        IF k \in DOMAIN slots THEN slots[k] ELSE EmptySlot]

\* A delta with the identifier and the name of the k-th call.
CallFrame ==
    /\ phase = "Streaming" /\ ~halted /\ mode = "Delta"
    /\ \E k \in DOMAIN reply.calls \ named :
        /\ named' = named \cup {k}
        /\ slots' = [Padded(SlotOf(k)) EXCEPT ![SlotOf(k)].id = reply.calls[k]]
    /\ UNCHANGED <<phase, history, sending, sent, argued, accumulated, halted, ran>>

\* A delta with the arguments of the k-th call, which was named before.
ArgumentsFrame ==
    /\ phase = "Streaming" /\ ~halted /\ mode = "Delta"
    /\ \E k \in named \ argued :
        /\ argued' = argued \cup {k}
        /\ slots' = [slots EXCEPT ![SlotOf(k)].args = @ + 1]
    /\ UNCHANGED <<phase, history, sending, sent, named, accumulated, halted, ran>>

\* One message with all calls.
CallsFrame ==
    /\ phase = "Streaming" /\ ~halted /\ mode = "Snapshot"
    /\ named # DOMAIN reply.calls
    /\ named' = DOMAIN reply.calls
    /\ argued' = DOMAIN reply.calls
    /\ slots' = [k \in DOMAIN reply.calls |-> [id |-> reply.calls[k], args |-> 1]]
    /\ UNCHANGED <<phase, history, sending, sent, accumulated, halted, ran>>

\* The named calls whose server is connected, in the order of their slots.
CompletedCalls ==
    LET called == SelectSeq(slots, LAMBDA slot : slot.id \in Connected)
    IN  [k \in DOMAIN called |-> called[k].id]

\* The answer is nothing, or calls of which none is connected.
NeedsNotice ==
    /\ CompletedCalls = <<>>
    /\ accumulated = <<>> \/ \E k \in DOMAIN slots : slots[k].id # NoId

\* known_shell_commands
KnownCommands ==
    LET spoken == {k \in DOMAIN request : request[k].content # NoText}
    IN  UNION {ToSet(CommandsIn(request[k].content)) : k \in spoken}

\* The commands of an answer without calls that no message mentioned before.
Suggested ==
    IF CompletedCalls # <<>> \/ NeedsNotice \/ halted THEN <<>>
    ELSE SelectSeq(CommandsIn(accumulated), LAMBDA c : c \notin KnownCommands)

(***************************************************************************)
(* The frames end, or the text repeats itself and the rest is not read:    *)
(* calls, else commands, and StreamFinished.                               *)
(***************************************************************************)
ReplyEnds ==
    /\ phase = "Streaming"
    /\ \/ halted
       \/ sent = Len(reply.text) /\ argued = DOMAIN reply.calls
    /\ ran' = [calls |-> CompletedCalls, commands |-> Suggested]
    /\ history' =
         Grown(accumulated, halted \/ NeedsNotice)
         \o [k \in DOMAIN CompletedCalls |-> [kind |-> "Call", id |-> CompletedCalls[k]]]
         \o [k \in DOMAIN Suggested |-> [kind |-> "Shell", text |-> <<Suggested[k]>>]]
    /\ phase' = IF CompletedCalls \o Suggested = <<>> THEN "Idle" ELSE "Acting"
    /\ UNCHANGED <<sending, sent, named, argued, accumulated, slots, halted>>

\* The bytes break off, the request takes 180 seconds, or the user stops it.
ReplyFails ==
    /\ phase = "Streaming"
    /\ phase' = "Failed"
    /\ UNCHANGED <<history, sending, sent, named, argued, accumulated, slots,
                   halted, ran>>

Next ==
    \/ Ask
    \/ FollowUp
    \/ Interrupt
    \/ Resume
    \/ TextFrame
    \/ CallFrame
    \/ ArgumentsFrame
    \/ CallsFrame
    \/ ReplyEnds
    \/ ReplyFails

Spec == Init /\ [][Next]_vars

-----------------------------------------------------------------------------
(* Properties.                                                             *)

\* The message before the block of tool messages that k is in.
CallsBefore(k) ==
    LET others == {i \in 1..k : request[i].role # "tool"}
    IN  request[CHOOSE i \in others : \A j \in others : j <= i].calls

(***************************************************************************)
(* What the interface of the relay demands: every tool message follows the *)
(* message with its call, with only tool messages in between, also when    *)
(* the history was restored with a result that lost its call               *)
(* (mod.rs:690-691, mod_tests.rs:52-75).                                   *)
(***************************************************************************)
ToolResultsArePaired ==
    \A k \in DOMAIN request :
        request[k].role = "tool" =>
            \E i \in DOMAIN CallsBefore(k) : CallsBefore(k)[i].id = request[k].answers

(***************************************************************************)
(* Each result of a tool is sent exactly once, and behind the call the     *)
(* relay made, never behind one made up for it: failed and interrupted     *)
(* replies in between do not separate a call from its result.              *)
(***************************************************************************)
ResultsFollowTheirCalls ==
    \A i \in DOMAIN inputs.results :
        LET answers == {k \in DOMAIN request : request[k].answers = inputs.results[i].id}
        IN  /\ Cardinality(answers) = 1
            /\ \A k \in answers : RealCall(request[k].answers) \in ToSet(CallsBefore(k))

(***************************************************************************)
(* A request never ends with the model's own words: its last message is    *)
(* the user's, a prompt to go on or a result (mod.rs:755-758).             *)
(***************************************************************************)
RequestsAsk ==
    request # <<>> => Last(request).role \in {"user", "tool"}

\* The text begins with the same tokens twice.
BeginsTwice(text) ==
    \E n \in 1 .. Len(text) \div 2 : SubSeq(text, 1, n) = SubSeq(text, n + 1, 2 * n)

(***************************************************************************)
(* The answer shown is the text the relay sent, whether it sends deltas or *)
(* snapshots (mod.rs:1120-1121).  Left out are deltas of a text that       *)
(* begins twice: there a delta is mistaken for a snapshot.                 *)
(***************************************************************************)
AnswerIsWhole ==
    (phase = "Streaming" /\ (mode = "Snapshot" \/ ~BeginsTwice(reply.text)))
        => accumulated = SubSeq(reply.text, 1, sent)

(***************************************************************************)
(* The calls a reply leads to are the relay's own, in its order, whichever *)
(* of their deltas arrives first, and each has its arguments once.         *)
(***************************************************************************)
CallsAreTheRelays ==
    /\ ran.calls # <<>> /\ ~halted =>
            ran.calls = SelectSeq(reply.calls, LAMBDA id : id \in Connected)
    /\ \A k \in DOMAIN slots : slots[k].args <= 1

\* The tokens of the messages of the request, and the results it has.
Spoken == UNION {ToSet(request[k].content) :
                    k \in {k \in DOMAIN request : request[k].content # NoText}}
Answered == {request[k].answers : k \in DOMAIN request}

(***************************************************************************)
(* "Restores the history of user, assistant and tools from the context of  *)
(* the task" (mod.rs:567): a request has all the user asked and all the    *)
(* results the relay was given before.                                     *)
(***************************************************************************)
HistoryIsRestored ==
    /\ \A query \in asked : ToSet(query) \subseteq Spoken
    /\ given \subseteq Answered
=============================================================================
