---------------------------- MODULE RelayMessages ----------------------------
(***************************************************************************)
(* The messages of a request to the relay, assembled from the history of a *)
(* conversation and the inputs of the request: extract_history_messages,   *)
(* assemble_openai_messages and repair_tool_pairing in                     *)
(* app/src/ai/team_relay/mod.rs.                                           *)
(*                                                                         *)
(* A text is a sequence of tokens: words and fenced shell commands.  What  *)
(* wording surrounds a command or a result is left out.                    *)
(***************************************************************************)
EXTENDS Integers, Sequences, SequencesExt

CONSTANTS
    Commands,       \* the shell commands a text may suggest
    RepeatLimit,    \* repetition_min_count, of units of one token
    NoText,         \* the content of a message without text
    NoId,           \* the tool_call_id of a message that is no tool result
    Executed,       \* the token of "the tool was executed"
    Continue        \* the token of NATIVE_CONTINUATION_PROMPT

ASSUME RepeatLimitAssumption == RepeatLimit \in Nat \ {0, 1}

-----------------------------------------------------------------------------
(* ChatMessage.                                                            *)

Text(role, text) == [role |-> role, content |-> text, calls |-> <<>>, answers |-> NoId]

\* A message of tool calls; a call is real or was made up for a result.
CallMessage(calls) ==
    [role |-> "assistant", content |-> NoText, calls |-> calls, answers |-> NoId]
RealCall(id)  == [id |-> id, real |-> TRUE]
MadeUpCall(id) == [id |-> id, real |-> FALSE]

ToolMessage(id, text) ==
    [role |-> "tool", content |-> text, calls |-> <<>>, answers |-> id]

CallIdsOf(message) == {message.calls[k].id : k \in DOMAIN message.calls}

\* Texts with the runs of a repeated token shortened to two: collapse_repetition.
InLongRun(text, k) ==
    \E first, last \in DOMAIN text :
        /\ first <= k /\ k <= last
        /\ last - first + 1 >= RepeatLimit
        /\ \A i \in first..last : text[i] = text[k]

Collapsed(text) ==
    LET Third(k) == k > 2 /\ text[k - 2] = text[k] /\ text[k - 1] = text[k]
        kept == SetToSortSeq({k \in DOMAIN text : ~(InLongRun(text, k) /\ Third(k))}, <)
    IN  [i \in DOMAIN kept |-> text[kept[i]]]

\* extract_shell_commands
CommandsIn(text) == SelectSeq(text, LAMBDA token : token \in Commands)

-----------------------------------------------------------------------------
(* From the messages of the task to those of the request.                  *)

\* Nothing, or the message of the request that one of the task becomes.
Extracted(message) ==
    CASE message.kind = "Query"    -> <<Text("user", message.text)>>
      [] message.kind = "Output"   ->
            IF message.text = <<>> THEN <<>>
            ELSE <<Text("assistant", Collapsed(message.text))>>
      [] message.kind = "Shell"    -> <<Text("assistant", message.text)>>
      [] message.kind = "Call"     -> <<CallMessage(<<RealCall(message.id)>>)>>
      [] message.kind = "Result"   -> <<ToolMessage(message.id, message.text)>>
      [] message.kind = "Executed" -> <<Text("assistant", <<Executed>>)>>

\* Mutant: only calls behind a text are merged, so that none are.
MergesIntoText(messages, message) ==
    /\ message.calls # <<>>
    /\ messages # <<>>
    /\ Last(messages).calls # <<>>
    /\ Last(messages).content # NoText

MergesIntoLast(messages, message) ==
    /\ message.calls # <<>>
    /\ messages # <<>>
    /\ Last(messages).calls # <<>>

WithCalls(messages, calls) ==
    [messages EXCEPT ![Len(messages)].calls = @ \o calls]

\* merge_consecutive_assistant_tool_calls
MergeCalls(messages) ==
    FoldLeft(LAMBDA merged, message :
                IF MergesIntoLast(merged, message)
                THEN WithCalls(merged, message.calls)
                ELSE Append(merged, message),
             <<>>, messages)

ExtractHistory(history) ==
    MergeCalls(FlattenSeq([k \in DOMAIN history |-> Extracted(history[k])]))

-----------------------------------------------------------------------------
(* repair_tool_pairing                                                     *)

EndsBlock(messages, k) ==
    /\ messages[k].role = "tool"
    /\ k = Len(messages) \/ messages[k + 1].role # "tool"

\* The first message of the block of tool messages that ends at k.
BlockStart(messages, k) ==
    CHOOSE first \in 1..k :
        /\ \A i \in first..k : messages[i].role = "tool"
        /\ first = 1 \/ messages[first - 1].role # "tool"

\* Mutant: a block is taken as paired when its first result is.
MissingFirstOnly(before, tools) ==
    LET known == IF before = <<>> THEN {} ELSE CallIdsOf(Last(before))
    IN  IF tools[1].answers \in known THEN <<>>
        ELSE [i \in DOMAIN tools |-> MadeUpCall(tools[i].answers)]

\* The calls to be made up for a block of tool messages.
Missing(before, tools) ==
    LET known == IF before = <<>> THEN {} ELSE CallIdsOf(Last(before))
        unpaired == SelectSeq(tools, LAMBDA tool : tool.answers \notin known)
    IN  [i \in DOMAIN unpaired |-> MadeUpCall(unpaired[i].answers)]

\* A block is put behind a message that has a call for each of its results.
Paired(before, tools) ==
    LET missing == Missing(before, tools) IN
    IF missing = <<>> THEN before \o tools
    ELSE IF before # <<>> /\ Last(before).calls # <<>>
    THEN WithCalls(before, missing) \o tools
    ELSE Append(before, CallMessage(missing)) \o tools

RepairToolPairing(messages) ==
    LET repaired[k \in 0..Len(messages)] ==
            IF k = 0 THEN <<>>
            ELSE IF messages[k].role # "tool"
            THEN Append(repaired[k - 1], messages[k])
            ELSE IF EndsBlock(messages, k)
            THEN LET first == BlockStart(messages, k)
                 IN  Paired(repaired[first - 1], SubSeq(messages, first, k))
            ELSE <<>>   \* inside a block: not used
    IN  repaired[Len(messages)]

-----------------------------------------------------------------------------
(* assemble_openai_messages                                                *)

\* push_user_if_not_last
PushUser(messages, text) ==
    IF messages # <<>> /\ Last(messages) = Text("user", text) THEN messages
    ELSE Append(messages, Text("user", text))

\* append_native_summaries: what was said before is not said again.
AppendSummaries(messages, summaries) ==
    FoldLeft(LAMBDA all, summary :
                IF \E k \in DOMAIN all : all[k] = Text("assistant", summary)
                THEN all ELSE Append(all, Text("assistant", summary)),
             messages, summaries)

\* Calls for the results whose calls are nowhere in the history.
SynthesizeCalls(messages, results) ==
    LET known == UNION {CallIdsOf(messages[k]) : k \in DOMAIN messages}
        unknown == SelectSeq(results, LAMBDA result : result.id \notin known)
    IN  IF unknown = <<>> THEN messages
        ELSE Append(messages,
                    CallMessage([i \in DOMAIN unknown |-> MadeUpCall(unknown[i].id)]))

\* Mutant: the summaries are the end of the request.
EndingWithSummaries(messages, summaries, query) ==
    LET summed == AppendSummaries(messages, summaries)
    IN  IF query # NoText THEN PushUser(summed, query) ELSE summed

\* The summaries, and then the user's query or the prompt to go on.
EndingWithUser(messages, summaries, query) ==
    LET summed == AppendSummaries(messages, summaries)
    IN  IF query # NoText THEN PushUser(summed, query)
        ELSE IF summaries # <<>> THEN PushUser(summed, <<Continue>>)
        ELSE summed

(***************************************************************************)
(* The request for a history, a query (or NoText), the results of tools    *)
(* and the summaries of commands.  With results, the query is not used.    *)
(***************************************************************************)
Assemble(history, query, results, summaries) ==
    LET past == <<Text("system", <<>>)>> \o MergeCalls(history)
        pending == SelectSeq(results, LAMBDA result :
                        \A k \in DOMAIN past : past[k].answers # result.id)
        tools == [i \in DOMAIN pending |-> ToolMessage(pending[i].id, pending[i].text)]
    IN  RepairToolPairing(
            IF pending # <<>>
            THEN EndingWithUser(SynthesizeCalls(past, pending) \o tools, summaries, NoText)
            ELSE EndingWithUser(past, summaries, query))
=============================================================================
