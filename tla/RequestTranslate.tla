-------------------------- MODULE RequestTranslate --------------------------
(***************************************************************************)
(* A conversation with tools, as it goes back and forth through the request *)
(* translators.  The upstream's answers reach the client in its protocol    *)
(* (Anthropic Messages or OpenAI Chat Completions), the client appends them *)
(* and the results of its tools to the history, and every request is the    *)
(* whole history, translated to the upstream's input list.                  *)
(* A text is a number; a call identifier is whether it begins with fc_,     *)
(* whether what follows begins with call_ or toolu_, and a number.  Models, *)
(* tools, reasoning and metadata are left out.                              *)
(***************************************************************************)
EXTENDS Integers, Sequences, FiniteSets, SequencesExt

CONSTANTS
    RtTurns,    \* answers of the upstream in one conversation
    RtItems     \* items in one answer

ASSUME RequestTranslateAssumption == RtTurns \in Nat /\ RtItems \in Nat

VARIABLES
    rtProtocol,  \* "messages" or "chat"
    rtHistory,   \* the messages the client holds
    rtUsed,      \* texts and calls numbered so far
    rtInput      \* the input list of the last request

rtVars == <<rtProtocol, rtHistory, rtUsed, rtInput>>

CallId(fc, known, n) == [fc |-> fc, known |-> known, n |-> n]

toCodexCallID(id) == [id EXCEPT !.fc = TRUE]

fromCodexCallID(id) == IF id.known THEN [id EXCEPT !.fc = FALSE] ELSE id

-----------------------------------------------------------------------------
\* The upstream's input items.

Item(type, role, texts, ids) == [type |-> type, role |-> role, texts |-> texts, ids |-> ids]

MessageItem(role, texts) == Item("message", role, texts, <<>>)
CallItem(id) == Item("function_call", "none", <<>>, <<id>>)
OutputItem(id) == Item("function_call_output", "none", <<>>, <<id>>)

\* A message with its content, if it has any.
messageOf(role, texts) == IF texts = <<>> THEN <<>> ELSE <<MessageItem(role, texts)>>

-----------------------------------------------------------------------------
\* Anthropic Messages: a message is a role and a list of blocks.

\* The texts of blocks.
textsOf(blocks) ==
    FlattenSeq([i \in DOMAIN blocks |-> IF blocks[i].type = "text" THEN <<blocks[i].text>> ELSE <<>>])

\* Mutant: a result keeps the client's form of the identifier.
appendUserRaw(blocks) ==
    FlattenSeq([i \in DOMAIN blocks |->
                    IF blocks[i].type = "tool_result" THEN <<OutputItem(blocks[i].id)>> ELSE <<>>])
        \o messageOf("user", textsOf(blocks))

\* What is appended: results become items of their own, in front of what the user says in
\* the same message.
appendUserBlocks(blocks) ==
    FlattenSeq([i \in DOMAIN blocks |->
                    IF blocks[i].type = "tool_result"
                    THEN <<OutputItem(toCodexCallID(blocks[i].id))>> ELSE <<>>])
        \o messageOf("user", textsOf(blocks))

\* The texts in front of block i that no call has put out.
textParts(blocks, i) ==
    FlattenSeq([k \in 1..(i - 1) |->
                    IF blocks[k].type = "text" /\ \A j \in k..(i - 1) : blocks[j].type # "tool_use"
                    THEN <<blocks[k].text>> ELSE <<>>])

\* A call first puts out the text in front of it; thinking is skipped.
appendAssistantBlocks(blocks) ==
    FlattenSeq([i \in DOMAIN blocks |->
                    IF blocks[i].type = "tool_use"
                    THEN Append(messageOf("assistant", textParts(blocks, i)),
                                CallItem(toCodexCallID(blocks[i].id)))
                    ELSE <<>>])
        \o messageOf("assistant", textParts(blocks, Len(blocks) + 1))

buildCodexInput(messages) ==
    FlattenSeq([i \in DOMAIN messages |->
                    CASE messages[i].role = "user" -> appendUserBlocks(messages[i].blocks)
                      [] messages[i].role = "assistant" -> appendAssistantBlocks(messages[i].blocks)])

-----------------------------------------------------------------------------
\* Chat Completions: a message has content and tool_calls, a result is a message.

\* A message without calls is put out even when its content is empty.
convertMessage(m) ==
    CASE m.role = "tool" -> <<OutputItem(m.calls[1])>>
      [] m.role = "assistant" /\ m.calls # <<>> ->
           messageOf("assistant", m.texts) \o [i \in DOMAIN m.calls |-> CallItem(m.calls[i])]
      [] m.role = "assistant" /\ m.calls = <<>> -> <<MessageItem("assistant", m.texts)>>
      [] m.role = "user" -> <<MessageItem("user", m.texts)>>

convertMessagesToInputSlice(messages) ==
    FlattenSeq([i \in DOMAIN messages |-> convertMessage(messages[i])])

-----------------------------------------------------------------------------
\* The conversation.

\* What the client keeps of an answer.
answered(answer) ==
    IF rtProtocol = "messages"
    THEN <<[role |-> "assistant",
            blocks |-> [i \in DOMAIN answer |->
                            IF answer[i].type = "tool_use"
                            THEN [answer[i] EXCEPT !.id = fromCodexCallID(@)] ELSE answer[i]]]>>
    ELSE <<[role |-> "assistant", texts |-> textsOf(answer),
            calls |-> FlattenSeq([i \in DOMAIN answer |->
                          IF answer[i].type = "tool_use" THEN <<answer[i].id>> ELSE <<>>])]>>

\* The identifier of a call as the client holds it, and those of the calls in an answer.
own(id) == IF rtProtocol = "messages" THEN fromCodexCallID(id) ELSE id

ownIds(answer) == {own(answer[i].id) : i \in {i \in DOMAIN answer : answer[i].type = "tool_use"}}

resultBlock(id) == [type |-> "tool_result", id |-> id, text |-> 0]
spokenBlock(text) == [type |-> "text", id |-> CallId(FALSE, FALSE, 0), text |-> text]

toolMessage(id) == [role |-> "tool", texts |-> <<>>, calls |-> <<id>>]
spokenMessage(text) == [role |-> "user", texts |-> <<text>>, calls |-> <<>>]

\* The results of the calls in an answer, in any order, and what the user says before,
\* between or after them.
replies(answer, text) ==
    IF rtProtocol = "messages"
    THEN {<<[role |-> "user",
             blocks |-> InsertAt([i \in DOMAIN r |-> resultBlock(r[i])], at, spokenBlock(text))]>> :
             r \in SetToSeqs(ownIds(answer)), at \in 1..(Cardinality(ownIds(answer)) + 1)}
    ELSE {[i \in DOMAIN r |-> toolMessage(r[i])] \o <<spokenMessage(text)>> :
             r \in SetToSeqs(ownIds(answer))}

translated(history) ==
    IF rtProtocol = "messages" THEN buildCodexInput(history) ELSE convertMessagesToInputSlice(history)

\* An item of an answer; its number is its place in the conversation.
Items(n) == {[type |-> "text", id |-> CallId(FALSE, FALSE, 0), text |-> n],
             [type |-> "thinking", id |-> CallId(FALSE, FALSE, 0), text |-> 0]}
            \cup {[type |-> "tool_use", id |-> CallId(fc, known, n), text |-> 0] :
                     fc \in BOOLEAN, known \in BOOLEAN}

Answers(k) == {a \in [1..k -> UNION {Items(rtUsed + i) : i \in 1..k}] :
                  \A i \in 1..k : a[i] \in Items(rtUsed + i)}

\* One turn: the upstream answers, the client replies with its results and a text, and the
\* whole history is translated for the next request.
Turn ==
    /\ rtUsed < RtTurns * (RtItems + 1)
    /\ \E k \in 1..RtItems : \E answer \in Answers(k) :
         \E reply \in replies(answer, rtUsed + k + 1) :
            /\ rtHistory' = rtHistory \o answered(answer) \o reply
            /\ rtUsed' = rtUsed + RtItems + 1
    /\ rtInput' = translated(rtHistory')
    /\ UNCHANGED rtProtocol

RequestTranslateInit ==
    /\ rtProtocol \in {"messages", "chat"}
    /\ rtHistory = <<>> /\ rtInput = <<>>
    /\ rtUsed = 0

RequestTranslateNext == Turn

RequestTranslateSpec == RequestTranslateInit /\ [][RequestTranslateNext]_rtVars

-----------------------------------------------------------------------------

\* What the upstream insists on in an input list: every output comes after the call with
\* its identifier, every call has exactly one output, and no two calls share one, whatever
\* form the identifiers had when the upstream made them and however the client ordered
\* the results.
CallsPaired ==
    LET of(type) == {i \in DOMAIN rtInput : rtInput[i].type = type}
        id(i) == rtInput[i].ids[1]
        calls == of("function_call")
        outputs == of("function_call_output")
    IN  /\ \A i, k \in calls : id(i) = id(k) => i = k
        /\ \A i, k \in outputs : id(i) = id(k) => i = k
        /\ \A o \in outputs : \E c \in calls : c < o /\ id(c) = id(o)
        /\ \A c \in calls : \E o \in outputs : id(c) = id(o)

\* Every text of the conversation is in the input once and in its order (texts are
\* numbered as they are said; a text of the user may move behind the results of its own
\* message, never past another text).
TextsInOrder ==
    LET texts == FlattenSeq([i \in DOMAIN rtInput |-> rtInput[i].texts])
        held == IF rtProtocol = "messages"
                THEN FlattenSeq([i \in DOMAIN rtHistory |-> textsOf(rtHistory[i].blocks)])
                ELSE FlattenSeq([i \in DOMAIN rtHistory |-> rtHistory[i].texts])
    IN  texts = held

\* However a conversation goes on, its history is translated to an input that upstream
\* accepts and that says the same in the same order (CallsPaired, TextsInOrder).
InputSound == CallsPaired /\ TextsInOrder

=============================================================================
