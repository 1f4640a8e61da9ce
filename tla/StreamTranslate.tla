---------------------------- MODULE StreamTranslate ----------------------------
(***************************************************************************)
(* The translation of one upstream answer for a streaming client: to the    *)
(* Anthropic protocol (anthropicStreamTranslator, Messages) and to chat     *)
(* completion chunks (StreamTranslator, ChatCompletions), with the handlers' *)
(* rules on when an answer is retried or completed.  The answers built for   *)
(* a client that does not stream are operators, to compare with.             *)
(* Upstream sends created, then the items, each with its deltas, then a      *)
(* terminal event; the stream may break anywhere.  /v1/messages reads items  *)
(* one at a time, as upstream sends them; chat items may overlap.  A piece   *)
(* of text or of arguments is its number.                                    *)
(***************************************************************************)
EXTENDS Integers, Sequences, FiniteSets, SequencesExt

CONSTANTS
    MaxItems,    \* output items of an answer
    MaxPieces,   \* deltas of an answer
    TrAttempts   \* maxRetries + 1

ASSUME StreamTranslateAssumption ==
    MaxItems \in Nat /\ MaxPieces \in Nat /\ TrAttempts \in Nat \ {0}

VARIABLES
    trMode,     \* "messages" or "chat"
    trUp,       \* what upstream has sent in this attempt
    trState,    \* the translator of this attempt
    trClient,   \* what the client has received
    trWrote,    \* wroteAnyBody
    trAttempt,
    trGone,     \* the client no longer reads
    trTwice,    \* a broken stream was completed for the client and then retried
    trReturned  \* the handler has returned

trVars == <<trMode, trUp, trState, trClient, trWrote, trAttempt, trGone, trTwice, trReturned>>

Kinds == {"reasoning", "message", "function_call"}

\* items: in the order they were added; end: the terminal event and its status.
Nothing == [created |-> FALSE, items |-> <<>>, end |-> "none"]

\* newAnthropicStreamTranslator and NewStreamTranslator.
NewTranslator ==
    [start |-> FALSE, index |-> 0, open |-> FALSE, type |-> "none", buffer |-> <<>>,
     tools |-> FALSE, map |-> <<>>]

NoAnswer == [started |-> FALSE, blocks |-> <<>>, text |-> <<>>, open |-> FALSE, stop |-> "none",
             ended |-> FALSE, bad |-> FALSE]

StreamTranslateInit ==
    /\ trMode \in {"messages", "chat"}
    /\ trUp = Nothing /\ trState = NewTranslator /\ trClient = NoAnswer
    /\ trWrote = FALSE /\ trAttempt = 1
    /\ trGone = FALSE /\ trTwice = FALSE /\ trReturned = FALSE

-----------------------------------------------------------------------------
\* The client's side of both protocols: what an event does to what it has, and whether
\* the event was allowed there.

ReceiveEvent(c, e) ==
    LET bad == [c EXCEPT !.bad = TRUE]
        legal ==
            CASE e.type = "message_start" -> ~c.started
              [] e.type = "content_block_start" -> c.started /\ ~c.open /\ e.index = Len(c.blocks)
              [] e.type = "content_block_delta" ->
                    c.open /\ e.index = Len(c.blocks) - 1 /\ e.kind = c.blocks[e.index + 1].kind
              [] e.type = "content_block_stop" -> c.open /\ e.index = Len(c.blocks) - 1
              [] e.type = "message_delta" -> c.started /\ ~c.open /\ c.stop = "none"
              [] e.type = "message_stop" -> c.stop # "none"
              [] e.type = "tool_call" -> e.index = Len(c.blocks)
              [] e.type = "arguments" -> e.index < Len(c.blocks)
              [] e.type \in {"finish", "content"} -> TRUE
    IN  IF c.ended \/ ~legal THEN bad
        ELSE CASE e.type = "message_start" -> [c EXCEPT !.started = TRUE]
               [] e.type = "content_block_start" ->
                    [c EXCEPT !.open = TRUE, !.blocks = Append(@, [kind |-> e.kind, pieces |-> <<>>])]
               [] e.type = "content_block_delta" ->
                    [c EXCEPT !.blocks[Len(c.blocks)].pieces = @ \o e.pieces]
               [] e.type = "content_block_stop" -> [c EXCEPT !.open = FALSE]
               [] e.type \in {"message_delta", "finish"} -> [c EXCEPT !.stop = e.stop]
               [] e.type = "message_stop" -> [c EXCEPT !.ended = TRUE]
               [] e.type = "tool_call" ->
                    [c EXCEPT !.blocks = Append(@, [kind |-> "function_call", pieces |-> <<>>])]
               [] e.type = "arguments" -> [c EXCEPT !.blocks[e.index + 1].pieces = @ \o e.pieces]
               [] e.type = "content" ->
                    [c EXCEPT !.text = IF e.kind = "message" THEN Append(@, e.piece) ELSE @]

\* What a client that has c has after some events.
Received(c, out) ==
    LET got[n \in 0..Len(out)] == IF n = 0 THEN c ELSE ReceiveEvent(got[n - 1], out[n])
    IN  got[Len(out)]

-----------------------------------------------------------------------------
\* anthropicStreamTranslator: every handler returns the translator and its events.

Written(t, out) == [t |-> t, out |-> out]

handleCreated(t) ==
    IF t.start THEN Written(t, <<>>)
    ELSE Written([t EXCEPT !.start = TRUE], <<[type |-> "message_start"]>>)

BlockStop(t) == [type |-> "content_block_stop", index |-> t.index - 1]

Arguments(t) == [type |-> "content_block_delta", index |-> t.index - 1,
                 kind |-> "function_call", pieces |-> t.buffer]

\* The arguments of a call are sent as one delta, just before its block is closed.
closeCurrentBlock(t) ==
    IF ~t.open THEN Written(t, <<>>)
    ELSE IF t.type = "function_call" /\ t.buffer # <<>>
         THEN Written([t EXCEPT !.open = FALSE, !.buffer = <<>>], <<Arguments(t), BlockStop(t)>>)
         ELSE Written([t EXCEPT !.open = FALSE], <<BlockStop(t)>>)

openBlock(t, kind) ==
    LET c == closeCurrentBlock(t)
    IN  Written([c.t EXCEPT !.index = @ + 1, !.open = TRUE, !.type = kind,
                         !.tools = @ \/ kind = "function_call"],
             Append(c.out, [type |-> "content_block_start", index |-> c.t.index, kind |-> kind]))

\* The text block is opened by its first delta.
handleOutputItemAdded(t, kind) ==
    LET s == handleCreated(t)
        o == openBlock(s.t, kind)
    IN  IF kind = "message" THEN s ELSE Written(o.t, s.out \o o.out)

\* handleTextDelta and handleThinkingDelta.
handleDelta(t, kind, piece) ==
    LET s == handleCreated(t)
        o == IF s.t.open /\ s.t.type = kind THEN Written(s.t, <<>>) ELSE openBlock(s.t, kind)
    IN  Written(o.t, s.out \o o.out \o <<[type |-> "content_block_delta", index |-> o.t.index - 1,
                                       kind |-> kind, pieces |-> <<piece>>]>>)

handleToolInputDelta(t, piece) == Written([t EXCEPT !.buffer = Append(@, piece)], <<>>)

ends(t, stop) ==
    LET s == handleCreated(t)
        c == closeCurrentBlock(s.t)
    IN  Written(c.t, s.out \o c.out \o <<[type |-> "message_delta", stop |-> stop], [type |-> "message_stop"]>>)

handleCompleted(t, end) ==
    ends(t, IF end = "max_output_tokens" THEN "max_tokens"
            ELSE IF t.tools THEN "tool_use" ELSE "end_turn")

handleFailed(t) == ends(t, "end_turn")

\* Mutant: a broken answer is completed as an answer with calls.
finalizeToolUse(t) == ends(t, IF t.tools THEN "tool_use" ELSE "end_turn")

finalize(t) == ends(t, "end_turn")

translateEvent(t, e) ==
    CASE e.type = "created" -> handleCreated(t)
      [] e.type = "added" -> handleOutputItemAdded(t, e.kind)
      [] e.type = "delta" /\ e.kind # "function_call" -> handleDelta(t, e.kind, e.piece)
      [] e.type = "delta" /\ e.kind = "function_call" -> handleToolInputDelta(t, e.piece)
      [] e.type \in {"content_done", "item_done"} -> closeCurrentBlock(t)
      [] e.type = "completed" -> handleCompleted(t, e.end)
      [] e.type = "failed" -> handleFailed(t)

-----------------------------------------------------------------------------
\* StreamTranslator.Translate: the calls are numbered as they are added, and arguments
\* find their call by the item.  The handler writes [DONE] after the last chunk.

callIndex(t, item) == (CHOOSE i \in DOMAIN t.map : t.map[i] = item) - 1

Translate(t, e) ==
    CASE e.type = "added" /\ e.kind = "function_call" ->
            Written([t EXCEPT !.map = Append(@, e.item), !.tools = TRUE],
                 <<[type |-> "tool_call", index |-> Len(t.map)]>>)
      [] e.type = "delta" /\ e.kind = "function_call" ->
            Written(t, <<[type |-> "arguments", index |-> callIndex(t, e.item), pieces |-> <<e.piece>>]>>)
      [] e.type = "delta" /\ e.kind # "function_call" ->
            Written(t, <<[type |-> "content", kind |-> e.kind, piece |-> e.piece]>>)
      [] e.type = "completed" ->
            Written(t, <<[type |-> "finish", stop |-> IF t.tools THEN "tool_calls" ELSE "stop"],
                      [type |-> "message_stop"]>>)
      [] e.type = "failed" ->
            Written(t, <<[type |-> "finish", stop |-> "error"], [type |-> "message_stop"]>>)
      [] OTHER -> Written(t, <<>>)

-----------------------------------------------------------------------------
\* The handlers.

deliver(out) ==
    /\ trClient' = IF trGone THEN trClient ELSE Received(trClient, out)
    /\ trWrote' = (trWrote \/ (~trGone /\ out # <<>>))

terminal(e) == e.type \in {"completed", "failed"}

\* One event of the stream.  Messages stops at the first failing write, ChatCompletions
\* reads on to the terminal event for its usage.
Handle(e) ==
    LET s == IF trMode = "messages" THEN translateEvent(trState, e) ELSE Translate(trState, e)
    IN  /\ trState' = s.t
        /\ deliver(s.out)
        /\ trReturned' = (terminal(e) \/ (trMode = "messages" /\ trGone /\ s.out # <<>>))
        /\ UNCHANGED <<trMode, trAttempt, trGone, trTwice>>

\* The next attempt, or the error that ends the request when there is none.
NextAttempt ==
    /\ IF trAttempt < TrAttempts
       THEN /\ trAttempt' = trAttempt + 1
            /\ trUp' = Nothing /\ trState' = NewTranslator
            /\ trWrote' = FALSE
            /\ UNCHANGED <<trClient, trReturned>>
       ELSE /\ trReturned' = TRUE
            /\ trClient' = IF trGone THEN trClient
                           ELSE [trClient EXCEPT !.stop = "error", !.ended = TRUE,
                                                 !.bad = @ \/ trClient.started \/ trClient.blocks # <<>>]
            /\ UNCHANGED <<trUp, trState, trWrote, trAttempt>>
    /\ UNCHANGED <<trMode, trGone>>

\* Upstream's part of an event, and the handler's.
Reading == ~trReturned /\ trUp.end = "none"

Created ==
    /\ Reading /\ ~trUp.created
    /\ trUp' = [trUp EXCEPT !.created = TRUE]
    /\ Handle([type |-> "created"])

openItems == {i \in DOMAIN trUp.items : trUp.items[i].open}

numbers(items) == UNION {ToSet(items[i].pieces) : i \in DOMAIN items}

pieces == Cardinality(numbers(trUp.items))

Added(kind) ==
    /\ Reading /\ trUp.created /\ Len(trUp.items) < MaxItems
    /\ trMode = "messages" => openItems = {}
    /\ trUp' = [trUp EXCEPT !.items = Append(@, [kind |-> kind, pieces |-> <<>>, open |-> TRUE])]
    /\ Handle([type |-> "added", kind |-> kind, item |-> Len(trUp.items) + 1])

Delta(i) ==
    /\ Reading /\ i \in openItems /\ pieces < MaxPieces
    /\ trUp' = [trUp EXCEPT !.items[i].pieces = Append(@, pieces + 1)]
    /\ Handle([type |-> "delta", kind |-> trUp.items[i].kind, item |-> i, piece |-> pieces + 1])

\* The end of a part of a text or of a summary; another part may follow.
ContentDone(i) ==
    /\ Reading /\ i \in openItems /\ trUp.items[i].kind # "function_call"
    /\ trUp' = trUp
    /\ Handle([type |-> "content_done"])

ItemDone(i) ==
    /\ Reading /\ i \in openItems
    /\ trUp' = [trUp EXCEPT !.items[i].open = FALSE]
    /\ Handle([type |-> "item_done"])

\* response.completed.  An incomplete answer may be cut inside an item.
Completed(end) ==
    /\ Reading /\ trUp.created
    /\ end = "completed" => openItems = {}
    /\ trUp' = [trUp EXCEPT !.end = end]
    /\ Handle([type |-> "completed", end |-> end])

\* Mutant: a capacity error is retried whatever the client has received.
FailedRetriesAlways(capacity) ==
    /\ Reading
    /\ IF capacity THEN NextAttempt /\ UNCHANGED trTwice
       ELSE trUp' = [trUp EXCEPT !.end = "failed"] /\ Handle([type |-> "failed"])

\* response.failed.  A capacity error before the first byte is not shown: the next
\* account is tried.
Failed(capacity) ==
    /\ Reading
    /\ IF capacity /\ ~trWrote THEN NextAttempt /\ UNCHANGED trTwice
       ELSE trUp' = [trUp EXCEPT !.end = "failed"] /\ Handle([type |-> "failed"])

\* The stream ends without a terminal event: Messages completes the answer for the
\* client; both retry when the translation had written nothing.  Messages' completion
\* does not count as written (trTwice).
Break ==
    /\ Reading
    /\ LET final == finalize(trState).out
           completed == IF trMode = "messages" /\ ~trGone THEN Received(trClient, final)
                        ELSE trClient
       IN  IF ~trWrote /\ ~trGone /\ trAttempt < TrAttempts
           THEN /\ trClient' = completed
                /\ trTwice' = (trMode = "messages")
                /\ trAttempt' = trAttempt + 1
                /\ trUp' = Nothing /\ trState' = NewTranslator
                /\ UNCHANGED <<trMode, trWrote, trGone, trReturned>>
           ELSE /\ trClient' = completed
                /\ trReturned' = TRUE
                /\ UNCHANGED <<trMode, trUp, trState, trWrote, trAttempt, trGone, trTwice>>

ClientGone ==
    /\ ~trGone /\ ~trReturned
    /\ trGone' = TRUE
    /\ UNCHANGED <<trMode, trUp, trState, trClient, trWrote, trAttempt, trTwice, trReturned>>

StreamTranslateNext ==
    \/ Created \/ Break \/ ClientGone
    \/ \E kind \in Kinds : Added(kind)
    \/ \E i \in 1..MaxItems : Delta(i) \/ ContentDone(i) \/ ItemDone(i)
    \/ \E end \in {"completed", "max_output_tokens", "content_filter"} : Completed(end)
    \/ \E capacity \in BOOLEAN : Failed(capacity)

-----------------------------------------------------------------------------
\* The answers for a client that does not stream.

\* The pieces of the items of a kind, one after the other.
content(items, kind) ==
    FlattenSeq([i \in DOMAIN items |-> IF items[i].kind = kind THEN items[i].pieces ELSE <<>>])

\* The pieces of every call.
callsOf(items) ==
    FlattenSeq([i \in DOMAIN items |->
                    IF items[i].kind = "function_call" THEN <<items[i].pieces>> ELSE <<>>])

\* The last item that gives a block is a call: calls always do, text and summaries unless
\* empty.
lastIsCall(items) ==
    \E i \in DOMAIN items :
        /\ items[i].kind = "function_call"
        /\ \A k \in DOMAIN items : k > i => items[k].kind # "function_call" /\ items[k].pieces = <<>>

buildAnthropicResponseFromCompleted(items, end) ==
    [text     |-> content(items, "message"),
     thinking |-> content(items, "reasoning"),
     calls    |-> callsOf(items),
     stop     |-> CASE end = "max_output_tokens" -> "max_tokens"
                    [] end = "content_filter" -> "end_turn"
                    [] end = "completed" -> IF lastIsCall(items) THEN "tool_use" ELSE "end_turn"]

\* The text in the order of arrival, which is the order of the numbers.
arrived(items) ==
    LET said == UNION {ToSet(items[i].pieces) : i \in {i \in DOMAIN items : items[i].kind = "message"}}
    IN  FlattenSeq([k \in 1..Cardinality(numbers(items)) |-> IF k \in said THEN <<k>> ELSE <<>>])

\* The calls are collected from the items' done events, so not always in the order of
\* their added events; an item that is cut is not among them.
BuildCompactResponse(items) ==
    LET calls == {items[i].pieces : i \in {i \in DOMAIN items :
                                             items[i].kind = "function_call" /\ ~items[i].open}}
    IN  [text  |-> arrived(items),
         calls |-> calls,
         stop  |-> IF calls = {} THEN "stop" ELSE "tool_calls"]

-----------------------------------------------------------------------------

\* What is delivered is a legal stream of its protocol, across the attempts of the
\* request, the capacity errors, breaks and failures: one message_start, blocks that
\* are opened with the next number and closed before the next, deltas only inside their
\* block, one stop.  The one exception is the retry after Messages has completed a
\* broken answer (trTwice; RequestLoop's MessagesOneAnswer).
WellFormedStream == trTwice \/ ~trClient.bad

\* A streaming client has the text and the calls, each with its own arguments, that the
\* answer built at once would have; the stop reason too, except where the two paths
\* differ: a call that other content follows, and an answer cut by the content filter.
StreamedAsBuffered ==
    LET answered == trReturned /\ trUp.end \notin {"none", "failed"} /\ ~trGone /\ ~trTwice
        a == buildAnthropicResponseFromCompleted(trUp.items, trUp.end)
        o == BuildCompactResponse(trUp.items)
    IN  /\ answered /\ trMode = "messages" =>
              /\ content(trClient.blocks, "message") = a.text
              /\ content(trClient.blocks, "reasoning") = a.thinking
              /\ callsOf(trClient.blocks) = a.calls
              /\ (a.calls = <<>> \/ lastIsCall(trUp.items)) /\ trUp.end # "content_filter"
                    => trClient.stop = a.stop
        /\ answered /\ trMode = "chat" /\ trUp.end = "completed" =>
              /\ trClient.text = o.text
              /\ ToSet(callsOf(trClient.blocks)) = o.calls
              /\ trClient.stop = o.stop

\* A client is told to run the calls (tool_use, tool_calls) only when it has all their
\* arguments: not after a failure, and not when the stream broke inside a call and
\* Messages completed the answer, unless upstream itself calls the cut answer completed.
AnnouncedCallsWhole ==
    trClient.stop \in {"tool_use", "tool_calls"} /\ ~trTwice
        /\ trUp.end \notin {"max_output_tokens", "content_filter"}
        => /\ openItems = {}
           /\ callsOf(trClient.blocks) = callsOf(trUp.items)

\* Whatever upstream does, the answer of /v1/messages ends with message_stop for a client
\* that reads it to the end.
MessagesEnd == trMode = "messages" /\ trReturned /\ ~trGone => trClient.ended

\* The client's stream is legal and complete, through retries, failures, breaks and
\* overlapping items (WellFormedStream, MessagesEnd).
StreamLegal == WellFormedStream /\ MessagesEnd

\* It says what upstream said (StreamedAsBuffered, AnnouncedCallsWhole).
StreamSound == StreamedAsBuffered /\ AnnouncedCallsWhole

StreamTranslateSpec == StreamTranslateInit /\ [][StreamTranslateNext]_trVars

=============================================================================
