----------------------------- MODULE RequestLoop -----------------------------
(***************************************************************************)
(* The retry loop of the handlers of package proxy -- Responses,           *)
(* ResponsesCompact, ChatCompletions and Messages -- with the session      *)
(* affinity of auth.Store: a request takes an account, calls upstream,     *)
(* forwards or collects the answer, and starts over with another account   *)
(* when it may; what its client has received decides whether it may.       *)
(*                                                                         *)
(* How accounts become unavailable and what a report does to one is the    *)
(* subject of AccountPool.  Here the store hands out any account that is   *)
(* not excluded and has a free slot, or none.  Keep-alive output, which    *)
(* the clients skip, and headers are left out.                             *)
(***************************************************************************)
EXTENDS Integers, Sequences, FiniteSets

CONSTANTS
    Accounts,
    NoAccount,
    Requests,
    Sessions,
    SessionOf,    \* the session id of each request
    Kinds,        \* the handlers each request may be for, with stream or without
    Paid,         \* requests whose model or tools need a paid account
    Impatient,    \* requests whose client may leave
    Limit,        \* concurrency of an account
    MaxRetries,   \* Store.maxRetries
    Free,         \* accounts of the free plan
    PreferPaid    \* Store.preferPaidEnabled

AllKinds  == {"responses_stream", "responses", "compact", "chat_stream", "chat",
              "messages_stream", "messages"}
Streaming == {"responses_stream", "chat_stream", "messages_stream"}
Anthropic == {"messages_stream", "messages"}

ASSUME LoopAssumption ==
    /\ NoAccount \notin Accounts
    /\ IsFiniteSet(Requests)
    /\ SessionOf \in [Requests -> Sessions]
    /\ Kinds \in [Requests -> SUBSET AllKinds]
    /\ Paid \subseteq Requests
    /\ Impatient \subseteq Requests
    /\ Limit \in Nat
    /\ MaxRetries \in Nat
    /\ Free \subseteq Accounts
    /\ PreferPaid \in BOOLEAN

VARIABLES
    kind,      \* which handler serves the request
    req,       \* the local variables of the handler
    active,    \* Account.ActiveRequests
    binding,   \* Store.sessionBindings
    out,       \* what the client was sent: <<part, end, body or error, attempt>>
    gone       \* the client has left

vars == <<kind, req, active, binding, out, gone>>

\* pick, purge, sticky, next: NextForSession; backoff: the pause of
\* WaitForSessionAvailable; exec: the upstream call; stream: its answer is being
\* read; ended: it was read; finish: answered; unbind: after a failed call;
\* exhausted: after the loop.
Pcs     == {"pick", "purge", "sticky", "next", "backoff", "exec", "stream", "ended",
            "finish", "unbind", "exhausted", "return"}
Holding == {"exec", "stream", "ended", "finish"}

\* No response; a status, or a 400 or 402 whose body says so, that another account
\* may not answer with; any other status.
Failures == {"none", "request", "retryable", "final"}

ReqRec == [pc       : Pcs,
           phase    : {"prefer", "plain", "wait"},
           late     : BOOLEAN,                       \* the 30 s have passed
           attempt  : 0 .. MaxRetries + 1,
           acct     : Accounts \cup {NoAccount},     \* bound or held account
           exclude  : SUBSET Accounts,
           lastErr  : BOOLEAN,
           lastStatus : BOOLEAN,                     \* lastStatusCode # 0
           failure  : Failures,                      \* why the last call failed
           wrote    : BOOLEAN,                       \* wroteAnyBody
           writeErr : BOOLEAN,
           terminal : BOOLEAN]                       \* gotTerminal

Unbound  == [acct |-> NoAccount, fresh |-> FALSE]
Bindings == {Unbound} \cup [acct : Accounts, fresh : BOOLEAN]

-----------------------------------------------------------------------------
(* Choosing an account. *)

\* planDispatch: what needs a paid account excludes the free ones from the start,
\* anything else prefers one side; Messages does neither.
planExclude(q) == IF q \in Paid /\ kind[q] \notin Anthropic THEN Free ELSE {}

Preferred == IF PreferPaid THEN Accounts \ Free ELSE Free

\* nextAccountForSessionWithPreference: the preferred accounts are tried first.
firstPhase(q) ==
    IF kind[q] \in Anthropic \/ q \in Paid \/ Preferred = Accounts THEN "plain"
    ELSE "prefer"

\* "continue": the next attempt, or the end of the loop.
continued(q, r) ==
    [r EXCEPT !.attempt = @ + 1,
              !.pc      = IF r.attempt + 1 > MaxRetries THEN "exhausted" ELSE "pick",
              !.phase   = firstPhase(q), !.late = FALSE, !.acct = NoAccount,
              !.failure = "none", !.wrote = FALSE, !.writeErr = FALSE,
              !.terminal = FALSE]

\* "return": of the local variables only those the properties look at are kept.
returned(r) ==
    [r EXCEPT !.pc = "return", !.phase = "plain", !.late = FALSE, !.acct = NoAccount,
              !.exclude = {}, !.failure = "none", !.writeErr = FALSE]

\* What the selection of this phase leaves out.
ruledOut(q) ==
    req[q].exclude \cup (IF req[q].phase = "prefer" THEN Accounts \ Preferred ELSE {})

\* Waiting ends when the time is up or the client has left.
WaitOver(q) == req[q].phase = "wait" /\ (req[q].late \/ gone[q])

\* NextForSession reads the binding under a read lock it then lets go of.
ReadBinding(q) ==
    LET b == binding[SessionOf[q]]
    IN  /\ req[q].pc = "pick"
        /\ ~WaitOver(q)
        /\ req' = [req EXCEPT
              ![q].acct = b.acct,
              ![q].pc   = CASE b.acct = NoAccount -> "next"
                            [] b.acct # NoAccount /\ b.fresh -> "sticky"
                            [] OTHER -> "purge"]
        /\ UNCHANGED <<kind, active, binding, out, gone>>

\* Mutant: the binding is deleted without looking at it again.
PurgeBindingBlind(q) ==
    /\ req[q].pc = "purge"
    /\ binding' = [binding EXCEPT ![SessionOf[q]] = Unbound]
    /\ req' = [req EXCEPT ![q].pc = "next"]
    /\ UNCHANGED <<kind, active, out, gone>>

\* An expired binding is deleted if it is still an expired one.
PurgeBinding(q) ==
    LET s == SessionOf[q]
    IN  /\ req[q].pc = "purge"
        /\ binding' = [binding EXCEPT ![s] = IF @.fresh THEN @ ELSE Unbound]
        /\ req' = [req EXCEPT ![q].pc = "next"]
        /\ UNCHANGED <<kind, active, out, gone>>

\* tryAcquireAccount
Take(q, a) ==
    /\ active[a] < Limit
    /\ active' = [active EXCEPT ![a] = @ + 1]
    /\ req' = [req EXCEPT ![q].pc = "exec", ![q].acct = a]
    /\ UNCHANGED <<kind, binding, out, gone>>

\* Mutant: the account of the session is taken although it is excluded.
TakeStickyAnyway(q) == req[q].pc = "sticky" /\ Take(q, req[q].acct)

\* takeByIDExcluding for the bound account.
TakeSticky(q) ==
    /\ req[q].pc = "sticky"
    /\ req[q].acct \notin ruledOut(q)
    /\ Take(q, req[q].acct)

\* It is excluded, unavailable or full.
StickyUnavailable(q) ==
    /\ req[q].pc = "sticky"
    /\ req' = [req EXCEPT ![q].pc = "next"]
    /\ UNCHANGED <<kind, active, binding, out, gone>>

TakeNext(q) ==
    /\ req[q].pc = "next"
    /\ \E a \in Accounts \ ruledOut(q) : Take(q, a)

\* No account: without the preference, then waiting, then again after a pause.
NoneAvailable(q) ==
    /\ req[q].pc = "next"
    /\ req' = [req EXCEPT
          ![q].pc    = IF req[q].phase = "wait" THEN "backoff" ELSE "pick",
          ![q].phase = IF @ = "prefer" THEN "plain" ELSE "wait"]
    /\ UNCHANGED <<kind, active, binding, out, gone>>

Backoff(q) ==
    /\ req[q].pc = "backoff"
    /\ req' = [req EXCEPT ![q].pc = "pick"]
    /\ UNCHANGED <<kind, active, binding, out, gone>>

\* What the client is sent in this attempt; parts of one attempt count as one.
sent(q, what) ==
    LET item == <<what, req[q].attempt>>
    IN  IF out[q] # <<>> /\ out[q][Len(out[q])] = item THEN out[q]
        ELSE Append(out[q], item)

\* No account in time: the last 429 is passed on, or a 503.
GiveUp(q) ==
    /\ req[q].pc = "pick"
    /\ WaitOver(q)
    /\ out' = [out EXCEPT ![q] = sent(q, "error")]
    /\ req' = [req EXCEPT ![q] = returned(@)]
    /\ UNCHANGED <<kind, active, binding, gone>>

-----------------------------------------------------------------------------
(* The upstream call fails. *)

\* A call that gets no response is reported; a status other than 200 is reported
\* and its usage synced.  The account is released before it is unbound.
CallFails(q, failure) ==
    /\ req[q].pc = "exec"
    /\ active' = [active EXCEPT ![req[q].acct] = @ - 1]
    /\ req' = [req EXCEPT ![q].pc = "unbind", ![q].failure = failure]
    /\ UNCHANGED <<kind, binding, out, gone>>

\* UnbindSessionAffinity, the exclusion and applyCooldown; then the retry, or the
\* upstream error to the client.
UnbindAndRetry(q) ==
    LET r == req[q]
        s == SessionOf[q]
        excluded == [r EXCEPT !.exclude = @ \cup {r.acct}]
    IN  /\ r.pc = "unbind"
        /\ binding' = [binding EXCEPT ![s] = IF @.acct = r.acct THEN Unbound ELSE @]
        /\ \/ /\ r.failure = "request"
              /\ req' = [req EXCEPT ![q] =
                            continued(q, [excluded EXCEPT !.lastErr = TRUE])]
              /\ UNCHANGED out
           \/ /\ r.failure = "retryable"
              /\ r.attempt < MaxRetries
              /\ req' = [req EXCEPT ![q] =
                            continued(q, [excluded EXCEPT !.lastStatus = TRUE])]
              /\ UNCHANGED out
           \/ /\ r.failure # "request"
              /\ r.failure = "final" \/ r.attempt = MaxRetries
              /\ req' = [req EXCEPT ![q] = returned(excluded)]
              /\ out' = [out EXCEPT ![q] = sent(q, "error")]
        /\ UNCHANGED <<kind, active, gone>>

\* The loop has run out of attempts.
Exhausted(q) ==
    /\ req[q].pc = "exhausted"
    /\ out' = IF req[q].lastErr \/ req[q].lastStatus
              THEN [out EXCEPT ![q] = sent(q, "error")] ELSE out
    /\ req' = [req EXCEPT ![q] = returned(@)]
    /\ UNCHANGED <<kind, active, binding, gone>>

-----------------------------------------------------------------------------
(* Upstream answers with a 200 and a stream of events. *)

StreamOpens(q) ==
    /\ req[q].pc = "exec"
    /\ kind[q] # "compact"
    /\ req' = [req EXCEPT ![q].pc = "stream"]
    /\ UNCHANGED <<kind, active, binding, out, gone>>

\* A write to a client that has left may fail.
WriteResults(q) == IF gone[q] THEN BOOLEAN ELSE {TRUE}

\* An event that is passed on, translated or not.  A client that cannot be written
\* to gets nothing more; Responses and ChatCompletions then read on for the usage,
\* Messages stops.
ForwardEvent(q) ==
    /\ req[q].pc = "stream"
    /\ kind[q] \in Streaming
    /\ ~req[q].writeErr
    /\ \E ok \in WriteResults(q) :
          /\ out' = IF ok THEN [out EXCEPT ![q] = sent(q, "part")] ELSE out
          /\ req' = [req EXCEPT ![q].wrote = @ \/ ok, ![q].writeErr = ~ok,
                                ![q].pc = IF ~ok /\ kind[q] \in Anthropic
                                          THEN "ended" ELSE @]
    /\ UNCHANGED <<kind, active, binding, gone>>

\* response.completed or response.failed, passed on to a streaming client.
TerminalEvent(q) ==
    /\ req[q].pc = "stream"
    /\ kind[q] \in Streaming
    /\ \E ok \in IF req[q].writeErr THEN {FALSE} ELSE WriteResults(q) :
          /\ out' = IF ok THEN [out EXCEPT ![q] = sent(q, "end")] ELSE out
          /\ req' = [req EXCEPT ![q].wrote = @ \/ ok, ![q].writeErr = ~ok,
                                ![q].terminal = TRUE, ![q].pc = "ended"]
    /\ UNCHANGED <<kind, active, binding, gone>>

\* A client that did not ask for a stream: the events are collected up to
\* response.completed or response.failed.  Messages answers at once, with an
\* error when the response is not complete.
CollectTerminal(q, completed) ==
    /\ req[q].pc = "stream"
    /\ kind[q] \notin Streaming
    /\ out' = IF kind[q] # "messages" THEN out
              ELSE [out EXCEPT ![q] = sent(q, IF completed THEN "body" ELSE "error")]
    /\ req' = [req EXCEPT ![q].terminal = TRUE, ![q].pc = "ended"]
    /\ UNCHANGED <<kind, active, binding, gone>>

\* The stream of a Messages request breaks: the closing events, or an error, are
\* sent before it is known whether the request will be tried again.
messagesBroken(q) ==
    CASE kind[q] = "messages" -> sent(q, "error")
      [] kind[q] = "messages_stream" /\ ~req[q].writeErr -> sent(q, "end")
      [] OTHER -> out[q]

StreamBreaks(q) ==
    /\ req[q].pc = "stream"
    /\ out' = [out EXCEPT ![q] = messagesBroken(q)]
    /\ req' = [req EXCEPT ![q].pc = "ended"]
    /\ UNCHANGED <<kind, active, binding, gone>>

\* Mutants: the capacity error keeps the slot; it is not remembered.
CapacityErrorKeepsSlot(q) ==
    /\ req[q].pc = "stream"
    /\ ~req[q].wrote
    /\ req' = [req EXCEPT ![q] =
                  continued(q, [@ EXCEPT !.exclude = req[q].exclude \cup {req[q].acct},
                                         !.lastErr = TRUE])]
    /\ UNCHANGED <<kind, active, binding, out, gone>>

\* response.failed with a capacity error and nothing written yet: another account,
\* at the last attempt too; no report, and the session stays bound.
CapacityError(q) ==
    /\ req[q].pc = "stream"
    /\ ~req[q].wrote
    /\ active' = [active EXCEPT ![req[q].acct] = @ - 1]
    /\ req' = [req EXCEPT ![q] =
                  continued(q, [@ EXCEPT !.exclude = req[q].exclude \cup {req[q].acct},
                                         !.lastErr = TRUE])]
    /\ UNCHANGED <<kind, binding, out, gone>>

-----------------------------------------------------------------------------
(* The answer was read. *)

\* classifyStreamOutcome
penalize(q) == ~req[q].terminal /\ ~gone[q] /\ ~req[q].writeErr

\* Mutant: what was written does not matter.
shouldRetryRegardless(q) == penalize(q) /\ req[q].attempt < MaxRetries

shouldTransparentRetryStream(q) ==
    /\ penalize(q)
    /\ req[q].attempt < MaxRetries
    /\ ~req[q].wrote

\* Mutant: the retry is not counted.
RetryStreamUncounted(q) ==
    /\ req[q].pc = "ended"
    /\ shouldTransparentRetryStream(q)
    /\ active' = [active EXCEPT ![req[q].acct] = @ - 1]
    /\ req' = [req EXCEPT ![q] = [continued(q, @) EXCEPT !.attempt = req[q].attempt,
                                                         !.lastErr = TRUE]]
    /\ UNCHANGED <<kind, binding, out, gone>>

\* Broken before the first byte: reported, released and tried again; the account
\* is neither excluded nor unbound.
RetryStream(q) ==
    /\ req[q].pc = "ended"
    /\ shouldTransparentRetryStream(q)
    /\ active' = [active EXCEPT ![req[q].acct] = @ - 1]
    /\ req' = [req EXCEPT ![q] = continued(q, [@ EXCEPT !.lastErr = TRUE])]
    /\ UNCHANGED <<kind, binding, out, gone>>

\* The JSON answer of Responses and of ChatCompletions, which takes whatever was
\* collected for a complete answer.
collectedAnswer(q) ==
    CASE kind[q] = "responses" -> sent(q, IF req[q].terminal THEN "body" ELSE "error")
      [] kind[q] = "chat" -> sent(q, "body")
      [] OTHER -> out[q]

\* The session is bound to the account, whether the stream was complete or not.
Settle(q) ==
    /\ req[q].pc = "ended"
    /\ ~shouldTransparentRetryStream(q)
    /\ binding' = [binding EXCEPT ![SessionOf[q]] = [acct |-> req[q].acct, fresh |-> TRUE]]
    /\ out' = [out EXCEPT ![q] = collectedAnswer(q)]
    /\ req' = [req EXCEPT ![q].pc = "finish"]
    /\ UNCHANGED <<kind, active, gone>>

\* Usage, report, release; the dialog collector gets a copy.
Finish(q) ==
    /\ req[q].pc = "finish"
    /\ active' = [active EXCEPT ![req[q].acct] = @ - 1]
    /\ req' = [req EXCEPT ![q] = returned(@)]
    /\ UNCHANGED <<kind, binding, out, gone>>

\* ResponsesCompact passes the body of a 200 on: it neither binds nor reports.
CompactAnswer(q) ==
    /\ req[q].pc = "exec"
    /\ kind[q] = "compact"
    /\ active' = [active EXCEPT ![req[q].acct] = @ - 1]
    /\ out' = [out EXCEPT ![q] = sent(q, "body")]
    /\ req' = [req EXCEPT ![q] = returned(@)]
    /\ UNCHANGED <<kind, binding, gone>>

-----------------------------------------------------------------------------
(* The client and the clock. *)

ClientLeaves(q) ==
    /\ q \in Impatient
    /\ req[q].pc # "return"
    /\ ~gone[q]
    /\ gone' = [gone EXCEPT ![q] = TRUE]
    /\ UNCHANGED <<kind, req, active, binding, out>>

WaitTimesOut(q) ==
    /\ req[q].phase = "wait"
    /\ req[q].pc \in {"pick", "purge", "sticky", "next", "backoff"}
    /\ ~req[q].late
    /\ req' = [req EXCEPT ![q].late = TRUE]
    /\ UNCHANGED <<kind, active, binding, out, gone>>

\* sessionAffinityTTL has passed.
BindingExpires(s) ==
    /\ binding[s].fresh
    /\ binding' = [binding EXCEPT ![s].fresh = FALSE]
    /\ UNCHANGED <<kind, req, active, out, gone>>

-----------------------------------------------------------------------------
\* Earlier requests of the sessions may have bound them.
Init ==
    /\ kind \in {k \in [Requests -> AllKinds] : \A q \in Requests : k[q] \in Kinds[q]}
    /\ req = [q \in Requests |->
                [pc |-> "pick", phase |-> firstPhase(q), late |-> FALSE,
                 attempt |-> 0, acct |-> NoAccount,
                 exclude |-> planExclude(q), lastErr |-> FALSE,
                 lastStatus |-> FALSE, failure |-> "none",
                 wrote |-> FALSE, writeErr |-> FALSE, terminal |-> FALSE]]
    /\ active = [a \in Accounts |-> 0]
    /\ binding \in [Sessions -> Bindings]
    /\ out = [q \in Requests |-> <<>>]
    /\ gone = [q \in Requests |-> FALSE]

\* nextAccountForSessionWithPreference, then WaitForSessionAvailable.
PickStep(q) ==
    \/ ReadBinding(q) \/ PurgeBinding(q) \/ TakeSticky(q) \/ StickyUnavailable(q)
    \/ TakeNext(q) \/ NoneAvailable(q) \/ Backoff(q) \/ GiveUp(q)

\* ExecuteRequest or ExecuteCompactRequest and what follows a failure.
CallStep(q) ==
    \/ \E failure \in Failures \ {"none"} : CallFails(q, failure)
    \/ StreamOpens(q)
    \/ CompactAnswer(q)
    \/ UnbindAndRetry(q)
    \/ Exhausted(q)

\* Upstream ends the stream, one way or another.
StreamEnds(q) ==
    \/ TerminalEvent(q)
    \/ \E completed \in BOOLEAN : CollectTerminal(q, completed)
    \/ StreamBreaks(q)
    \/ CapacityError(q)

EndStep(q) == RetryStream(q) \/ Settle(q) \/ Finish(q)

Responses(q) ==
    /\ kind[q] \in {"responses_stream", "responses"}
    /\ PickStep(q) \/ CallStep(q) \/ ForwardEvent(q) \/ StreamEnds(q) \/ EndStep(q)

ResponsesCompact(q) == kind[q] = "compact" /\ (PickStep(q) \/ CallStep(q))

ChatCompletions(q) ==
    /\ kind[q] \in {"chat_stream", "chat"}
    /\ PickStep(q) \/ CallStep(q) \/ ForwardEvent(q) \/ StreamEnds(q) \/ EndStep(q)

Messages(q) ==
    /\ kind[q] \in Anthropic
    /\ PickStep(q) \/ CallStep(q) \/ ForwardEvent(q) \/ StreamEnds(q) \/ EndStep(q)

Next ==
    \/ \E q \in Requests :
          \/ Responses(q) \/ ResponsesCompact(q) \/ ChatCompletions(q) \/ Messages(q)
          \/ ClientLeaves(q) \/ WaitTimesOut(q)
    \/ \E s \in Sessions : BindingExpires(s)

Spec == Init /\ [][Next]_vars

\* The handler's goroutine runs, the timer of WaitForSessionAvailable fires,
\* upstream answers or breaks the connection.
Fairness ==
    \A q \in Requests :
        WF_vars(PickStep(q) \/ CallStep(q) \/ StreamEnds(q) \/ EndStep(q))
        /\ WF_vars(WaitTimesOut(q))

FairSpec == Spec /\ Fairness

-----------------------------------------------------------------------------
(* Properties. *)

TypeOK ==
    /\ kind \in [Requests -> AllKinds]
    /\ req \in [Requests -> ReqRec]
    /\ active \in [Accounts -> 0 .. Limit]
    /\ binding \in [Sessions -> Bindings]
    /\ out \in [Requests -> Seq({"part", "end", "body", "error"} \X (0 .. MaxRetries + 1))]
    /\ gone \in [Requests -> BOOLEAN]

\* On every path through the loop -- a failed call, a status, a capacity error, a
\* broken stream, an answer, running out of attempts -- the handler gives back
\* exactly the slot it took: ActiveRequests counts the attempts that are under way.
SlotsReturned ==
    \A a \in Accounts :
        active[a] = Cardinality({q \in Requests : req[q].pc \in Holding /\ req[q].acct = a})

\* Every variable has its type, and no path through a handler keeps a slot or gives one
\* back twice (SlotsReturned).
SlotsSound == TypeOK /\ SlotsReturned

\* The request is never sent to an account it has excluded, be it for a failure of
\* an earlier attempt or for the plan: not through its session's binding, not when
\* the preference is dropped, not after waiting.
NeverBackToExcluded ==
    \A q \in Requests : req[q].pc \in Holding => req[q].acct \notin req[q].exclude

\* All that a client gets comes from one attempt, and ends with one answer.
OneVoice(o) ==
    \A i \in DOMAIN o :
        /\ o[i][2] = o[1][2]
        /\ o[i][1] # "part" => i = Len(o)

\* Retries are transparent in Responses, ResponsesCompact and ChatCompletions: no
\* client sees the output of two attempts, two answers, or anything after one.
OneAnswer == \A q \in Requests : kind[q] \notin Anthropic => OneVoice(out[q])

\* A handler does not return without an answer to a client that is still there.
\* The exception is a stream that breaks when it can no longer be retried: its
\* client gets no error.
Answered ==
    \A q \in Requests : req[q].pc = "return" /\ ~gone[q] =>
        \/ out[q] # <<>> /\ out[q][Len(out[q])][1] # "part"
        \/ /\ kind[q] \in Streaming
           /\ ~req[q].terminal
           /\ req[q].attempt <= MaxRetries
           /\ req[q].wrote \/ req[q].attempt = MaxRetries

\* Every client that stays is answered, and by one attempt only, however often upstream
\* made the handler start again (OneAnswer, Answered).
AnsweredOnce == OneAnswer /\ Answered

\* A binding that has not expired is deleted only by a request that failed on the
\* account it names: a late purge or a late failure of another request of the
\* session does not undo a newer binding.
BindingKept ==
    [][\A s \in Sessions : binding[s].fresh /\ binding'[s] = Unbound =>
          \E q \in Requests :
              /\ SessionOf[q] = s
              /\ req[q].pc = "unbind" /\ req'[q].pc # "unbind"
              /\ req[q].acct = binding[s].acct]_vars

\* capacity_retry.go: a request is tried again only while nothing was written to
\* its client; here for Messages.
MessagesOneAnswer == \A q \in Requests : kind[q] \in Anthropic => OneVoice(out[q])

=============================================================================
