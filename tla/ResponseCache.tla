---------------------------- MODULE ResponseCache -----------------------------
(***************************************************************************)
(* The response context cache.  Upstream keeps no conversation (store is    *)
(* false), so the proxy remembers the input and the function calls of each  *)
(* response and puts them in front of the input of a request that names the *)
(* response as its previous one.  PrepareResponsesBody does that for the    *)
(* handlers; cacheCompletedResponse stores when response.completed arrives, *)
(* any time later.  Response ids are upstream's and never come twice, so    *)
(* that only eviction and cleaning race with a lookup, and a lookup is one  *)
(* step.                                                                    *)
(***************************************************************************)
EXTENDS Integers, Sequences, SequencesExt, FiniteSets

CONSTANTS
    CacheTTL,      \* responseCacheTTL
    MaxEntries,    \* responseCacheMaxItems
    MaxPerEntry,   \* responseCacheMaxPerItem
    RcRequests,    \* requests in flight
    RcResponses,   \* bound on the responses of upstream
    RcHorizon      \* bound on the clock

ASSUME ResponseCacheAssumption ==
    {CacheTTL, MaxEntries, MaxPerEntry, RcResponses, RcHorizon} \subseteq Nat \ {0}

VARIABLES
    rcStore,   \* respCache.store: response id -> entry
    rcNow,
    rcReq,     \* the requests in flight
    rcCalls    \* the function calls of each response so far: what a client knows

rcVars == <<rcStore, rcNow, rcReq, rcCalls>>

\* Items of an input: a message, a function call, or the output of a call.  Calls are
\* named by the response they came in.
Message   == [type |-> "message", call |-> 0]
FunctionCall(r)   == [type |-> "function_call", call |-> r]
Output(r) == [type |-> "function_call_output", call |-> r]

Ids == 1..Len(rcCalls)

\* given: the client's input; str: it was a string.  input: what goes upstream.  hit: an
\* entry was found.  cut: a part of the chain was dropped by the length limit.
NoRequest == [busy |-> FALSE, prev |-> 0, given |-> <<>>, str |-> FALSE, input |-> <<>>,
              hit |-> FALSE, cut |-> FALSE]

ResponseCacheInit ==
    /\ rcStore = <<>>
    /\ rcNow = 0
    /\ rcReq = [q \in RcRequests |-> NoRequest]
    /\ rcCalls = <<>>

-----------------------------------------------------------------------------

without(store, ids) == [r \in DOMAIN store \ ids |-> store[r]]

expired(entry) == rcNow - entry.createdAt > CacheTTL

\* The last MaxPerEntry items.
keepLast(items) ==
    SubSeq(items, IF Len(items) > MaxPerEntry THEN Len(items) - MaxPerEntry + 1 ELSE 1, Len(items))

\* Which entries are dropped to make room: at the limit a tenth of it, at least one, in
\* the order of Go's map iteration.
roomFor(store) ==
    LET n == IF MaxEntries < 20 THEN 1 ELSE MaxEntries \div 10
    IN  IF Cardinality(DOMAIN store) >= MaxEntries
        THEN {gone \in SUBSET (DOMAIN store) : Cardinality(gone) = n}
        ELSE {{}}

setResponseCache(id, items, cut) ==
    \E gone \in roomFor(rcStore) :
       LET kept  == without(rcStore, gone)
           entry == [items |-> keepLast(items), createdAt |-> rcNow,
                     cut |-> cut \/ Len(items) > MaxPerEntry]
       IN  rcStore' = [r \in DOMAIN kept \cup {id} |-> IF r = id THEN entry ELSE kept[r]]

\* What getResponseCache leaves in the store: an expired entry is removed by the
\* lookup that meets it.
getResponseCache(id) ==
    rcStore' = IF id \in DOMAIN rcStore /\ expired(rcStore[id])
               THEN without(rcStore, {id}) ELSE rcStore

live(id) == id \in DOMAIN rcStore /\ ~expired(rcStore[id])

\* Step 2 of PrepareResponsesBody makes a list of a string input, but a list of another
\* Go type than the one step 6 asks for: the assertion fails and the input counts as
\* empty.  Without a cached entry the input stays as it is.
merged(cached, given, str) == cached \o (IF str THEN <<>> ELSE given)

PrepareResponsesBody(q, prev, given, str) ==
    /\ ~rcReq[q].busy
    /\ getResponseCache(prev)
    /\ rcReq' = [rcReq EXCEPT ![q] =
           [busy |-> TRUE, prev |-> prev, given |-> given, str |-> str,
            input |-> IF live(prev) THEN merged(rcStore[prev].items, given, str) ELSE given,
            hit   |-> live(prev),
            cut   |-> live(prev) /\ rcStore[prev].cut]]
    /\ UNCHANGED <<rcNow, rcCalls>>

\* What a client sends: a string; a new conversation; or the outputs of the calls of the
\* response it names, alone or with the calls themselves in front.
ClientInput(prev) ==
    {[given |-> <<Message>>, str |-> TRUE], [given |-> <<Message>>, str |-> FALSE]} \cup
    IF prev = 0 \/ rcCalls[prev] = {} THEN {}
    ELSE {[given |-> <<Output(prev)>>, str |-> FALSE],
          [given |-> <<FunctionCall(prev), Output(prev)>>, str |-> FALSE]}

Request(q) ==
    \E prev \in {0} \cup Ids :
       \E in \in ClientInput(prev) : PrepareResponsesBody(q, prev, in.given, in.str)

\* Mutant: the calls of the response are not stored.
cacheInputOnly(q, id) == setResponseCache(id, rcReq[q].input, rcReq[q].cut)

\* cacheCompletedResponse for a response that holds a call: the input that went
\* upstream and the calls, without the other items of the output.
cacheCompletedResponse(q, id) ==
    setResponseCache(id, Append(rcReq[q].input, FunctionCall(id)), rcReq[q].cut)

positions(input, item) == {i \in DOMAIN input : input[i] = item}

paired(input) ==
    \A i \in DOMAIN input :
       input[i].type = "function_call_output" =>
          \E j \in 1..(i - 1) : input[j] = FunctionCall(input[i].call)

distinct(input) ==
    \A c \in 1..RcResponses : Cardinality(positions(input, FunctionCall(c))) <= 1

\* Upstream refuses an input with an output that has no call, or with a call twice.
Accepted(input) == paired(input) /\ distinct(input)

\* response.completed.  A response without a function call is not stored.
ResponseCompleted(q) ==
    LET id == Len(rcCalls) + 1
    IN  /\ rcReq[q].busy
        /\ Accepted(rcReq[q].input)
        /\ id <= RcResponses
        /\ \/ /\ rcCalls' = Append(rcCalls, {id})
              /\ cacheCompletedResponse(q, id)
           \/ rcCalls' = Append(rcCalls, {}) /\ UNCHANGED rcStore
        /\ rcReq' = [rcReq EXCEPT ![q] = NoRequest]
        /\ UNCHANGED rcNow

\* A refusal, response.failed, a broken stream, a client that leaves.
ResponseFailed(q) ==
    /\ rcReq[q].busy
    /\ rcReq' = [rcReq EXCEPT ![q] = NoRequest]
    /\ UNCHANGED <<rcStore, rcNow, rcCalls>>

respCacheCleanupLoop ==
    /\ \E r \in DOMAIN rcStore : expired(rcStore[r])
    /\ rcStore' = without(rcStore, {r \in DOMAIN rcStore : expired(rcStore[r])})
    /\ UNCHANGED <<rcNow, rcReq, rcCalls>>

ResponseCacheTick ==
    /\ rcNow < RcHorizon
    /\ rcNow' = rcNow + 1
    /\ UNCHANGED <<rcStore, rcReq, rcCalls>>

ResponseCacheNext ==
    \/ \E q \in RcRequests : Request(q) \/ ResponseCompleted(q) \/ ResponseFailed(q)
    \/ respCacheCleanupLoop
    \/ ResponseCacheTick

ResponseCacheSpec == ResponseCacheInit /\ [][ResponseCacheNext]_rcVars

-----------------------------------------------------------------------------

CacheItems == [type : {"message", "function_call", "function_call_output"},
               call : 0..RcResponses]

\* Types; with the two limits of the cache: the number of entries, which insertions
\* of concurrent requests share, and the length of each.
ResponseCacheTypeOK ==
    /\ Cardinality(DOMAIN rcStore) <= MaxEntries
    /\ \A r \in DOMAIN rcStore :
          /\ rcStore[r].items \in Seq(CacheItems)
          /\ Len(rcStore[r].items) <= MaxPerEntry
          /\ rcStore[r].createdAt \in 0..rcNow
    /\ \A q \in RcRequests : rcReq[q].input \in Seq(CacheItems)

\* What the cache is for (response_cache.go:13): when an entry was found, the output of
\* a call is sent upstream behind that call, in the first request and in every later one
\* of the chain, unless the length limit cut the chain.
OutputHasItsCall ==
    \A q \in RcRequests :
       rcReq[q].hit /\ ~rcReq[q].cut => paired(rcReq[q].input)

\* A request that finds its previous response is sent with a history upstream accepts,
\* within the limits of the cache (OutputHasItsCall).
ResponseCacheSound == ResponseCacheTypeOK /\ OutputHasItsCall

\* What response_cache.go:126-128 says of a request that names its previous response:
\* the history is not put in front of an input that brings the calls itself, because a
\* call sent twice is refused by upstream.
CallsSentOnce == \A q \in RcRequests : distinct(rcReq[q].input)

=============================================================================
