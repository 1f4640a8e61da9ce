-------------------------- MODULE RequestLoop_proofs --------------------------
(***************************************************************************)
(* Theorems about RequestLoop: its types, the slots that its requests hold, *)
(* the accounts they never go back to, what their clients are sent, and the *)
(* bindings of the sessions, for all accounts, requests and limits.         *)
(***************************************************************************)
EXTENDS RequestLoop, FiniteSetTheorems, SequenceTheorems, TLAPS

-----------------------------------------------------------------------------
(* The inductive invariant.  What it says of one request is a predicate on    *)
(* its locals r, its handler k, the output o of its client, and whether the   *)
(* client has gone, g.                                                        *)

\* The attempt has not got an answer yet.
Unanswered == Pcs \ {"stream", "ended", "finish", "return"}

\* The loop counts its attempts and ends after the last one, with a failure in hand; an
\* account is known where it is used, and not one that was excluded.
Placed(r) ==
    /\ r.pc \notin {"exhausted", "return"} => r.attempt <= MaxRetries
    /\ r.pc = "exhausted" => r.attempt > 0
    /\ r.attempt > 0 => r.lastErr \/ r.lastStatus
    /\ r.pc \in Holding \cup {"purge", "sticky", "unbind"} => r.acct \in Accounts
    /\ r.pc = "unbind" => r.failure # "none"
    /\ r.pc \in Holding => r.acct \notin r.exclude

\* What a client has got agrees with what its handler remembers of it: nothing before
\* an answer comes, and parts of one attempt while it streams.
Voiced(r, k, o) ==
    /\ r.wrote => k \in Streaming
    /\ k \notin Anthropic =>
          /\ r.pc \in Unanswered => o = <<>> /\ ~r.wrote
          /\ r.pc = "stream" => o = IF r.wrote THEN <<<<"part", r.attempt>>>> ELSE <<>>
          /\ r.pc = "ended" => OneVoice(o) /\ (~r.wrote => o = <<>>)
          /\ r.pc \in {"finish", "return"} => OneVoice(o)

\* The last thing a client was sent is not a part.
Closed(o) == o # <<>> /\ o[Len(o)][1] # "part"

\* The exception of Answered.
CutOff(r, k) ==
    /\ k \in Streaming
    /\ ~r.terminal
    /\ r.attempt <= MaxRetries
    /\ r.wrote \/ r.attempt = MaxRetries

\* A client that is still there is answered before its handler returns.
Closing(r, k, o, g) ==
    /\ r.writeErr => g
    /\ r.pc \in {"stream", "ended", "finish"} => k # "compact"
    /\ r.pc \notin {"ended", "finish", "return"} => ~r.terminal
    /\ r.pc = "ended" /\ ~g /\ r.terminal /\ k \in Streaming => Closed(o)
    /\ r.pc = "ended" /\ k = "messages" => Closed(o)
    /\ r.pc \in {"finish", "return"} /\ ~g => Closed(o) \/ CutOff(r, k)

Good(r, k, o, g) == Placed(r) /\ Voiced(r, k, o) /\ Closing(r, k, o, g)

GoodReq(q) == Good(req[q], kind[q], out[q], gone[q])

IInv ==
    /\ TypeOK
    /\ SlotsReturned
    /\ \A q \in Requests : GoodReq(q)

-----------------------------------------------------------------------------
(* Lemmas about the helpers of the loop. *)

Items == {"part", "end", "body", "error"} \X (0 .. MaxRetries + 1)

\* The second item of a sequence of one.
LEMMA AppendTwo ==
    ASSUME NEW S, NEW o \in Seq(S), NEW item \in S, Len(o) = 1
    PROVE  Append(o, item) = <<o[1], item>>
<1>1. o = <<o[1]>>
  OBVIOUS
<1>2. ASSUME NEW a, NEW b PROVE Append(<<a>>, b) = <<a, b>>
  <2>1. <<a>> \in Seq({a, b}) /\ b \in {a, b} /\ <<a, b>> = Append(<<a>>, b)
    OBVIOUS
  <2> QED
    BY <2>1
<1> QED
  BY <1>1, <1>2

\* What sent adds.
Item(q, what) == <<what, req[q].attempt>>

\* sent puts an item at the end of what the client has got, once.
LEMMA Sent ==
    ASSUME TypeOK, NEW q \in Requests, NEW what \in {"part", "end", "body", "error"}
    PROVE  /\ sent(q, what) \in Seq(Items)
           /\ sent(q, what) # <<>>
           /\ sent(q, what)[Len(sent(q, what))] = Item(q, what)
           /\ out[q] = <<>> => sent(q, what) = <<Item(q, what)>>
           /\ out[q] = <<Item(q, what)>> => sent(q, what) = <<Item(q, what)>>
           /\ out[q] # <<Item(q, what)>> /\ Len(out[q]) = 1 =>
                 sent(q, what) = <<out[q][1], Item(q, what)>>
<1> DEFINE o == out[q]
           item == Item(q, what)
<1>1. item \in Items /\ o \in Seq(Items)
  BY DEF TypeOK, Items, Item, ReqRec
<1>2. Len(o) = 1 => o = <<o[1]>>
  BY <1>1
<1>3. <<item>> # <<>> /\ Len(<<item>>) = 1 /\ <<item>>[1] = item
  OBVIOUS
<1>4. sent(q, what) = IF o # <<>> /\ o[Len(o)] = item THEN o ELSE Append(o, item)
  BY DEF sent, Item
<1> HIDE DEF o, item
<1>5. CASE o # <<>> /\ o[Len(o)] = item
  BY <1>1, <1>2, <1>4, <1>5 DEF o, item
<1>6. CASE ~(o # <<>> /\ o[Len(o)] = item)
  <2>1. sent(q, what) = Append(o, item)
    BY <1>4, <1>6
  <2>2. o # <<item>>
    BY <1>3, <1>6
  <2>3. Append(o, item) \in Seq(Items) /\ Append(o, item) # <<>>
    BY <1>1, AppendProperties
  <2>4. Append(o, item)[Len(Append(o, item))] = item
    BY <1>1
  <2>5. o = <<>> => Append(o, item) = <<item>>
    BY <1>1
  <2>6. Len(o) = 1 => Append(o, item) = <<o[1], item>>
    BY <1>1, AppendTwo
  <2> QED
    BY <2>1, <2>2, <2>3, <2>4, <2>5, <2>6 DEF o, item
<1> QED
  BY <1>5, <1>6

\* An answer that follows nothing, or parts of its own attempt, is an answer with one
\* voice.
LEMMA OneItem ==
    ASSUME NEW item
    PROVE  OneVoice(<<item>>)
BY DEF OneVoice

\* A part of an answer and an end of the same attempt are of one voice.
LEMMA PartThenEnd ==
    ASSUME NEW n, NEW item, item[2] = n
    PROVE  OneVoice(<<<<"part", n>>, item>>)
BY DEF OneVoice

\* An answer of which nothing was sent is of one voice.
LEMMA Silent == OneVoice(<<>>)
BY DEF OneVoice

\* An answer closes what the client has got; after nothing, or after parts of the same
\* attempt, the client has heard one voice.
LEMMA SentAnswer ==
    ASSUME IInv, NEW q \in Requests, NEW what \in {"end", "body", "error"}
    PROVE  /\ sent(q, what) \in Seq(Items)
           /\ Closed(sent(q, what))
           /\ out[q] = <<>> \/ out[q] = <<Item(q, "part")>> => OneVoice(sent(q, what))
<1> DEFINE o == sent(q, what)
<1>1. TypeOK
  BY DEF IInv
<1>2. Item(q, what) # Item(q, "part") /\ Item(q, what)[1] # "part"
  BY DEF Item
<1>3. o \in Seq(Items) /\ o # <<>> /\ o[Len(o)] = Item(q, what)
  BY <1>1, Sent
<1>4. Closed(o)
  BY <1>2, <1>3 DEF Closed
<1>5. CASE out[q] = <<>>
  <2>1. o = <<Item(q, what)>>
    BY <1>1, <1>5, Sent
  <2> QED
    BY <1>3, <1>4, <2>1, OneItem
<1>6. CASE out[q] = <<Item(q, "part")>>
  <2>1. out[q] # <<Item(q, what)>> /\ Len(out[q]) = 1 /\ out[q][1] = Item(q, "part")
    BY <1>2, <1>6
  <2>2. o = <<Item(q, "part"), Item(q, what)>>
    BY <1>1, <2>1, Sent
  <2>3. OneVoice(<<Item(q, "part"), Item(q, what)>>)
    BY PartThenEnd DEF Item
  <2> QED
    BY <1>3, <1>4, <2>2, <2>3
<1> QED
  BY <1>3, <1>4, <1>5, <1>6

\* The next attempt, or the end of the loop, with the failure that led to it.
LEMMA Continued ==
    ASSUME NEW q \in Requests, NEW r \in ReqRec, r.attempt <= MaxRetries,
           r.lastErr \/ r.lastStatus
    PROVE  /\ continued(q, r) \in ReqRec
           /\ Placed(continued(q, r))
           /\ continued(q, r).pc \in {"pick", "exhausted"}
           /\ ~continued(q, r).wrote /\ ~continued(q, r).writeErr
           /\ ~continued(q, r).terminal
<1>1. firstPhase(q) \in {"plain", "prefer"}
  BY DEF firstPhase
<1>2. MaxRetries \in Nat /\ r.attempt \in 0 .. MaxRetries
  BY LoopAssumption DEF ReqRec
<1>3. continued(q, r) \in ReqRec
  <2>1. ASSUME NEW p \in Pcs, NEW f \in {"plain", "prefer"}, NEW n \in 0 .. MaxRetries + 1
        PROVE  [r EXCEPT !.attempt = n, !.pc = p, !.phase = f, !.late = FALSE,
                         !.acct = NoAccount, !.failure = "none", !.wrote = FALSE,
                         !.writeErr = FALSE, !.terminal = FALSE] \in ReqRec
    BY DEF ReqRec, Failures
  <2>2. (IF r.attempt + 1 > MaxRetries THEN "exhausted" ELSE "pick") \in Pcs
    BY DEF Pcs
  <2>3. r.attempt + 1 \in 0 .. MaxRetries + 1
    BY <1>2
  <2> QED
    BY <1>1, <2>1, <2>2, <2>3, Zenon DEF continued
<1> DEFINE c == continued(q, r)
<1>4. /\ c.attempt = r.attempt + 1
      /\ c.pc = IF r.attempt + 1 > MaxRetries THEN "exhausted" ELSE "pick"
      /\ c.lastErr = r.lastErr /\ c.lastStatus = r.lastStatus
      /\ ~c.wrote /\ ~c.writeErr /\ ~c.terminal
  BY DEF continued, ReqRec
<1>5. c.pc \in {"pick", "exhausted"} /\ c.attempt > 0
  BY <1>2, <1>4
<1> HIDE DEF c
<1>6. Placed(c)
  BY <1>2, <1>4, <1>5 DEF Placed, Holding
<1> QED
  BY <1>3, <1>4, <1>5, <1>6 DEF c

\* A request that returns keeps what the client's answer is judged by.
LEMMA Returned ==
    ASSUME NEW r \in ReqRec
    PROVE  /\ returned(r) \in ReqRec
           /\ returned(r).pc = "return"
           /\ ~returned(r).writeErr
           /\ returned(r).attempt = r.attempt
           /\ returned(r).lastErr = r.lastErr
           /\ returned(r).lastStatus = r.lastStatus
           /\ returned(r).wrote = r.wrote
           /\ returned(r).terminal = r.terminal
BY DEF returned, ReqRec, Pcs, Failures

-----------------------------------------------------------------------------
(* Slots.  A step that moves one request keeps the count when the slot is     *)
(* taken as the request starts to hold the account and given back as it ends. *)

Holders(a) == {q \in Requests : req[q].pc \in Holding /\ req[q].acct = a}

\* The requests that hold a slot of an account are finitely many.
LEMMA HoldersFinite == \A a \in Accounts : IsFiniteSet(Holders(a))
BY LoopAssumption, FS_Subset DEF Holders

KeepsSlot(q, x) ==
    /\ active' = active
    /\ x.pc \in Holding <=> req[q].pc \in Holding
    /\ x.pc \in Holding => x.acct = req[q].acct

TakesSlot(q, x) ==
    /\ req[q].pc \notin Holding
    /\ x.pc \in Holding
    /\ x.acct \in Accounts
    /\ active[x.acct] < Limit
    /\ active' = [active EXCEPT ![x.acct] = @ + 1]

GivesSlot(q, x) ==
    /\ req[q].pc \in Holding
    /\ req[q].acct \in Accounts
    /\ x.pc \notin Holding
    /\ active' = [active EXCEPT ![req[q].acct] = @ - 1]

\* What a request does with its slot shows in the count of its account alone.
LEMMA SlotsCounted ==
    ASSUME TypeOK, SlotsReturned, NEW q \in Requests, NEW x \in ReqRec,
           req' = [req EXCEPT ![q] = x],
           KeepsSlot(q, x) \/ TakesSlot(q, x) \/ GivesSlot(q, x)
    PROVE  SlotsReturned' /\ active' \in [Accounts -> 0 .. Limit]
<1>1. /\ req \in [Requests -> ReqRec]
      /\ active \in [Accounts -> 0 .. Limit]
      /\ Limit \in Nat
  BY LoopAssumption DEF TypeOK
<1>2. req'[q] = x /\ \A p \in Requests \ {q} : req'[p] = req[p]
  BY <1>1
<1>3. \A a \in Accounts : active[a] = Cardinality(Holders(a))
  BY DEF SlotsReturned, Holders
<1>4. SUFFICES /\ \A a \in Accounts : active'[a] = Cardinality(Holders(a)')
               /\ active' \in [Accounts -> 0 .. Limit]
  BY DEF SlotsReturned, Holders
<1>5. CASE KeepsSlot(q, x)
  <2>1. \A a \in Accounts : Holders(a)' = Holders(a)
    BY <1>2, <1>5 DEF Holders, KeepsSlot
  <2> QED
    BY <1>1, <1>3, <1>5, <2>1 DEF KeepsSlot
<1>6. CASE TakesSlot(q, x)
  <2> DEFINE a == x.acct
  <2>1. a \in Accounts /\ active[a] < Limit /\ active' = [active EXCEPT ![a] = @ + 1]
    BY <1>6 DEF TakesSlot
  <2>2. Holders(a)' = Holders(a) \cup {q} /\ q \notin Holders(a)
    BY <1>2, <1>6 DEF Holders, TakesSlot
  <2>3. \A b \in Accounts \ {a} : Holders(b)' = Holders(b)
    BY <1>2, <1>6 DEF Holders, TakesSlot
  <2>4. Cardinality(Holders(a)') = Cardinality(Holders(a)) + 1
    BY <2>1, <2>2, HoldersFinite, FS_AddElement
  <2> QED
    BY <1>1, <1>3, <2>1, <2>3, <2>4
<1>7. CASE GivesSlot(q, x)
  <2>1. PICK a \in Accounts : a = req[q].acct /\ active' = [active EXCEPT ![a] = @ - 1]
    BY <1>7 DEF GivesSlot
  <2>2. Holders(a)' = Holders(a) \ {q} /\ q \in Holders(a)
    BY <1>2, <1>7, <2>1 DEF Holders, GivesSlot
  <2>3. \A b \in Accounts \ {a} : Holders(b)' = Holders(b)
    BY <1>2, <1>7, <2>1 DEF Holders, GivesSlot
  <2>4. Cardinality(Holders(a)') = Cardinality(Holders(a)) - 1
    BY <2>1, <2>2, HoldersFinite, FS_RemoveElement
  <2>5. Cardinality(Holders(a)') \in Nat
    BY <2>1, <2>2, HoldersFinite, FS_RemoveElement, FS_CardinalityType
  <2> QED
    BY <1>1, <1>3, <2>1, <2>3, <2>4, <2>5
<1> QED
  BY <1>5, <1>6, <1>7

\* A step of one request keeps the invariant if its own part of it is kept.
LEMMA OneMoves ==
    ASSUME IInv, NEW q \in Requests, NEW x \in ReqRec, NEW o \in Seq(Items),
           req' = [req EXCEPT ![q] = x],
           out' = [out EXCEPT ![q] = o],
           kind' = kind, gone' = gone,
           binding' \in [Sessions -> Bindings],
           Good(x, kind[q], o, gone[q]),
           KeepsSlot(q, x) \/ TakesSlot(q, x) \/ GivesSlot(q, x)
    PROVE  IInv'
<1>1. TypeOK /\ SlotsReturned /\ \A p \in Requests : GoodReq(p)
  BY DEF IInv
<1>2. SlotsReturned' /\ active' \in [Accounts -> 0 .. Limit]
  BY <1>1, SlotsCounted
<1>3. /\ req' \in [Requests -> ReqRec] /\ out' \in [Requests -> Seq(Items)]
      /\ req'[q] = x /\ out'[q] = o
      /\ \A p \in Requests \ {q} : req'[p] = req[p] /\ out'[p] = out[p]
  BY <1>1 DEF TypeOK, Items
<1>4. TypeOK'
  BY <1>1, <1>2, <1>3 DEF TypeOK, Items
<1>5. ASSUME NEW p \in Requests
      PROVE  GoodReq(p)'
  BY <1>1, <1>3 DEF GoodReq
<1> QED
  BY <1>2, <1>4, <1>5 DEF IInv

\* What the invariant says of the request that moves.
LEMMA OfOne ==
    ASSUME IInv, NEW q \in Requests
    PROVE  /\ req[q] \in ReqRec
           /\ kind[q] \in AllKinds
           /\ out[q] \in Seq(Items)
           /\ out = [out EXCEPT ![q] = out[q]]
           /\ gone[q] \in BOOLEAN
           /\ SessionOf[q] \in Sessions
           /\ binding[SessionOf[q]] \in Bindings
           /\ Placed(req[q]) /\ Voiced(req[q], kind[q], out[q])
           /\ Closing(req[q], kind[q], out[q], gone[q])
BY LoopAssumption DEF IInv, TypeOK, GoodReq, Good, Items

-----------------------------------------------------------------------------
(* Three ways in which a request moves: it looks on for an account, it starts *)
(* over, it returns.                                                          *)

Picking == {"pick", "purge", "sticky", "next", "backoff"}

\* While it looks for an account a request has no slot and its client no answer.
LooksOn(q, x) ==
    /\ x = [req[q] EXCEPT !.pc = x.pc, !.phase = x.phase, !.late = x.late, !.acct = x.acct]
    /\ req[q].pc \in Picking /\ x.pc \in Picking
    /\ x.pc \in {"purge", "sticky"} => x.acct \in Accounts
    /\ req' = [req EXCEPT ![q] = x]
    /\ kind' = kind /\ active' = active /\ out' = out /\ gone' = gone

\* A request that only looks keeps slots, answers and its exclusions as they are.
LEMMA LooksOnKeeps ==
    ASSUME IInv, NEW q \in Requests, NEW x \in ReqRec, LooksOn(q, x),
           binding' \in [Sessions -> Bindings]
    PROVE  IInv'
<1>1. /\ req[q] \in ReqRec /\ out[q] \in Seq(Items) /\ out = [out EXCEPT ![q] = out[q]]
      /\ Placed(req[q]) /\ Voiced(req[q], kind[q], out[q])
      /\ Closing(req[q], kind[q], out[q], gone[q])
  BY OfOne
<1>2. /\ req' = [req EXCEPT ![q] = x] /\ out' = [out EXCEPT ![q] = out[q]]
      /\ kind' = kind /\ gone' = gone
  BY <1>1 DEF LooksOn
<1>3. /\ x.attempt = req[q].attempt
      /\ x.lastErr = req[q].lastErr /\ x.lastStatus = req[q].lastStatus
      /\ x.wrote = req[q].wrote /\ x.writeErr = req[q].writeErr
      /\ x.terminal = req[q].terminal
  BY <1>1 DEF ReqRec, LooksOn
<1>4. Placed(x)
  BY <1>1, <1>3 DEF Placed, Picking, Holding, LooksOn
<1>5. Voiced(x, kind[q], out[q])
  BY <1>1, <1>3 DEF Voiced, Picking, Unanswered, Pcs, LooksOn
<1>6. Closing(x, kind[q], out[q], gone[q])
  BY <1>1, <1>3 DEF Closing, Picking, LooksOn
<1>7. KeepsSlot(q, x)
  BY DEF KeepsSlot, Picking, Holding, LooksOn
<1> QED
  BY <1>1, <1>2, <1>4, <1>5, <1>6, <1>7, OneMoves DEF Good

\* A request starts over only with a failure in hand and, but for Messages, before its
\* client was sent anything.
LEMMA StartsOver ==
    ASSUME IInv, NEW q \in Requests, NEW r \in ReqRec,
           r.attempt <= MaxRetries, r.lastErr \/ r.lastStatus,
           kind[q] \notin Anthropic => out[q] = <<>>,
           req' = [req EXCEPT ![q] = continued(q, r)],
           binding' \in [Sessions -> Bindings],
           UNCHANGED <<kind, out, gone>>,
           \/ req[q].pc \notin Holding /\ UNCHANGED active
           \/ /\ req[q].pc \in Holding
              /\ active' = [active EXCEPT ![req[q].acct] = @ - 1]
    PROVE  IInv'
<1> DEFINE x == continued(q, r)
<1>1. out[q] \in Seq(Items) /\ out = [out EXCEPT ![q] = out[q]] /\ Placed(req[q])
  BY OfOne
<1>2. /\ x \in ReqRec /\ Placed(x) /\ x.pc \in {"pick", "exhausted"}
      /\ ~x.wrote /\ ~x.writeErr /\ ~x.terminal
  BY Continued
<1>3. req' = [req EXCEPT ![q] = x] /\ out' = [out EXCEPT ![q] = out[q]]
  BY <1>1
<1> HIDE DEF x
<1>4. Good(x, kind[q], out[q], gone[q])
  BY <1>2 DEF Good, Voiced, Closing
<1>5. KeepsSlot(q, x) \/ GivesSlot(q, x)
  BY <1>1, <1>2 DEF KeepsSlot, GivesSlot, Holding, Placed
<1> QED
  BY <1>1, <1>2, <1>3, <1>4, <1>5, OneMoves

\* A request returns when its client has an answer, has left or is cut off.
LEMMA ReturnsWith ==
    ASSUME IInv, NEW q \in Requests, NEW r \in ReqRec, NEW o \in Seq(Items),
           r.attempt > 0 => r.lastErr \/ r.lastStatus,
           r.wrote => kind[q] \in Streaming,
           kind[q] \notin Anthropic => OneVoice(o),
           ~gone[q] => Closed(o) \/ CutOff(r, kind[q]),
           req' = [req EXCEPT ![q] = returned(r)],
           out' = [out EXCEPT ![q] = o],
           binding' \in [Sessions -> Bindings],
           UNCHANGED <<kind, gone>>,
           \/ req[q].pc \notin Holding /\ UNCHANGED active
           \/ /\ req[q].pc \in Holding
              /\ active' = [active EXCEPT ![req[q].acct] = @ - 1]
    PROVE  IInv'
<1> DEFINE x == returned(r)
<1>1. Placed(req[q])
  BY OfOne
<1>2. /\ x \in ReqRec /\ x.pc = "return" /\ ~x.writeErr /\ x.attempt = r.attempt
      /\ x.lastErr = r.lastErr /\ x.lastStatus = r.lastStatus
      /\ x.wrote = r.wrote /\ x.terminal = r.terminal
  BY Returned
<1>3. req' = [req EXCEPT ![q] = x]
  OBVIOUS
<1> HIDE DEF x
<1>4. Placed(x)
  BY <1>2 DEF Placed, Holding
<1>5. Voiced(x, kind[q], o)
  BY <1>2 DEF Voiced, Unanswered
<1>6. Closing(x, kind[q], o, gone[q])
  BY <1>2 DEF Closing, CutOff
<1>7. KeepsSlot(q, x) \/ GivesSlot(q, x)
  BY <1>1, <1>2 DEF KeepsSlot, GivesSlot, Holding, Placed
<1> QED
  BY <1>2, <1>3, <1>4, <1>5, <1>6, <1>7, OneMoves DEF Good

-----------------------------------------------------------------------------
(* Choosing an account. *)

\* The types of what a request that picks an account reads.
LEMMA PickingTypes ==
    ASSUME IInv, NEW q \in Requests
    PROVE  /\ req \in [Requests -> ReqRec] /\ req[q] \in ReqRec
           /\ req[q].phase \in {"prefer", "plain", "wait"} /\ req[q].late \in BOOLEAN
           /\ req[q].acct \in Accounts \cup {NoAccount}
           /\ SessionOf[q] \in Sessions /\ binding \in [Sessions -> Bindings]
BY LoopAssumption DEF IInv, TypeOK, ReqRec

\* NextForSession reads the binding: it goes on with a bound account, or with none.
LEMMA ReadBindingKeeps ==
    ASSUME IInv, NEW q \in Requests, ReadBinding(q)
    PROVE  IInv'
<1> DEFINE b == binding[SessionOf[q]]
           p == CASE b.acct = NoAccount -> "next"
                  [] b.acct # NoAccount /\ b.fresh -> "sticky"
                  [] OTHER -> "purge"
           x == [req[q] EXCEPT !.acct = b.acct, !.pc = p]
<1>1. b.acct \in Accounts \cup {NoAccount}
  BY PickingTypes DEF Bindings, Unbound
<1>2. p \in Picking /\ (p \in {"purge", "sticky"} => b.acct \in Accounts)
  BY <1>1 DEF Picking
<1>3. /\ req' = [req EXCEPT ![q] = x] /\ req[q].pc \in Picking
      /\ UNCHANGED <<kind, active, out, gone, binding>>
  BY PickingTypes DEF ReadBinding, Picking
<1> HIDE DEF b, p
<1>4. x \in ReqRec
  BY <1>1, <1>2, PickingTypes DEF ReqRec, Pcs, Picking
<1>5. LooksOn(q, x)
  BY <1>1, <1>2, <1>3, PickingTypes DEF LooksOn, ReqRec
<1> HIDE DEF x
<1> QED
  BY <1>3, <1>4, <1>5, PickingTypes, LooksOnKeeps

\* A binding that is deleted or kept is a binding still.
LEMMA PurgeBindingKeeps ==
    ASSUME IInv, NEW q \in Requests, PurgeBinding(q)
    PROVE  IInv'
<1> DEFINE x == [req[q] EXCEPT !.pc = "next"]
<1>1. x \in ReqRec
  BY PickingTypes DEF ReqRec, Pcs
<1>2. LooksOn(q, x)
  BY PickingTypes DEF LooksOn, PurgeBinding, Picking, ReqRec
<1>3. binding' \in [Sessions -> Bindings]
  BY PickingTypes DEF PurgeBinding, Bindings
<1> HIDE DEF x
<1> QED
  BY <1>1, <1>2, <1>3, LooksOnKeeps

\* A sticky account that cannot be taken sends its request to the scheduler.
LEMMA StickyUnavailableKeeps ==
    ASSUME IInv, NEW q \in Requests, StickyUnavailable(q)
    PROVE  IInv'
<1> DEFINE x == [req[q] EXCEPT !.pc = "next"]
<1>1. x \in ReqRec
  BY PickingTypes DEF ReqRec, Pcs
<1>2. LooksOn(q, x)
  BY PickingTypes DEF LooksOn, StickyUnavailable, Picking, ReqRec
<1>3. binding' \in [Sessions -> Bindings]
  BY PickingTypes DEF StickyUnavailable
<1> HIDE DEF x
<1> QED
  BY <1>1, <1>2, <1>3, LooksOnKeeps

\* Without an account the search goes on, in its next phase.
LEMMA NoneAvailableKeeps ==
    ASSUME IInv, NEW q \in Requests, NoneAvailable(q)
    PROVE  IInv'
<1> DEFINE p == IF req[q].phase = "wait" THEN "backoff" ELSE "pick"
           f == IF req[q].phase = "prefer" THEN "plain" ELSE "wait"
           x == [req[q] EXCEPT !.pc = p, !.phase = f]
<1>1. /\ p \in Picking \ {"purge", "sticky"} /\ f \in {"prefer", "plain", "wait"}
      /\ req' = [req EXCEPT ![q] = x] /\ req[q].pc \in Picking
      /\ UNCHANGED <<kind, active, out, gone, binding>>
  BY PickingTypes DEF NoneAvailable, Picking
<1>2. p \in Pcs
  BY <1>1 DEF Picking, Pcs
<1> HIDE DEF p, f
<1>3. x \in ReqRec
  BY <1>1, <1>2, PickingTypes DEF ReqRec
<1>4. LooksOn(q, x)
  BY <1>1, PickingTypes DEF LooksOn, ReqRec
<1> HIDE DEF x
<1> QED
  BY <1>1, <1>3, <1>4, PickingTypes, LooksOnKeeps

\* A request that backs off keeps the slot and the answer it has.
LEMMA BackoffKeeps ==
    ASSUME IInv, NEW q \in Requests, Backoff(q)
    PROVE  IInv'
<1> DEFINE x == [req[q] EXCEPT !.pc = "pick"]
<1>1. x \in ReqRec
  BY PickingTypes DEF ReqRec, Pcs
<1>2. LooksOn(q, x)
  BY PickingTypes DEF LooksOn, Backoff, Picking, ReqRec
<1>3. binding' \in [Sessions -> Bindings]
  BY PickingTypes DEF Backoff
<1> HIDE DEF x
<1> QED
  BY <1>1, <1>2, <1>3, LooksOnKeeps

\* A wait that times out takes no slot.
LEMMA WaitTimesOutKeeps ==
    ASSUME IInv, NEW q \in Requests, WaitTimesOut(q)
    PROVE  IInv'
<1> DEFINE x == [req[q] EXCEPT !.late = TRUE]
<1>1. x \in ReqRec
  BY PickingTypes DEF ReqRec, Pcs
<1>2. LooksOn(q, x)
  BY PickingTypes, OfOne DEF Placed, LooksOn, WaitTimesOut, Picking, ReqRec
<1>3. binding' \in [Sessions -> Bindings]
  BY PickingTypes DEF WaitTimesOut
<1> HIDE DEF x
<1> QED
  BY <1>1, <1>2, <1>3, LooksOnKeeps

\* The account taken has room and is not ruled out for this request.
LEMMA TakeKeeps ==
    ASSUME IInv, NEW q \in Requests, NEW a \in Accounts \ ruledOut(q),
           req[q].pc \in Picking, Take(q, a)
    PROVE  IInv'
<1> DEFINE x == [req[q] EXCEPT !.pc = "exec", !.acct = a]
<1>1. /\ req[q] \in ReqRec /\ out[q] \in Seq(Items) /\ out = [out EXCEPT ![q] = out[q]]
      /\ Placed(req[q]) /\ Voiced(req[q], kind[q], out[q])
      /\ Closing(req[q], kind[q], out[q], gone[q])
  BY OfOne
<1>2. x \in ReqRec
  BY <1>1 DEF ReqRec, Pcs
<1>3. req' = [req EXCEPT ![q] = x] /\ out' = [out EXCEPT ![q] = out[q]]
  BY <1>1, PickingTypes DEF Take
<1>4. /\ x.pc = "exec" /\ x.acct = a /\ x.attempt = req[q].attempt
      /\ x.exclude = req[q].exclude
      /\ x.lastErr = req[q].lastErr /\ x.lastStatus = req[q].lastStatus
      /\ x.wrote = req[q].wrote /\ x.writeErr = req[q].writeErr
      /\ x.terminal = req[q].terminal
  BY <1>1 DEF ReqRec
<1> HIDE DEF x
<1>5. Placed(x)
  BY <1>1, <1>4 DEF Placed, Picking, ruledOut
<1>6. Voiced(x, kind[q], out[q])
  BY <1>1, <1>4 DEF Voiced, Picking, Unanswered, Pcs
<1>7. Closing(x, kind[q], out[q], gone[q])
  BY <1>1, <1>4 DEF Closing, Picking
<1>8. TakesSlot(q, x)
  BY <1>4 DEF TakesSlot, Take, Picking, Holding
<1>9. kind' = kind /\ gone' = gone /\ binding' \in [Sessions -> Bindings]
  BY PickingTypes DEF Take
<1> QED
  BY <1>1, <1>2, <1>3, <1>5, <1>6, <1>7, <1>8, <1>9, OneMoves DEF Good

\* Taking the sticky account takes a slot of an account that is not excluded.
LEMMA TakeStickyKeeps ==
    ASSUME IInv, NEW q \in Requests, TakeSticky(q)
    PROVE  IInv'
<1>1. req[q].pc = "sticky" /\ req[q].acct \notin ruledOut(q) /\ Take(q, req[q].acct)
  BY DEF TakeSticky
<1>2. req[q].acct \in Accounts
  BY <1>1, OfOne DEF Placed
<1> QED
  BY <1>1, <1>2, TakeKeeps DEF Picking

\* Taking the scheduler's account takes a slot of an account that is not excluded.
LEMMA TakeNextKeeps ==
    ASSUME IInv, NEW q \in Requests, TakeNext(q)
    PROVE  IInv'
BY TakeKeeps DEF TakeNext, Picking

\* A request that finds no account in time answers with an error.
LEMMA GiveUpKeeps ==
    ASSUME IInv, NEW q \in Requests, GiveUp(q)
    PROVE  IInv'
<1> DEFINE o == sent(q, "error")
<1>1. /\ req[q].pc = "pick" /\ req' = [req EXCEPT ![q] = returned(req[q])]
      /\ out' = [out EXCEPT ![q] = o] /\ UNCHANGED <<kind, active, binding, gone>>
  BY PickingTypes DEF GiveUp
<1>2. o \in Seq(Items) /\ Closed(o) /\ (out[q] = <<>> => OneVoice(o))
  BY SentAnswer
<1>3. /\ req[q].attempt > 0 => req[q].lastErr \/ req[q].lastStatus
      /\ req[q].wrote => kind[q] \in Streaming
      /\ kind[q] \notin Anthropic => out[q] = <<>>
  BY <1>1, OfOne DEF Placed, Voiced, Unanswered, Pcs
<1> HIDE DEF o
<1> QED
  BY <1>1, <1>2, <1>3, PickingTypes, ReturnsWith DEF Holding

-----------------------------------------------------------------------------
(* The call fails, or upstream opens a stream. *)

\* The slot is given back before the session is unbound.
LEMMA CallFailsKeeps ==
    ASSUME IInv, NEW q \in Requests, NEW failure \in Failures \ {"none"},
           CallFails(q, failure)
    PROVE  IInv'
<1> DEFINE x == [req[q] EXCEPT !.pc = "unbind", !.failure = failure]
<1>1. /\ req[q] \in ReqRec /\ out[q] \in Seq(Items) /\ out = [out EXCEPT ![q] = out[q]]
      /\ Placed(req[q]) /\ Voiced(req[q], kind[q], out[q])
      /\ Closing(req[q], kind[q], out[q], gone[q])
  BY OfOne
<1>2. x \in ReqRec
  BY <1>1 DEF ReqRec, Pcs
<1>3. /\ req' = [req EXCEPT ![q] = x] /\ out' = [out EXCEPT ![q] = out[q]]
      /\ kind' = kind /\ gone' = gone /\ binding' \in [Sessions -> Bindings]
      /\ req[q].pc = "exec" /\ active' = [active EXCEPT ![req[q].acct] = @ - 1]
  BY <1>1, PickingTypes DEF CallFails
<1>4. /\ x.pc = "unbind" /\ x.acct = req[q].acct /\ x.attempt = req[q].attempt
      /\ x.exclude = req[q].exclude /\ x.failure = failure
      /\ x.lastErr = req[q].lastErr /\ x.lastStatus = req[q].lastStatus
      /\ x.wrote = req[q].wrote /\ x.writeErr = req[q].writeErr
      /\ x.terminal = req[q].terminal
  BY <1>1 DEF ReqRec
<1> HIDE DEF x
<1>5. Placed(x)
  BY <1>1, <1>3, <1>4 DEF Placed, Holding
<1>6. Voiced(x, kind[q], out[q])
  BY <1>1, <1>3, <1>4 DEF Voiced, Unanswered, Pcs
<1>7. Closing(x, kind[q], out[q], gone[q])
  BY <1>1, <1>3, <1>4 DEF Closing
<1>8. GivesSlot(q, x)
  BY <1>1, <1>3, <1>4 DEF GivesSlot, Holding, Placed
<1> QED
  BY <1>1, <1>2, <1>3, <1>5, <1>6, <1>7, <1>8, OneMoves DEF Good

\* The session loses the account that failed; the request starts over or answers with the
\* upstream error.
LEMMA UnbindAndRetryKeeps ==
    ASSUME IInv, NEW q \in Requests, UnbindAndRetry(q)
    PROVE  IInv'
<1> DEFINE r == req[q]
           x == [r EXCEPT !.exclude = @ \cup {r.acct}]
<1>1. /\ r \in ReqRec /\ out[q] \in Seq(Items)
      /\ Placed(r) /\ Voiced(r, kind[q], out[q])
  BY OfOne
<1>2. r.pc = "unbind" /\ UNCHANGED <<kind, active, gone>>
  BY DEF UnbindAndRetry
<1>3. binding' \in [Sessions -> Bindings]
  BY PickingTypes DEF UnbindAndRetry, Bindings
<1>4. /\ r.acct \in Accounts /\ r.attempt <= MaxRetries
      /\ r.attempt > 0 => r.lastErr \/ r.lastStatus
      /\ r.wrote => kind[q] \in Streaming
      /\ kind[q] \notin Anthropic => out[q] = <<>>
  BY <1>1, <1>2 DEF Placed, Voiced, Unanswered, Pcs
<1>5. x \in ReqRec
  BY <1>1, <1>4 DEF ReqRec
<1>6. CASE /\ r.failure = "request"
           /\ req' = [req EXCEPT ![q] = continued(q, [x EXCEPT !.lastErr = TRUE])]
           /\ UNCHANGED out
  <2> DEFINE y == [x EXCEPT !.lastErr = TRUE]
  <2>1. y \in ReqRec /\ y.attempt = r.attempt /\ y.lastErr
    BY <1>1, <1>5 DEF ReqRec
  <2> HIDE DEF y
  <2> QED
    BY <1>2, <1>3, <1>4, <1>6, <2>1, StartsOver DEF Holding, y
<1>7. CASE /\ r.failure = "retryable" /\ r.attempt < MaxRetries
           /\ req' = [req EXCEPT ![q] = continued(q, [x EXCEPT !.lastStatus = TRUE])]
           /\ UNCHANGED out
  <2> DEFINE y == [x EXCEPT !.lastStatus = TRUE]
  <2>1. y \in ReqRec /\ y.attempt = r.attempt /\ y.lastStatus
    BY <1>1, <1>5 DEF ReqRec
  <2> HIDE DEF y
  <2> QED
    BY <1>2, <1>3, <1>4, <1>7, <2>1, StartsOver DEF Holding, y
<1>8. CASE /\ r.failure # "request"
           /\ r.failure = "final" \/ r.attempt = MaxRetries
           /\ req' = [req EXCEPT ![q] = returned(x)]
           /\ out' = [out EXCEPT ![q] = sent(q, "error")]
  <2> DEFINE o == sent(q, "error")
  <2>1. o \in Seq(Items) /\ Closed(o) /\ (out[q] = <<>> => OneVoice(o))
    BY SentAnswer
  <2>2. /\ x.attempt = r.attempt /\ x.lastErr = r.lastErr /\ x.lastStatus = r.lastStatus
        /\ x.wrote = r.wrote
    BY <1>1 DEF ReqRec
  <2> HIDE DEF o, x
  <2> QED
    BY <1>2, <1>3, <1>4, <1>5, <1>8, <2>1, <2>2, ReturnsWith DEF Holding, o
<1> QED
  BY <1>6, <1>7, <1>8 DEF UnbindAndRetry

\* Only a loop that has met a failure runs out of attempts, so there is an error to send.
LEMMA ExhaustedKeeps ==
    ASSUME IInv, NEW q \in Requests, Exhausted(q)
    PROVE  IInv'
<1> DEFINE o == sent(q, "error")
<1>1. req[q] \in ReqRec /\ Placed(req[q]) /\ Voiced(req[q], kind[q], out[q])
  BY OfOne
<1>2. req[q].pc = "exhausted" /\ (req[q].lastErr \/ req[q].lastStatus)
  BY <1>1 DEF Exhausted, Placed
<1>3. /\ req' = [req EXCEPT ![q] = returned(req[q])] /\ out' = [out EXCEPT ![q] = o]
      /\ UNCHANGED <<kind, active, binding, gone>>
  BY <1>2, PickingTypes DEF Exhausted
<1>4. o \in Seq(Items) /\ Closed(o) /\ (out[q] = <<>> => OneVoice(o))
  BY SentAnswer
<1>5. /\ req[q].wrote => kind[q] \in Streaming
      /\ kind[q] \notin Anthropic => out[q] = <<>>
  BY <1>1, <1>2 DEF Voiced, Unanswered, Pcs
<1> HIDE DEF o
<1> QED
  BY <1>1, <1>2, <1>3, <1>4, <1>5, PickingTypes, ReturnsWith DEF Holding

\* A compact answer is sent whole, and once.
LEMMA CompactAnswerKeeps ==
    ASSUME IInv, NEW q \in Requests, CompactAnswer(q)
    PROVE  IInv'
<1> DEFINE o == sent(q, "body")
<1>1. req[q] \in ReqRec /\ Placed(req[q]) /\ Voiced(req[q], kind[q], out[q])
  BY OfOne
<1>2. /\ req[q].pc = "exec" /\ active' = [active EXCEPT ![req[q].acct] = @ - 1]
      /\ req' = [req EXCEPT ![q] = returned(req[q])] /\ out' = [out EXCEPT ![q] = o]
      /\ UNCHANGED <<kind, binding, gone>>
  BY PickingTypes DEF CompactAnswer
<1>3. o \in Seq(Items) /\ Closed(o) /\ (out[q] = <<>> => OneVoice(o))
  BY SentAnswer
<1>4. /\ req[q].wrote => kind[q] \in Streaming
      /\ kind[q] \notin Anthropic => out[q] = <<>>
      /\ req[q].attempt > 0 => req[q].lastErr \/ req[q].lastStatus
  BY <1>1, <1>2 DEF Placed, Voiced, Unanswered, Pcs
<1> HIDE DEF o
<1> QED
  BY <1>1, <1>2, <1>3, <1>4, PickingTypes, ReturnsWith DEF Holding

-----------------------------------------------------------------------------
(* The stream is read. *)

\* Reading on, with the slot that the request has.
ReadsOn(q, x, o) ==
    /\ req[q].pc \in Holding /\ x.pc \in Holding
    /\ x = [req[q] EXCEPT !.pc = x.pc, !.wrote = x.wrote, !.writeErr = x.writeErr,
                          !.terminal = x.terminal]
    /\ req' = [req EXCEPT ![q] = x] /\ out' = [out EXCEPT ![q] = o]
    /\ kind' = kind /\ active' = active /\ gone' = gone

\* A request that reads on may extend its answer, in the voice it has.
LEMMA ReadsOnKeeps ==
    ASSUME IInv, NEW q \in Requests, NEW x \in ReqRec, NEW o \in Seq(Items),
           ReadsOn(q, x, o), binding' \in [Sessions -> Bindings],
           Voiced(x, kind[q], o), Closing(x, kind[q], o, gone[q])
    PROVE  IInv'
<1>1. req[q] \in ReqRec /\ Placed(req[q])
  BY OfOne
<1>2. /\ req' = [req EXCEPT ![q] = x] /\ out' = [out EXCEPT ![q] = o]
      /\ kind' = kind /\ gone' = gone
      /\ x.pc \in Holding /\ req[q].pc \in Holding
  BY DEF ReadsOn
<1>3. /\ x.attempt = req[q].attempt /\ x.acct = req[q].acct
      /\ x.exclude = req[q].exclude
      /\ x.lastErr = req[q].lastErr /\ x.lastStatus = req[q].lastStatus
  BY <1>1 DEF ReqRec, ReadsOn
<1>4. Placed(x)
  BY <1>1, <1>2, <1>3 DEF Placed, Holding
<1>5. KeepsSlot(q, x)
  BY <1>2, <1>3 DEF KeepsSlot, ReadsOn
<1> QED
  BY <1>2, <1>4, <1>5, OneMoves DEF Good

\* A stream opens before anything of the answer was sent.
LEMMA StreamOpensKeeps ==
    ASSUME IInv, NEW q \in Requests, StreamOpens(q)
    PROVE  IInv'
<1> DEFINE x == [req[q] EXCEPT !.pc = "stream"]
<1>1. /\ req[q] \in ReqRec /\ out[q] \in Seq(Items) /\ out = [out EXCEPT ![q] = out[q]]
      /\ Placed(req[q]) /\ Voiced(req[q], kind[q], out[q])
      /\ Closing(req[q], kind[q], out[q], gone[q])
  BY OfOne
<1>2. req[q].pc = "exec" /\ kind[q] # "compact"
  BY DEF StreamOpens
<1>3. x \in ReqRec
  BY <1>1 DEF ReqRec, Pcs
<1>4. ReadsOn(q, x, out[q])
  BY <1>1, PickingTypes DEF StreamOpens, ReadsOn, Holding, ReqRec
<1>5. /\ x.pc = "stream" /\ x.attempt = req[q].attempt
      /\ x.wrote = req[q].wrote /\ x.writeErr = req[q].writeErr
      /\ x.terminal = req[q].terminal
  BY <1>1 DEF ReqRec
<1> HIDE DEF x
<1>6. Voiced(x, kind[q], out[q])
  BY <1>1, <1>2, <1>5 DEF Voiced, Unanswered, Pcs
<1>7. Closing(x, kind[q], out[q], gone[q])
  BY <1>1, <1>2, <1>5 DEF Closing
<1> QED
  BY <1>1, <1>3, <1>4, <1>6, <1>7, PickingTypes, ReadsOnKeeps DEF StreamOpens

\* What the client of a stream has got while its handler reads: nothing, or parts of this
\* attempt.
LEMMA WhileStreaming ==
    ASSUME IInv, NEW q \in Requests, req[q].pc = "stream", kind[q] \notin Anthropic
    PROVE  out[q] = IF req[q].wrote THEN <<Item(q, "part")>> ELSE <<>>
BY OfOne DEF Voiced, Item

\* A part is added to the parts of this attempt, or the client has left.
LEMMA ForwardEventKeeps ==
    ASSUME IInv, NEW q \in Requests, ForwardEvent(q)
    PROVE  IInv'
<1>1. PICK ok \in WriteResults(q) :
          /\ out' = IF ok THEN [out EXCEPT ![q] = sent(q, "part")] ELSE out
          /\ req' = [req EXCEPT ![q].wrote = @ \/ ok, ![q].writeErr = ~ok,
                                ![q].pc = IF ~ok /\ kind[q] \in Anthropic
                                          THEN "ended" ELSE @]
  BY DEF ForwardEvent
<1>2. /\ req[q].pc = "stream" /\ kind[q] \in Streaming /\ ~req[q].writeErr
      /\ UNCHANGED <<kind, active, binding, gone>>
  BY DEF ForwardEvent
<1> DEFINE p == IF ~ok /\ kind[q] \in Anthropic THEN "ended" ELSE "stream"
           w == req[q].wrote \/ ok
           e == ~ok
           x == [req[q] EXCEPT !.wrote = w, !.writeErr = e, !.pc = p]
           o == IF ok THEN sent(q, "part") ELSE out[q]
<1>3. /\ req[q] \in ReqRec /\ out[q] \in Seq(Items) /\ out = [out EXCEPT ![q] = out[q]]
      /\ Placed(req[q]) /\ Voiced(req[q], kind[q], out[q])
      /\ Closing(req[q], kind[q], out[q], gone[q])
  BY OfOne
<1>4. ok \in BOOLEAN /\ (~ok => gone[q])
  BY DEF WriteResults
<1>5. o \in Seq(Items)
  BY <1>3, Sent DEF IInv
<1>6. out' = [out EXCEPT ![q] = o]
  BY <1>1, <1>3
<1>7. req' = [req EXCEPT ![q] = x]
  BY <1>1, <1>2, PickingTypes
<1>8. kind[q] \notin Anthropic => o = IF w THEN <<Item(q, "part")>> ELSE <<>>
  BY <1>2, <1>4, WhileStreaming, Sent DEF IInv
<1>9. w \in BOOLEAN /\ e \in BOOLEAN /\ p \in {"stream", "ended"}
  BY <1>3, <1>4 DEF ReqRec
<1>10. p = "ended" => kind[q] \in Anthropic /\ gone[q]
  BY <1>4
<1>11. e => gone[q]
  BY <1>4
<1> HIDE DEF p, w, e, o
<1>12. x \in ReqRec
  BY <1>3, <1>9 DEF ReqRec, Pcs
<1>13. /\ x.pc = p /\ x.wrote = w /\ x.writeErr = e /\ x.attempt = req[q].attempt
       /\ x.terminal = req[q].terminal
  BY <1>3 DEF ReqRec
<1>14. ReadsOn(q, x, o)
  BY <1>2, <1>3, <1>6, <1>7, <1>9 DEF ReadsOn, Holding, ReqRec
<1> HIDE DEF x
<1>15. Voiced(x, kind[q], o)
  BY <1>2, <1>8, <1>9, <1>10, <1>13 DEF Voiced, Unanswered, Item
<1>16. Closing(x, kind[q], o, gone[q])
  BY <1>2, <1>3, <1>9, <1>10, <1>11, <1>13 DEF Closing, Streaming
<1> QED
  BY <1>2, <1>5, <1>12, <1>14, <1>15, <1>16, PickingTypes, ReadsOnKeeps

\* The last event closes what a client that can be written to has got.
LEMMA TerminalEventKeeps ==
    ASSUME IInv, NEW q \in Requests, TerminalEvent(q)
    PROVE  IInv'
<1>1. PICK ok \in IF req[q].writeErr THEN {FALSE} ELSE WriteResults(q) :
          /\ out' = IF ok THEN [out EXCEPT ![q] = sent(q, "end")] ELSE out
          /\ req' = [req EXCEPT ![q].wrote = @ \/ ok, ![q].writeErr = ~ok,
                                ![q].terminal = TRUE, ![q].pc = "ended"]
  BY DEF TerminalEvent
<1>2. /\ req[q].pc = "stream" /\ kind[q] \in Streaming
      /\ UNCHANGED <<kind, active, binding, gone>>
  BY DEF TerminalEvent
<1> DEFINE w == req[q].wrote \/ ok
           e == ~ok
           x == [req[q] EXCEPT !.wrote = w, !.writeErr = e, !.terminal = TRUE,
                               !.pc = "ended"]
           o == IF ok THEN sent(q, "end") ELSE out[q]
<1>3. /\ req[q] \in ReqRec /\ out[q] \in Seq(Items) /\ out = [out EXCEPT ![q] = out[q]]
      /\ Placed(req[q]) /\ Voiced(req[q], kind[q], out[q])
      /\ Closing(req[q], kind[q], out[q], gone[q])
  BY OfOne
<1>4. ok \in BOOLEAN /\ (~ok => gone[q])
  BY <1>3 DEF WriteResults, Closing
<1>5. o \in Seq(Items) /\ (ok => Closed(o))
  BY <1>3, SentAnswer
<1>6. out' = [out EXCEPT ![q] = o]
  BY <1>1, <1>3
<1>7. req' = [req EXCEPT ![q] = x]
  BY <1>1, <1>2, PickingTypes
<1>8. kind[q] \notin Anthropic => OneVoice(o) /\ (~w => o = <<>>)
  <2> SUFFICES ASSUME kind[q] \notin Anthropic
               PROVE  OneVoice(o) /\ (~w => o = <<>>)
    OBVIOUS
  <2>1. out[q] = IF req[q].wrote THEN <<Item(q, "part")>> ELSE <<>>
    BY <1>2, WhileStreaming
  <2>2. CASE ok
    BY <2>1, <2>2, SentAnswer
  <2>3. CASE ~ok
    BY <2>1, <2>3, OneItem, Silent
  <2> QED
    BY <2>2, <2>3
<1>9. w \in BOOLEAN /\ e \in BOOLEAN
  BY <1>3, <1>4 DEF ReqRec
<1>10. e => gone[q]
  BY <1>4
<1>11. ~gone[q] => Closed(o)
  BY <1>4, <1>5
<1> HIDE DEF w, e, o
<1>12. x \in ReqRec
  BY <1>3, <1>9 DEF ReqRec, Pcs
<1>13. x.pc = "ended" /\ x.wrote = w /\ x.writeErr = e /\ x.terminal
  BY <1>3 DEF ReqRec
<1>14. ReadsOn(q, x, o)
  BY <1>2, <1>3, <1>6, <1>7, <1>9 DEF ReadsOn, Holding, ReqRec
<1> HIDE DEF x
<1>15. Voiced(x, kind[q], o)
  BY <1>2, <1>8, <1>13 DEF Voiced, Unanswered
<1>16. Closing(x, kind[q], o, gone[q])
  BY <1>2, <1>3, <1>10, <1>11, <1>13 DEF Closing, Streaming
<1> QED
  BY <1>2, <1>5, <1>12, <1>14, <1>15, <1>16, PickingTypes, ReadsOnKeeps

\* Only Messages answers as soon as it has collected the response.
LEMMA CollectTerminalKeeps ==
    ASSUME IInv, NEW q \in Requests, NEW completed \in BOOLEAN,
           CollectTerminal(q, completed)
    PROVE  IInv'
<1> DEFINE what == IF completed THEN "body" ELSE "error"
           x == [req[q] EXCEPT !.terminal = TRUE, !.pc = "ended"]
           o == IF kind[q] # "messages" THEN out[q] ELSE sent(q, what)
<1>1. /\ req[q] \in ReqRec /\ out[q] \in Seq(Items) /\ out = [out EXCEPT ![q] = out[q]]
      /\ Placed(req[q]) /\ Voiced(req[q], kind[q], out[q])
      /\ Closing(req[q], kind[q], out[q], gone[q])
  BY OfOne
<1>2. /\ req[q].pc = "stream" /\ kind[q] \notin Streaming
      /\ UNCHANGED <<kind, active, binding, gone>>
      /\ req' = [req EXCEPT ![q] = x] /\ out' = [out EXCEPT ![q] = o]
  BY <1>1, PickingTypes DEF CollectTerminal
<1>3. o \in Seq(Items) /\ (kind[q] = "messages" => Closed(o))
  BY <1>1, SentAnswer
<1>4. ~req[q].wrote /\ (kind[q] \notin Anthropic => o = <<>>)
  BY <1>1, <1>2, WhileStreaming DEF Voiced, Anthropic
<1> HIDE DEF o, what
<1>5. x \in ReqRec
  BY <1>1 DEF ReqRec, Pcs
<1>6. /\ x.pc = "ended" /\ x.wrote = req[q].wrote /\ x.writeErr = req[q].writeErr
      /\ x.terminal
  BY <1>1 DEF ReqRec
<1>7. ReadsOn(q, x, o)
  BY <1>1, <1>2 DEF ReadsOn, Holding, ReqRec
<1> HIDE DEF x
<1>8. Voiced(x, kind[q], o)
  BY <1>4, <1>6, Silent DEF Voiced, Unanswered
<1>9. Closing(x, kind[q], o, gone[q])
  BY <1>1, <1>2, <1>3, <1>6 DEF Closing
<1> QED
  BY <1>2, <1>3, <1>5, <1>7, <1>8, <1>9, PickingTypes, ReadsOnKeeps

\* A stream that breaks leaves what the client has got, but for Messages.
LEMMA StreamBreaksKeeps ==
    ASSUME IInv, NEW q \in Requests, StreamBreaks(q)
    PROVE  IInv'
<1> DEFINE x == [req[q] EXCEPT !.pc = "ended"]
           o == messagesBroken(q)
<1>1. /\ req[q] \in ReqRec /\ out[q] \in Seq(Items) /\ kind[q] \in AllKinds
      /\ Placed(req[q]) /\ Voiced(req[q], kind[q], out[q])
      /\ Closing(req[q], kind[q], out[q], gone[q])
  BY OfOne
<1>2. /\ req[q].pc = "stream" /\ UNCHANGED <<kind, active, binding, gone>>
      /\ req' = [req EXCEPT ![q] = x] /\ out' = [out EXCEPT ![q] = o]
  BY <1>1, PickingTypes DEF StreamBreaks
<1>3. /\ o \in Seq(Items) /\ (kind[q] = "messages" => Closed(o))
      /\ kind[q] \notin Anthropic => o = out[q]
  BY <1>1, SentAnswer DEF messagesBroken, Anthropic
<1>4. kind[q] \notin Anthropic => o = IF req[q].wrote THEN <<Item(q, "part")>> ELSE <<>>
  BY <1>2, <1>3, WhileStreaming
<1> HIDE DEF o
<1>5. x \in ReqRec
  BY <1>1 DEF ReqRec, Pcs
<1>6. /\ x.pc = "ended" /\ x.wrote = req[q].wrote /\ x.writeErr = req[q].writeErr
      /\ x.terminal = req[q].terminal
  BY <1>1 DEF ReqRec
<1>7. ReadsOn(q, x, o)
  BY <1>1, <1>2 DEF ReadsOn, Holding, ReqRec
<1> HIDE DEF x
<1>8. Voiced(x, kind[q], o)
  BY <1>1, <1>4, <1>6, Silent, OneItem DEF Voiced, Unanswered
<1>9. Closing(x, kind[q], o, gone[q])
  BY <1>1, <1>2, <1>3, <1>6 DEF Closing
<1> QED
  BY <1>2, <1>3, <1>5, <1>7, <1>8, <1>9, PickingTypes, ReadsOnKeeps

\* Nothing was written, so the request may start over with another account.
LEMMA CapacityErrorKeeps ==
    ASSUME IInv, NEW q \in Requests, CapacityError(q)
    PROVE  IInv'
<1> DEFINE r == [req[q] EXCEPT !.exclude = @ \cup {req[q].acct}, !.lastErr = TRUE]
<1>1. /\ req[q] \in ReqRec /\ Placed(req[q])
      /\ Closing(req[q], kind[q], out[q], gone[q])
  BY OfOne
<1>2. /\ req[q].pc = "stream" /\ ~req[q].wrote
      /\ UNCHANGED <<kind, binding, out, gone>>
      /\ active' = [active EXCEPT ![req[q].acct] = @ - 1]
      /\ req' = [req EXCEPT ![q] = continued(q, r)]
  BY DEF CapacityError
<1>3. req[q].acct \in Accounts /\ req[q].attempt <= MaxRetries
  BY <1>1, <1>2 DEF Placed, Holding
<1>4. r \in ReqRec /\ r.lastErr /\ r.attempt = req[q].attempt
  BY <1>1, <1>3 DEF ReqRec
<1>5. kind[q] \notin Anthropic => out[q] = <<>>
  BY <1>2, WhileStreaming
<1> HIDE DEF r
<1> QED
  BY <1>2, <1>3, <1>4, <1>5, PickingTypes, StartsOver DEF Holding

-----------------------------------------------------------------------------
(* The stream was read. *)

\* A stream is tried again only when nothing of it was written.
LEMMA RetryStreamKeeps ==
    ASSUME IInv, NEW q \in Requests, RetryStream(q)
    PROVE  IInv'
<1> DEFINE r == [req[q] EXCEPT !.lastErr = TRUE]
<1>1. req[q] \in ReqRec /\ Voiced(req[q], kind[q], out[q])
  BY OfOne
<1>2. /\ req[q].pc = "ended" /\ req[q].attempt < MaxRetries /\ ~req[q].wrote
      /\ UNCHANGED <<kind, binding, out, gone>>
      /\ active' = [active EXCEPT ![req[q].acct] = @ - 1]
      /\ req' = [req EXCEPT ![q] = continued(q, r)]
  BY DEF RetryStream, shouldTransparentRetryStream
<1>3. r \in ReqRec /\ r.lastErr /\ r.attempt = req[q].attempt
  BY <1>1 DEF ReqRec
<1>4. kind[q] \notin Anthropic => out[q] = <<>>
  BY <1>1, <1>2 DEF Voiced
<1>5. r.attempt <= MaxRetries
  BY <1>1, <1>2, <1>3, LoopAssumption DEF ReqRec
<1> HIDE DEF r
<1> QED
  BY <1>2, <1>3, <1>4, <1>5, PickingTypes, StartsOver DEF Holding

\* A stream that is not tried again was complete, was cut off, or lost its client; who
\* asked for JSON gets it now.
LEMMA SettleKeeps ==
    ASSUME IInv, NEW q \in Requests, Settle(q)
    PROVE  IInv'
<1> DEFINE x == [req[q] EXCEPT !.pc = "finish"]
           o == collectedAnswer(q)
<1>1. /\ req[q] \in ReqRec /\ out[q] \in Seq(Items) /\ kind[q] \in AllKinds
      /\ Placed(req[q]) /\ Voiced(req[q], kind[q], out[q])
      /\ Closing(req[q], kind[q], out[q], gone[q])
  BY OfOne
<1>2. /\ req[q].pc = "ended" /\ UNCHANGED <<kind, active, gone>>
      /\ ~shouldTransparentRetryStream(q)
      /\ req' = [req EXCEPT ![q] = x] /\ out' = [out EXCEPT ![q] = o]
  BY <1>1, PickingTypes DEF Settle
<1>3. req[q].acct \in Accounts /\ req[q].attempt <= MaxRetries
  BY <1>1, <1>2 DEF Placed, Holding
<1>4. binding' \in [Sessions -> Bindings]
  BY <1>3, PickingTypes DEF Settle, Bindings
<1>5. o \in Seq(Items) /\ (kind[q] \in {"responses", "chat"} => Closed(o))
  BY <1>1, SentAnswer DEF collectedAnswer
<1>6. kind[q] \in {"responses", "chat"} => OneVoice(o)
  <2>1. kind[q] \in {"responses", "chat"} => out[q] = <<>>
    BY <1>1, <1>2 DEF Voiced, Streaming, Anthropic
  <2> QED
    BY <2>1, SentAnswer DEF collectedAnswer
<1>7. kind[q] \notin {"responses", "chat"} => o = out[q]
  BY DEF collectedAnswer
<1>8. ~gone[q] => Closed(o) \/ CutOff(req[q], kind[q])
  <2>1. CASE kind[q] \in {"responses", "chat", "messages"}
    BY <1>1, <1>2, <1>5, <1>7, <2>1 DEF Closing
  <2>2. CASE kind[q] \in Streaming /\ req[q].terminal
    BY <1>1, <1>2, <1>7, <2>2 DEF Closing, Streaming
  <2>3. CASE kind[q] \in Streaming /\ ~req[q].terminal
    <3>1. ~gone[q] => req[q].wrote \/ ~(req[q].attempt < MaxRetries)
      BY <1>1, <1>2, <2>3 DEF shouldTransparentRetryStream, penalize, Closing
    <3>2. req[q].attempt \in 0 .. MaxRetries + 1
      BY <1>1 DEF ReqRec
    <3>3. ~(req[q].attempt < MaxRetries) => req[q].attempt = MaxRetries
      BY <1>3, <3>2, LoopAssumption
    <3> QED
      BY <1>3, <2>3, <3>1, <3>3 DEF CutOff
  <2>4. kind[q] # "compact"
    BY <1>1, <1>2 DEF Closing
  <2> QED
    BY <1>1, <2>1, <2>2, <2>3, <2>4 DEF AllKinds, Streaming
<1> HIDE DEF o
<1>9. x \in ReqRec
  BY <1>1 DEF ReqRec, Pcs
<1>10. /\ x.pc = "finish" /\ x.attempt = req[q].attempt
       /\ x.wrote = req[q].wrote /\ x.writeErr = req[q].writeErr
       /\ x.terminal = req[q].terminal
  BY <1>1 DEF ReqRec
<1>11. ReadsOn(q, x, o)
  BY <1>1, <1>2 DEF ReadsOn, Holding, ReqRec
<1> HIDE DEF x
<1>12. Voiced(x, kind[q], o)
  BY <1>1, <1>2, <1>6, <1>7, <1>10 DEF Voiced, Unanswered
<1>13. Closing(x, kind[q], o, gone[q])
  BY <1>1, <1>2, <1>8, <1>10 DEF Closing, CutOff
<1> QED
  BY <1>4, <1>5, <1>9, <1>11, <1>12, <1>13, ReadsOnKeeps

\* A request that finishes gives its slot back exactly once.
LEMMA FinishKeeps ==
    ASSUME IInv, NEW q \in Requests, Finish(q)
    PROVE  IInv'
<1>1. /\ req[q] \in ReqRec /\ out[q] \in Seq(Items) /\ out = [out EXCEPT ![q] = out[q]]
      /\ Placed(req[q]) /\ Voiced(req[q], kind[q], out[q])
      /\ Closing(req[q], kind[q], out[q], gone[q])
  BY OfOne
<1>2. /\ req[q].pc = "finish" /\ active' = [active EXCEPT ![req[q].acct] = @ - 1]
      /\ req' = [req EXCEPT ![q] = returned(req[q])] /\ out' = [out EXCEPT ![q] = out[q]]
      /\ UNCHANGED <<kind, binding, gone>>
  BY <1>1, PickingTypes DEF Finish
<1>3. /\ req[q].attempt > 0 => req[q].lastErr \/ req[q].lastStatus
      /\ req[q].wrote => kind[q] \in Streaming
      /\ kind[q] \notin Anthropic => OneVoice(out[q])
      /\ ~gone[q] => Closed(out[q]) \/ CutOff(req[q], kind[q])
  BY <1>1, <1>2 DEF Placed, Voiced, Closing
<1> QED
  BY <1>1, <1>2, <1>3, PickingTypes, ReturnsWith DEF Holding

-----------------------------------------------------------------------------
(* The client and the clock. *)

\* A client that leaves has no claim to an answer any more.
LEMMA ClientLeavesKeeps ==
    ASSUME IInv, NEW q \in Requests, ClientLeaves(q)
    PROVE  IInv'
<1>1. TypeOK /\ SlotsReturned /\ \A p \in Requests : GoodReq(p)
  BY DEF IInv
<1>2. gone' = [gone EXCEPT ![q] = TRUE] /\ UNCHANGED <<kind, req, active, binding, out>>
  BY DEF ClientLeaves
<1>3. gone' \in [Requests -> BOOLEAN]
  BY <1>1, <1>2 DEF TypeOK
<1>4. TypeOK' /\ SlotsReturned'
  BY <1>1, <1>2, <1>3 DEF TypeOK, SlotsReturned
<1>5. ASSUME NEW p \in Requests
      PROVE  GoodReq(p)'
  <2>1. gone'[p] = gone[p] \/ gone'[p]
    BY <1>1, <1>2 DEF TypeOK
  <2>2. req'[p] = req[p] /\ kind'[p] = kind[p] /\ out'[p] = out[p]
    BY <1>2
  <2>3. Placed(req[p]) /\ Voiced(req[p], kind[p], out[p])
        /\ Closing(req[p], kind[p], out[p], gone[p])
    BY OfOne
  <2>4. Closing(req[p], kind[p], out[p], gone'[p])
    BY <2>1, <2>3 DEF Closing
  <2> QED
    BY <2>2, <2>3, <2>4 DEF GoodReq, Good
<1> QED
  BY <1>4, <1>5 DEF IInv

\* An expired binding names the account it named.
LEMMA BindingExpiresKeeps ==
    ASSUME IInv, NEW s \in Sessions, BindingExpires(s)
    PROVE  IInv'
<1>1. TypeOK /\ SlotsReturned /\ \A p \in Requests : GoodReq(p)
  BY DEF IInv
<1>2. /\ binding' = [binding EXCEPT ![s].fresh = FALSE] /\ binding[s].fresh
      /\ UNCHANGED <<kind, req, active, out, gone>>
  BY DEF BindingExpires
<1>3. binding' \in [Sessions -> Bindings]
  <2>1. binding \in [Sessions -> Bindings] /\ binding[s] \in [acct : Accounts, fresh : BOOLEAN]
    BY <1>1, <1>2 DEF TypeOK, Bindings, Unbound
  <2>2. [binding[s] EXCEPT !.fresh = FALSE] \in Bindings
    BY <2>1 DEF Bindings
  <2> QED
    BY <1>2, <2>1, <2>2
<1>4. TypeOK' /\ SlotsReturned'
  BY <1>1, <1>2, <1>3 DEF TypeOK, SlotsReturned
<1>5. \A p \in Requests : GoodReq(p)'
  BY <1>1, <1>2 DEF GoodReq
<1> QED
  BY <1>4, <1>5 DEF IInv

-----------------------------------------------------------------------------
(* The invariant holds at the start and is kept by every step. *)

\* The invariant holds at the start.
LEMMA InitIInv == Init => IInv
<1> SUFFICES ASSUME Init PROVE IInv
  OBVIOUS
<1>1. \A q \in Requests : req[q] \in ReqRec
  <2>1. ASSUME NEW q \in Requests
        PROVE  firstPhase(q) \in {"prefer", "plain", "wait"} /\ planExclude(q) \in SUBSET Accounts
    BY LoopAssumption DEF firstPhase, planExclude
  <2>2. 0 \in 0 .. MaxRetries + 1
    BY LoopAssumption
  <2> QED
    BY <2>1, <2>2 DEF Init, ReqRec, Pcs, Failures
<1>2. req \in [Requests -> ReqRec]
  BY <1>1 DEF Init
<1>3. active \in [Accounts -> 0 .. Limit]
  BY LoopAssumption DEF Init
<1>4. out \in [Requests -> Seq(Items)]
  BY DEF Init
<1>5. TypeOK
  BY <1>2, <1>3, <1>4 DEF Init, TypeOK, Items
<1>6. SlotsReturned
  <2>1. ASSUME NEW a \in Accounts
        PROVE  Holders(a) = {}
    BY DEF Init, Holders, Holding
  <2> QED
    BY <2>1, FS_EmptySet DEF Init, SlotsReturned, Holders
<1>7. ASSUME NEW q \in Requests
      PROVE  GoodReq(q)
  <2>1. /\ req[q].pc = "pick" /\ req[q].attempt = 0
        /\ ~req[q].wrote /\ ~req[q].writeErr /\ ~req[q].terminal /\ out[q] = <<>>
    BY DEF Init
  <2>2. Placed(req[q])
    BY <2>1, LoopAssumption DEF Placed, Holding
  <2>3. Voiced(req[q], kind[q], out[q])
    BY <2>1 DEF Voiced
  <2>4. Closing(req[q], kind[q], out[q], gone[q])
    BY <2>1 DEF Closing
  <2> QED
    BY <2>2, <2>3, <2>4 DEF GoodReq, Good
<1> QED
  BY <1>5, <1>6, <1>7 DEF IInv

\* The handlers take their steps in the same loop.
LEMMA Handlers ==
    ASSUME NEW q \in Requests,
           Responses(q) \/ ResponsesCompact(q) \/ ChatCompletions(q) \/ Messages(q)
    PROVE  PickStep(q) \/ CallStep(q) \/ ForwardEvent(q) \/ StreamEnds(q) \/ EndStep(q)
BY Zenon DEF Responses, ResponsesCompact, ChatCompletions, Messages

\* Every step keeps the invariant.
LEMMA NextIInv == IInv /\ [Next]_vars => IInv'
<1> SUFFICES ASSUME IInv, [Next]_vars PROVE IInv'
  OBVIOUS
<1>1. ASSUME NEW q \in Requests, PickStep(q)
      PROVE  IInv'
  BY <1>1, ReadBindingKeeps, PurgeBindingKeeps, TakeStickyKeeps, StickyUnavailableKeeps,
     TakeNextKeeps, NoneAvailableKeeps, BackoffKeeps, GiveUpKeeps DEF PickStep
<1>2. ASSUME NEW q \in Requests, CallStep(q)
      PROVE  IInv'
  BY <1>2, CallFailsKeeps, StreamOpensKeeps, CompactAnswerKeeps, UnbindAndRetryKeeps,
     ExhaustedKeeps DEF CallStep
<1>3. ASSUME NEW q \in Requests, StreamEnds(q)
      PROVE  IInv'
  BY <1>3, TerminalEventKeeps, CollectTerminalKeeps, StreamBreaksKeeps, CapacityErrorKeeps
     DEF StreamEnds
<1>4. ASSUME NEW q \in Requests, EndStep(q)
      PROVE  IInv'
  BY <1>4, RetryStreamKeeps, SettleKeeps, FinishKeeps DEF EndStep
<1>5. CASE UNCHANGED vars
  <2>1. TypeOK'
    BY <1>5 DEF IInv, TypeOK, vars
  <2>2. SlotsReturned'
    BY <1>5 DEF IInv, SlotsReturned, vars
  <2>3. \A q \in Requests : GoodReq(q)'
    BY <1>5 DEF IInv, GoodReq, vars
  <2> QED
    BY <2>1, <2>2, <2>3 DEF IInv
<1> QED
  BY <1>1, <1>2, <1>3, <1>4, <1>5, Handlers, ForwardEventKeeps, ClientLeavesKeeps,
     WaitTimesOutKeeps, BindingExpiresKeeps, Zenon DEF Next

\* The invariant of the request loop.
LEMMA LoopInvariant == Spec => []IInv
BY InitIInv, NextIInv, PTL DEF Spec

-----------------------------------------------------------------------------
(* Theorems. *)

\* On every path through a handler -- a failed call, a capacity error, a broken stream, an
\* answer, running out of attempts -- the slot that was taken is given back exactly once:
\* ActiveRequests counts the attempts under way.
THEOREM SlotsSoundHolds == Spec => []SlotsSound
<1>1. IInv => SlotsSound
  BY DEF IInv, SlotsSound
<1> QED
  BY <1>1, LoopInvariant, PTL

\* No attempt runs on an account that an earlier one, or the plan, has excluded, whether it
\* comes from the binding of the session or from the scheduler.
THEOREM NeverBackToExcludedHolds == Spec => []NeverBackToExcluded
<1>1. IInv => NeverBackToExcluded
  BY DEF IInv, GoodReq, Good, Placed, NeverBackToExcluded
<1> QED
  BY <1>1, LoopInvariant, PTL

\* Every client that stays is answered, and what it gets comes from one attempt, however
\* often the loop starts over.
THEOREM AnsweredOnceHolds == Spec => []AnsweredOnce
<1>1. IInv => OneAnswer
  <2> SUFFICES ASSUME IInv, NEW q \in Requests, kind[q] \notin Anthropic
               PROVE  OneVoice(out[q])
    BY DEF OneAnswer
  <2>1. Voiced(req[q], kind[q], out[q]) /\ req[q].pc \in Pcs
    BY OfOne DEF ReqRec
  <2>2. req[q].pc \in Unanswered => OneVoice(out[q])
    BY <2>1, Silent DEF Voiced
  <2>3. req[q].pc = "stream" => OneVoice(out[q])
    BY <2>1, Silent, OneItem DEF Voiced
  <2>4. req[q].pc \in {"ended", "finish", "return"} => OneVoice(out[q])
    BY <2>1 DEF Voiced
  <2> QED
    BY <2>1, <2>2, <2>3, <2>4 DEF Unanswered
<1>2. IInv => Answered
  BY OfOne DEF Answered, Closing, Closed, CutOff
<1> QED
  BY <1>1, <1>2, LoopInvariant, PTL DEF AnsweredOnce

\* A binding that has not expired goes only when a request fails on the account it names: a
\* purge that read an older one, or a request that failed elsewhere, leaves it.
LEMMA OnlyItsFailureUnbinds ==
    ASSUME IInv, [Next]_vars, NEW s \in Sessions, binding[s].fresh, binding'[s] = Unbound
    PROVE  \E q \in Requests :
              /\ SessionOf[q] = s
              /\ req[q].pc = "unbind" /\ req'[q].pc # "unbind"
              /\ req[q].acct = binding[s].acct
<1>1. binding \in [Sessions -> Bindings] /\ binding[s] # Unbound /\ binding'[s] # binding[s]
  BY DEF IInv, TypeOK, Unbound
<1>2. binding[s].acct # NoAccount
  BY <1>1, LoopAssumption DEF Bindings, Unbound
<1>3. ~UNCHANGED binding
  BY <1>1
<1>4. ASSUME NEW q \in Requests, PurgeBinding(q)
      PROVE  FALSE
  BY <1>1, <1>4, LoopAssumption DEF PurgeBinding
<1>5. ASSUME NEW q \in Requests, Settle(q)
      PROVE  FALSE
  BY <1>1, <1>5, LoopAssumption DEF Settle, Unbound
<1>6. ASSUME NEW t \in Sessions, BindingExpires(t)
      PROVE  FALSE
  BY <1>1, <1>2, <1>6 DEF BindingExpires, Unbound, Bindings
<1>7. ASSUME NEW q \in Requests, UnbindAndRetry(q)
      PROVE  SessionOf[q] = s /\ req[q].acct = binding[s].acct /\ req[q].pc = "unbind"
  BY <1>1, <1>7, LoopAssumption DEF UnbindAndRetry
<1>8. ASSUME NEW q \in Requests, UnbindAndRetry(q)
      PROVE  req'[q].pc # "unbind"
  <2>1. \A r : returned(r).pc # "unbind" /\ continued(q, r).pc # "unbind"
    BY DEF returned, continued
  <2>2. \E r : req' = [req EXCEPT ![q] = continued(q, r)] \/ req' = [req EXCEPT ![q] = returned(r)]
    BY <1>8 DEF UnbindAndRetry
  <2> QED
    BY <2>1, <2>2, PickingTypes
<1>9. ASSUME NEW q \in Requests, PickStep(q)
      PROVE  UNCHANGED binding \/ PurgeBinding(q)
  BY <1>9 DEF PickStep, ReadBinding, TakeSticky, StickyUnavailable, TakeNext, Take,
              NoneAvailable, Backoff, GiveUp
<1>10. ASSUME NEW q \in Requests, CallStep(q)
       PROVE  UNCHANGED binding \/ UnbindAndRetry(q)
  BY <1>10 DEF CallStep, CallFails, StreamOpens, CompactAnswer, Exhausted
<1>11. ASSUME NEW q \in Requests, ForwardEvent(q) \/ StreamEnds(q) \/ EndStep(q)
       PROVE  UNCHANGED binding \/ Settle(q)
  BY <1>11 DEF ForwardEvent, StreamEnds, TerminalEvent, CollectTerminal, StreamBreaks,
               CapacityError, EndStep, RetryStream, Finish
<1>12. ASSUME NEW q \in Requests, ClientLeaves(q) \/ WaitTimesOut(q)
       PROVE  UNCHANGED binding
  BY <1>12 DEF ClientLeaves, WaitTimesOut
<1>13. PICK q \in Requests : UnbindAndRetry(q)
  BY <1>3, <1>4, <1>5, <1>6, <1>9, <1>10, <1>11, <1>12, Handlers DEF Next, vars
<1> QED
  BY <1>7, <1>8, <1>13

\* A binding that has not expired is deleted only by a request of its session that failed on
\* the account it names, in every interleaving with the other requests of the session
\* (UnbindSessionAffinity).
THEOREM BindingKeptHolds == Spec => BindingKept
<1>1. IInv /\ [Next]_vars =>
        [\A s \in Sessions : binding[s].fresh /\ binding'[s] = Unbound =>
            \E q \in Requests :
                /\ SessionOf[q] = s
                /\ req[q].pc = "unbind" /\ req'[q].pc # "unbind"
                /\ req[q].acct = binding[s].acct]_vars
  BY OnlyItsFailureUnbinds
<1> QED
  BY <1>1, LoopInvariant, PTL DEF Spec, BindingKept

=============================================================================
