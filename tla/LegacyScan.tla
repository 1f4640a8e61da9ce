------------------------------ MODULE LegacyScan ------------------------------
(***************************************************************************)
(* Store.NextExcluding with the fast scheduler switched off, which is the  *)
(* default: every request walks the whole pool under a read lock, keeps    *)
(* the best account it has seen, and counts itself on that account when    *)
(* the walk is over.  Several walks run at once; only the load of the      *)
(* accounts changes meanwhile, through the atomic counter ActiveRequests.  *)
(***************************************************************************)
EXTENDS Integers, Sequences

CONSTANTS
    Pool,       \* Store.accounts, the sequence of account ids that is walked
    Requests,
    Views,      \* what IsAvailable and schedulerSnapshot may say of an account
    Excludes,   \* accounts a retried request may rule out
    NoAccount

ASSUME PoolAssumption ==
    /\ Pool \in Seq({Pool[i] : i \in DOMAIN Pool})
    /\ NoAccount \notin {Pool[i] : i \in DOMAIN Pool}
ASSUME ViewsAssumption ==
    Views \subseteq [available : BOOLEAN, priority : 0..3, score : Int, limit : Nat]
ASSUME ExcludesAssumption ==
    Excludes \subseteq SUBSET {Pool[i] : i \in DOMAIN Pool}

Accounts == {Pool[i] : i \in DOMAIN Pool}

VARIABLES
    view,    \* the accounts, fixed during a behaviour
    active,  \* Account.ActiveRequests
    walk     \* the requests

vars == <<view, active, walk>>

\* pos: the next account to visit.  seen: the accounts the walk found fit to be
\* taken when it visited them, a record for the properties.
NoWalk == [pc |-> "idle", exclude |-> {}, pos |-> 1, best |-> NoAccount, load |-> 0,
           seen |-> {}]

Begin(q, exclude) ==
    /\ walk[q].pc = "idle"
    /\ walk' = [walk EXCEPT ![q] = [NoWalk EXCEPT !.pc = "walk", !.exclude = exclude]]
    /\ UNCHANGED <<view, active>>

Fit(a, exclude) ==
    /\ a \notin exclude
    /\ view[a].available
    /\ active[a] < view[a].limit

\* Mutant: a higher score wins across tiers.
replacesAcrossTiers(a, w) ==
    IF w.best = NoAccount THEN {TRUE}
    ELSE {view[a].score > view[w.best].score}

\* Whether account a replaces the best one so far: tier, then dispatch score, then
\* load; an exact tie is decided by chance.
replaces(a, w) ==
    IF w.best = NoAccount THEN {TRUE}
    ELSE LET v == view[a]
             b == view[w.best]
         IN  CASE v.priority # b.priority -> {v.priority > b.priority}
               [] v.priority = b.priority /\ v.score # b.score -> {v.score > b.score}
               [] OTHER -> IF active[a] = w.load THEN BOOLEAN ELSE {active[a] < w.load}

Visit(q) ==
    LET w == walk[q]
        a == Pool[w.pos]
    IN  /\ w.pc = "walk"
        /\ w.pos <= Len(Pool)
        /\ IF Fit(a, w.exclude)
           THEN \E better \in replaces(a, w) :
                   walk' = [walk EXCEPT
                       ![q].pos  = @ + 1,
                       ![q].best = IF better THEN a ELSE @,
                       ![q].load = IF better THEN active[a] ELSE @,
                       ![q].seen = @ \cup {a}]
           ELSE walk' = [walk EXCEPT ![q].pos = @ + 1]
        /\ UNCHANGED <<view, active>>

\* The walk is over: the counter is incremented without a second look at it.
Take(q) ==
    LET best == walk[q].best
    IN  /\ walk[q].pc = "walk"
        /\ walk[q].pos > Len(Pool)
        /\ IF best = NoAccount
           THEN walk' = [walk EXCEPT ![q] = NoWalk] /\ UNCHANGED active
           ELSE /\ walk' = [walk EXCEPT ![q].pc = "run"]
                /\ active' = [active EXCEPT ![best] = @ + 1]
        /\ UNCHANGED view

Release(q) ==
    /\ walk[q].pc = "run"
    /\ active' = [active EXCEPT ![walk[q].best] = @ - 1]
    /\ walk' = [walk EXCEPT ![q] = NoWalk]
    /\ UNCHANGED view

Init ==
    /\ view \in [Accounts -> Views]
    /\ active = [a \in Accounts |-> 0]
    /\ walk = [q \in Requests |-> NoWalk]

Next ==
    \E q \in Requests :
        \/ \E exclude \in Excludes : Begin(q, exclude)
        \/ Visit(q)
        \/ Take(q)
        \/ Release(q)

Spec == Init /\ [][Next]_vars

-----------------------------------------------------------------------------
(* Properties. *)

\* A finished walk hands out the best of the accounts it saw fit: none of them is
\* in a higher tier, none of the same tier has a higher score, and a walk that saw
\* a fit account never comes back empty.
BestOfSeen ==
    \A q \in Requests : walk[q].pc = "run" \/ walk[q].pos > Len(Pool) =>
        /\ walk[q].best = NoAccount <=> walk[q].seen = {}
        /\ \A a \in walk[q].seen :
             LET v == view[a]
                 b == view[walk[q].best]
             IN  /\ walk[q].best \in walk[q].seen
                 /\ \/ b.priority > v.priority
                    \/ b.priority = v.priority /\ b.score >= v.score

=============================================================================
