---------------------------- MODULE SchedulerIndex ----------------------------
(***************************************************************************)
(* What the fast scheduler promises its callers: every account is filed    *)
(* under at most one tier; an account is handed out only while the tier it *)
(* is filed under is its current one, it is available, and it has a free   *)
(* slot.  Module AccountPool uses the scheduler in this form; module       *)
(* FastScheduler, with its buckets, positions and cursors, implements it.  *)
(***************************************************************************)
EXTENDS Integers

CONSTANTS Ids,        \* account ids
          Views       \* what fastSchedulerSnapshot may return for an account

VARIABLES index,      \* the tier an account is filed under, or NoEntry
          view,       \* what fastSchedulerSnapshot returns now
          active      \* Account.ActiveRequests

NoEntry == "none"

ivars == <<index, view, active>>

filedUnder(v) == IF v.available /\ v.limit > 0 THEN v.tier ELSE NoEntry

Init ==
    /\ index = [a \in Ids |-> NoEntry]
    /\ view \in [Ids -> Views]
    /\ active = [a \in Ids |-> 0]

\* Reports, cooldowns, usage and the clock change an account at any time.
Change(a) ==
    /\ \E v \in Views : view' = [view EXCEPT ![a] = v]
    /\ UNCHANGED <<index, active>>

\* An account is filed by what it is now.
File(a) ==
    /\ index' = [index EXCEPT ![a] = filedUnder(view[a])]
    /\ UNCHANGED <<view, active>>

Drop(a) ==
    /\ index' = [index EXCEPT ![a] = NoEntry]
    /\ UNCHANGED <<view, active>>

\* A rebuilt scheduler files the pool and nothing else.
Install(pool) ==
    /\ index' = [a \in Ids |-> IF a \in pool THEN filedUnder(view[a]) ELSE NoEntry]
    /\ UNCHANGED <<view, active>>

HandOut(a) ==
    /\ index[a] # NoEntry
    /\ index[a] = view[a].tier
    /\ view[a].available
    /\ active[a] < view[a].limit
    /\ active' = [active EXCEPT ![a] = @ + 1]
    /\ UNCHANGED <<index, view>>

Release(a) ==
    /\ active[a] > 0
    /\ active' = [active EXCEPT ![a] = @ - 1]
    /\ UNCHANGED <<index, view>>

Next ==
    \/ \E a \in Ids : Change(a) \/ File(a) \/ Drop(a) \/ HandOut(a) \/ Release(a)
    \/ \E pool \in SUBSET Ids : Install(pool)

Spec == Init /\ [][Next]_ivars

=============================================================================
