------------------------------- MODULE MCUpkeep -------------------------------
(***************************************************************************)
(* Instances, for TLC, of what keeps the accounts usable between requests:  *)
(* their tokens, their connections and their rows in the table.  They share *)
(* no variable; in a behaviour one of them, the focus, moves and the others *)
(* stay where they start.                                                   *)
(***************************************************************************)
EXTENDS MCTokenRefresh, Transport, AccountLifecycle

VARIABLE focus   \* the component that moves

upkeepVars == <<focus, vars, tpVars, lcVars>>

\* Where a component may start in several states, only the focus does.
UpkeepInit ==
    /\ focus \in {"tokens", "transport", "lifecycle"}
    /\ Init
    /\ focus # "tokens" => may = {"cache"} /\ ~upstream.rotating /\ acc.rt = 1 /\ acc.at = 0
    /\ TransportInit
    /\ LifecycleInit

UpkeepNext ==
    /\ UNCHANGED focus
    /\ \/ focus = "tokens" /\ Next /\ UNCHANGED <<tpVars, lcVars>>
       \/ focus = "transport" /\ TransportNext /\ UNCHANGED <<vars, lcVars>>
       \/ focus = "lifecycle" /\ LifecycleNext /\ UNCHANGED <<vars, tpVars>>

UpkeepSpec == UpkeepInit /\ [][UpkeepNext]_upkeepVars
=============================================================================
