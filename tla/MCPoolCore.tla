------------------------------ MODULE MCPoolCore ------------------------------
(***************************************************************************)
(* Instances, for TLC, of the account pool, which knows the scheduler as an *)
(* index, and of the scheduler behind it.  They share no variable; in a     *)
(* behaviour one of them, the focus, moves and the other stays where it     *)
(* starts.                                                                  *)
(***************************************************************************)
EXTENDS MCAccountPool, MCFastScheduler

VARIABLE focus   \* the component that moves

coreVars == <<focus, vars, fsVars>>

\* Where a component may start in several states, only the focus does.
CoreInit ==
    /\ focus \in {"pool", "scheduler"}
    /\ Init
    /\ FsInit /\ (focus # "scheduler" => view = [a \in Ids |-> V("healthy", 2, TRUE, TRUE)])

CoreNext ==
    /\ UNCHANGED focus
    /\ \/ focus = "pool" /\ Next /\ UNCHANGED fsVars
       \/ focus = "scheduler" /\ FsNext /\ UNCHANGED vars

CoreSpec == CoreInit /\ [][CoreNext]_coreVars
=============================================================================
