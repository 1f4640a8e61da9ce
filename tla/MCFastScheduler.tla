--------------------------- MODULE MCFastScheduler ---------------------------
(***************************************************************************)
(* Instances of FastScheduler for TLC.                                     *)
(***************************************************************************)
EXTENDS FastScheduler

V(tier, score, proven, available) ==
    [tier |-> tier, score |-> score, limit |-> 1, proven |-> proven,
     available |-> available]

\* Two tiers, proven and unproven accounts, and an account in cooldown.
TierViews == {V("healthy", 2, TRUE, TRUE), V("risky", 1, FALSE, TRUE), V("warm", 1, TRUE, FALSE)}

\* One bucket long enough for the round-robin, and an account that drops out.
RotatingViews == {V("healthy", 2, TRUE, TRUE), V("healthy", 1, FALSE, TRUE),
                  V("warm", 1, TRUE, FALSE)}
=============================================================================
