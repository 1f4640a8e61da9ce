------------------------------ MODULE MCLiveness ------------------------------
(***************************************************************************)
(* What must eventually happen, with the fairness of each component's own   *)
(* specification: in the retry loop of the handlers, in the scheduler's     *)
(* scans and in the rate limiter.  They share no variable; in a behaviour   *)
(* one of them, the focus, moves and the others stay where they start.      *)
(***************************************************************************)
EXTENDS MCRequestLoop, MCFastScheduler, RateLimit

VARIABLE focus   \* the component that moves

livenessVars == <<focus, vars, fsVars, rlVars>>

GlobalAndAccount == <<"global", "account">>
ShortThenLong    == <<1, 3>>

\* Where a component may start in several states, only the focus does.
LivenessInit ==
    /\ focus \in {"requests", "scans", "limits"}
    /\ Init
    /\ focus # "requests" => /\ \A q \in Requests : kind[q] = "responses"
                             /\ \A s \in Sessions : binding[s] = Unbound
    /\ FsInit /\ (focus # "scans" => view = [a \in Ids |-> V("healthy", 2, TRUE, TRUE)])
    /\ RateLimitInit

LivenessNext ==
    /\ UNCHANGED focus
    /\ \/ focus = "requests" /\ Next /\ UNCHANGED <<fsVars, rlVars>>
       \/ focus = "scans" /\ FsNext /\ UNCHANGED <<vars, rlVars>>
       \/ focus = "limits" /\ RateLimitNext /\ UNCHANGED <<vars, fsVars>>

\* The fairness of FairSpec, FsFairSpec and RateLimitFairness, each for the
\* behaviours in which its component moves.
LivenessFairness ==
    /\ \A q \in Requests :
          /\ WF_vars(focus = "requests" /\ (PickStep(q) \/ CallStep(q) \/ StreamEnds(q) \/ EndStep(q)))
          /\ WF_vars(focus = "requests" /\ WaitTimesOut(q))
    /\ WF_fsVars(focus = "scans" /\ ScanStep)
    /\ WF_rlVars(focus = "limits" /\ RateLimitTick)
    /\ \A c \in Callers :
          WF_rlVars(focus = "limits" /\ Arrive(c)) /\ WF_rlVars(focus = "limits" /\ Continue(c))

LivenessSpec == LivenessInit /\ [][LivenessNext]_livenessVars /\ LivenessFairness

\* Every request to a handler comes to an end: attempts are counted, also those that go
\* back to the same account, and waiting for an account has a deadline (RequestLoop).
HandlersReturn == \A q \in Requests : focus = "requests" ~> req[q].pc = "return"

\* The cooldown grows with every refusal and nothing resets its level, but it never shuts
\* the service for good: while the global limit stays what it is and clients keep
\* asking, even during the cooldown, requests go on being let through (RateLimit).
GlobalServes ==
    \A n \in Rpms \ {0} :
        <>[](focus = "limits" /\ rlRpm[Global] = n) => []<>(rlPassed[Global][1] > 0)

=============================================================================
