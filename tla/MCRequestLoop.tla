---------------------------- MODULE MCRequestLoop ----------------------------
(***************************************************************************)
(* Instances of RequestLoop for TLC.                                       *)
(***************************************************************************)
EXTENDS RequestLoop, TLC

CONSTANTS a1, a2, q1, q2, s1

TwoAccounts == {a1, a2}
OneRequest  == {q1}
TwoRequests == {q1, q2}
OneSession  == [q \in Requests |-> s1]

\* The first request may be for any handler (a chat stream takes the same steps as
\* a responses stream), the second shares its session.
AnyAndResponses == q1 :> AllKinds \ {"chat_stream"} @@ q2 :> {"responses"}
AnyKind         == q1 :> AllKinds
AnyMessages     == q1 :> Anthropic

=============================================================================
