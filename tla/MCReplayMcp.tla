----------------------------- MODULE MCReplayMcp ------------------------------
(* Finite instances of ReplayMcp. *)
EXTENDS ReplayMcp, TLC

CONSTANTS b1, b2, b3, k1, k2, c1, c2, c3

\* "b3" is a second credential under the payment identifier of "b1", valid as
\* long as that; "b2" is valid longer, and while it is valid longer than TTL it
\* is refused (RefuseUnbounded).
MCKey == [x \in Bindings |-> IF x = b2 THEN k2 ELSE k1]
MCCred == [x \in Bindings |-> CASE x = b1 -> c1 [] x = b2 -> c2 [] x = b3 -> c3]
MCUntil == [x \in Bindings |-> IF x = b2 THEN 2 ELSE 1]

Perms == Permutations(Requests \ Recoveries) \cup Permutations(Recoveries)
=============================================================================
