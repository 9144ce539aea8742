---------------------------- MODULE MCReplayHttp -----------------------------
(* Finite instances of ReplayHttp. *)
EXTENDS ReplayHttp, TLC

CONSTANTS a, a2, b, b2, m, u, k1, k2, k3, k4, c1, c2, c3, c4

\* "a" and "a2" carry the same signed nonce under two payment identifiers,
\* and "a2" stays valid longer; "b" and "b2" reuse the payment identifier of
\* "a" with nonces of their own, "b2" with a long validity; "m" is an MPP
\* charge, "u" has no finite validity.
MCKey == [x \in Bindings |->
    CASE x \in {a, b, b2} -> k1 [] x = a2 -> k2 [] x = m -> k3 [] x = u -> k4]
MCCred == [x \in Bindings |->
    CASE x \in {a, a2} -> c1 [] x = b -> c3 [] x = b2 -> c4
      [] x = m -> NoCred [] x = u -> c2]
MCUntil == [x \in Bindings |->
    CASE x = a -> 2 [] x = a2 -> 4 [] x = b -> 3 [] x = b2 -> 6
      [] x = m -> 3 [] x = u -> 0]

Perms == Permutations(Requests)
=============================================================================
