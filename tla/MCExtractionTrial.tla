-------------------------- MODULE MCExtractionTrial ---------------------------
(* Finite instances of ExtractionTrial. *)
EXTENDS ExtractionTrial, TLC

CONSTANTS r1, r2, r3, p1, p2

\* Two requests of one server process and one of another.
MCProcess == [r \in Requests |-> IF r = r3 THEN p2 ELSE p1]

Perms == Permutations(Requests \ {r3}) \cup Permutations(Inodes)
=============================================================================
