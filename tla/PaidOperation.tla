---------------------------- MODULE PaidOperation ----------------------------
(***************************************************************************)
(* What the gateway promises about one signed credential, without journal, *)
(* requests or faults: at most one settlement attempt, a charge only       *)
(* through that attempt, and a result only after the charge.  The promises *)
(* are those of replay-boundary.http.test.mjs and                          *)
(* test/prepared-http-result-retention.test.mjs (settle and handler called *)
(* once over retries and restarts; prepared bytes are never delivered).    *)
(***************************************************************************)
EXTENDS Naturals

CONSTANT Operations

VARIABLES
    attempts,   \* settle calls made for each operation
    charged,    \* the operations whose payment was executed
    delivered   \* the operations whose result some client received

vars == <<attempts, charged, delivered>>

Init ==
    /\ attempts = [o \in Operations |-> 0]
    /\ charged = {}
    /\ delivered = {}

Attempt(o) ==
    /\ attempts[o] = 0
    /\ attempts' = [attempts EXCEPT ![o] = 1]
    /\ UNCHANGED <<charged, delivered>>

Charge(o) ==
    /\ attempts[o] = 1
    /\ o \notin charged
    /\ charged' = charged \cup {o}
    /\ UNCHANGED <<attempts, delivered>>

Deliver(o) ==
    /\ o \in charged
    /\ delivered' = delivered \cup {o}
    /\ UNCHANGED <<attempts, charged>>

Next == \E o \in Operations : Attempt(o) \/ Charge(o) \/ Deliver(o)

Spec == Init /\ [][Next]_vars
=============================================================================
