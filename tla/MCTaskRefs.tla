----------------------------- MODULE MCTaskRefs -----------------------------
(* Finite instances of TaskRefJournal: both writers are asked to append the *)
(* same reference, as customer-grant.mjs:427 and the finish of the response *)
(* (commerce-events.mjs:4571) do.                                           *)
EXTENDS TaskRefJournal

CONSTANTS telemetry, reuse, r1, r2

SharedOffers == {<<telemetry, r1>>, <<telemetry, r2>>, <<reuse, r1>>}
=============================================================================
