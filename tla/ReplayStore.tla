----------------------------- MODULE ReplayStore -----------------------------
(***************************************************************************)
(* The journal file of one gateway process and the operation (mutate) that *)
(* reads, changes and rewrites it.  Operations are serialised by a promise *)
(* queue, so each is one step of the modules that EXTEND this one.         *)
(***************************************************************************)
EXTENDS ReplayJournal

VARIABLES
    disk,     \* idempotency-replay.json: its key epoch and its records
    now,      \* the clock
    epoch     \* the key epoch of the running process

ReadableNow == Readable(disk, epoch, now)
Recs == Live(disk.recs, now)

\* Under another secret no digest of the file matches a binding.
Recognised == IF disk.epoch = epoch THEN Recs ELSE {}

Commit(recs) ==
    /\ ReadableNow
    /\ Fits(recs)
    /\ disk' = [epoch |-> epoch, recs |-> recs]

\* The operation throws: before the rename nothing changed, after it the
\* new file is in place although the caller sees an error.
Throws(recs) == UNCHANGED disk \/ Commit(recs)

Expired(b) == b \in Dated /\ Until[b] <= now

\* Only an unknown, unexpired binding gets a reservation.
Reservable(b) ==
    /\ Found(Recognised, b) = {}
    /\ ~Expired(b)
    /\ Cardinality(Recs) < MaxEntries
=============================================================================
