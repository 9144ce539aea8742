--------------------------- MODULE ExtractionTrial ----------------------------
(***************************************************************************)
(* The walletless trial of src/extraction-trial.mjs: a budget of HTTP hops *)
(* kept as files of one directory that several server processes may share. *)
(* spent-NN is one started hop, .active is the lease of the one request in *)
(* progress.  A request buys a slot and makes it durable before every hop. *)
(*                                                                         *)
(* Every step is one file-system call, because requests of one process     *)
(* interleave at each await and other processes anywhere.  What a call     *)
(* wrote survives the loss of the machine only once it was synced: the     *)
(* content of a slot by handle.sync, the entries by syncDirectory.         *)
(***************************************************************************)
EXTENDS Integers, FiniteSets

CONSTANTS
    Requests,      \* POSTs to /trial/extract and /trial/read, trial_read calls
    Processes,
    Process,       \* request -> the process that serves it
    MaxStarted,    \* the hops the authority grants
    MaxHops,       \* hops of one request: the first fetch and its redirects
    StartsAt, ExpiresAt,
    Inodes, NoLock,
    MaxTime        \* bound of the clock

ASSUME TrialAssumption ==
    /\ Process \in [Requests -> Processes]
    /\ MaxStarted \in Nat \ {0}
    /\ MaxHops \in Nat \ {0}
    /\ StartsAt \in Nat /\ ExpiresAt \in Nat
    /\ NoLock \notin Inodes

VARIABLES
    dir,       \* the directory as processes see it
    durable,   \* what the loss of the machine leaves of it
    now,
    phase,     \* where each request stands
    view,      \* the listing each request decides from
    slot,      \* the slot each request is buying or has bought
    lease,     \* the inode of .active as acquire saw it
    hops,      \* the hops each request made
    bought,    \* the hops made under each slot
    meddled    \* whether somebody else removed .active (for the properties)

vars ==
    <<dir, durable, now, phase, view, slot, lease, hops, bought, meddled>>

Slots == 1..MaxStarted

\* An entry is created empty, then written, then synced.
Contents == {"none", "empty", "written", "sealed"}

\* The phases from mkdir to rmdir, in order; then those in between a slot.
Holding == {"lock_sync", "lock_stat", "leased", "checking_spend", "opening",
            "writing", "sealing", "entering", "bought", "fetched",
            "releasing", "unlocking"}
Buying == {"writing", "sealing", "entering", "bought"}

Phases == Holding \cup {"idle", "checking", "locking", "unlock_sync", "done",
                        "abandoned"}

TypeOK ==
    /\ dir \in [slots : [Slots -> Contents], lock : Inodes \cup {NoLock}]
    /\ durable \in [slots : SUBSET Slots, lock : Inodes \cup {NoLock}]
    /\ now \in Nat
    /\ phase \in [Requests -> Phases]
    /\ view \in [Requests -> [started : Nat, active : BOOLEAN]]
    /\ slot \in [Requests -> Slots]
    /\ lease \in [Requests -> Inodes \cup {NoLock}]
    /\ hops \in [Requests -> Nat]
    /\ bought \in [Slots -> Nat]
    /\ meddled \in BOOLEAN

\* A provisioned authority nobody used.
Init ==
    /\ dir = [slots |-> [n \in Slots |-> "none"], lock |-> NoLock]
    /\ durable = [slots |-> {}, lock |-> NoLock]
    /\ now = 0
    /\ phase = [r \in Requests |-> "idle"]
    /\ view = [r \in Requests |-> [started |-> 0, active |-> FALSE]]
    /\ slot = [r \in Requests |-> 1]
    /\ lease = [r \in Requests |-> NoLock]
    /\ hops = [r \in Requests |-> 0]
    /\ bought = [n \in Slots |-> 0]
    /\ meddled = FALSE

Present == {n \in Slots : dir.slots[n] # "none"}

-----------------------------------------------------------------------------
(* state(): readdir takes the names, then the slots and .active are read,  *)
(* then the clock.                                                         *)

Listing == [started |-> Cardinality(Present), active |-> dir.lock # NoLock]

Intact(v) ==
    /\ \A n \in Slots :
         n <= v.started => dir.slots[n] \in {"written", "sealed"}
    /\ v.active => dir.lock # NoLock

Availability(v) ==
    IF ~Intact(v) THEN "unavailable"
    ELSE IF now < StartsAt THEN "scheduled"
    ELSE IF now >= ExpiresAt THEN "expired"
    ELSE IF v.started >= MaxStarted THEN "exhausted"
    ELSE IF v.active THEN "busy" ELSE "enabled"

Goto(r, p) == phase' = [phase EXCEPT ![r] = p]

Local == UNCHANGED <<dir, durable, now>>
Same == UNCHANGED <<view, slot, lease, hops, bought, meddled>>

\* syncDirectory: every entry present now is durable.
Synced == [slots |-> Present, lock |-> dir.lock]

-----------------------------------------------------------------------------
(* acquire *)

Arrive(r) ==
    /\ phase[r] = "idle"
    /\ view' = [view EXCEPT ![r] = Listing]
    /\ Goto(r, "checking")
    /\ Local /\ UNCHANGED <<slot, lease, hops, bought, meddled>>

Admit(r) ==
    /\ phase[r] = "checking"
    /\ Goto(r, IF Availability(view[r]) = "enabled" THEN "locking" ELSE "done")
    /\ Local /\ Same

\* mkdir is the mutual exclusion, between processes too.
LocksOverOthers(r) ==                                          \* mutant
    /\ phase[r] = "locking"
    /\ \E i \in Inodes : dir' = [dir EXCEPT !.lock = i]
    /\ Goto(r, "lock_sync")
    /\ UNCHANGED <<durable, now>> /\ Same

Lock(r) ==
    /\ phase[r] = "locking"
    /\ dir.lock = NoLock
    /\ \E i \in Inodes : dir' = [dir EXCEPT !.lock = i]
    /\ Goto(r, "lock_sync")
    /\ UNCHANGED <<durable, now>> /\ Same

AcquireRefused(r) ==
    /\ phase[r] \in {"checking", "locking"}
    /\ Goto(r, "done")
    /\ Local /\ Same

LeavesLockUnsynced(r) ==                                       \* mutant
    /\ phase[r] = "lock_sync"
    /\ Goto(r, "lock_stat")
    /\ Local /\ Same

SyncLock(r) ==
    /\ phase[r] = "lock_sync"
    /\ durable' = Synced
    /\ Goto(r, "lock_stat")
    /\ UNCHANGED <<dir, now>> /\ Same

StatLock(r) ==
    /\ phase[r] = "lock_stat"
    /\ dir.lock # NoLock
    /\ lease' = [lease EXCEPT ![r] = dir.lock]
    /\ Goto(r, "leased")
    /\ Local /\ UNCHANGED <<view, slot, hops, bought, meddled>>

\* No lease, no release: the lock stays closed.
AcquireFails(r) ==
    /\ \/ phase[r] = "lock_sync" /\ Goto(r, "done")
       \/ phase[r] = "lock_stat" /\ Goto(r, "abandoned")
    /\ Local /\ Same

-----------------------------------------------------------------------------
(* spend, before each hop *)

ListForSpend(r) ==
    /\ phase[r] = "leased"
    /\ view' = [view EXCEPT ![r] = Listing]
    /\ Goto(r, "checking_spend")
    /\ Local /\ UNCHANGED <<slot, lease, hops, bought, meddled>>

Orderly == {"expired", "exhausted", "scheduled"}

\* An answer other than busy ends the request; only an orderly one lets the
\* lease go.
CheckSpend(r) ==
    /\ phase[r] = "checking_spend"
    /\ LET a == Availability(view[r])
       IN  Goto(r, IF a = "busy" THEN "opening"
                   ELSE IF a \in Orderly THEN "releasing" ELSE "abandoned")
    /\ Local /\ Same

\* Exclusive creation: of two buyers of one slot the second fails.
Open(r) ==
    /\ phase[r] = "opening"
    /\ LET n == view[r].started + 1 IN
         /\ dir.slots[n] = "none"
         /\ dir' = [dir EXCEPT !.slots[n] = "empty"]
         /\ slot' = [slot EXCEPT ![r] = n]
    /\ Goto(r, "writing")
    /\ UNCHANGED <<durable, now, view, lease, hops, bought, meddled>>

Write(r) ==
    /\ phase[r] = "writing"
    /\ dir' = [dir EXCEPT !.slots[slot[r]] = "written"]
    /\ Goto(r, "sealing")
    /\ UNCHANGED <<durable, now>> /\ Same

Seal(r) ==
    /\ phase[r] = "sealing"
    /\ dir' = [dir EXCEPT !.slots[slot[r]] = "sealed"]
    /\ Goto(r, "entering")
    /\ UNCHANGED <<durable, now>> /\ Same

LeavesSlotUnsynced(r) ==                                       \* mutant
    /\ phase[r] = "entering"
    /\ Goto(r, "bought")
    /\ Local /\ Same

Enter(r) ==
    /\ phase[r] = "entering"
    /\ durable' = Synced
    /\ Goto(r, "bought")
    /\ UNCHANGED <<dir, now>> /\ Same

\* Uncertain persistence leaves the lease closed.
SpendFails(r) ==
    /\ phase[r] \in {"leased", "checking_spend", "opening", "writing",
                    "sealing", "entering"}
    /\ Goto(r, "abandoned")
    /\ Local /\ Same

-----------------------------------------------------------------------------
(* The fetch (fetchWithGuards) and release. *)

Fetch(r) ==
    /\ phase[r] = "bought"
    /\ hops' = [hops EXCEPT ![r] = @ + 1]
    /\ bought' = [bought EXCEPT ![slot[r]] = @ + 1]
    /\ Goto(r, "fetched")
    /\ Local /\ UNCHANGED <<view, slot, lease, meddled>>

\* The deadline passed while the slot was bought: no request is sent.
FetchAborted(r) ==
    /\ phase[r] = "bought"
    /\ Goto(r, "releasing")
    /\ Local /\ Same

Redirect(r) ==
    /\ phase[r] = "fetched"
    /\ hops[r] < MaxHops
    /\ Goto(r, "leased")
    /\ Local /\ Same

FinishFetch(r) ==
    /\ phase[r] = "fetched"
    /\ Goto(r, "releasing")
    /\ Local /\ Same

\* Only the lock that was leased is removed.
StatForRelease(r) ==
    /\ phase[r] = "releasing"
    /\ Goto(r, IF dir.lock = lease[r] THEN "unlocking" ELSE "done")
    /\ Local /\ Same

Unlock(r) ==
    /\ phase[r] = "unlocking"
    /\ dir' = [dir EXCEPT !.lock = NoLock]
    /\ Goto(r, "unlock_sync")
    /\ UNCHANGED <<durable, now>> /\ Same

SyncUnlock(r) ==
    /\ phase[r] = "unlock_sync"
    /\ durable' = Synced
    /\ Goto(r, "done")
    /\ UNCHANGED <<dir, now>> /\ Same

ReleaseFails(r) ==
    /\ \/ phase[r] \in {"releasing", "unlocking"} /\ Goto(r, "abandoned")
       \/ phase[r] = "unlock_sync" /\ Goto(r, "done")
    /\ Local /\ Same

-----------------------------------------------------------------------------
(* The environment *)

Tick ==
    /\ now < MaxTime
    /\ now' = now + 1
    /\ UNCHANGED <<dir, durable, phase>> /\ Same

\* Where a request of a dead process ends: with a durable lock still there,
\* or not.
EndOf(p) ==
    IF p \in {"idle", "done", "abandoned"} THEN p
    ELSE IF p \in Holding \ {"lock_sync"} THEN "abandoned" ELSE "done"

Kill(p) ==
    /\ phase' = [r \in Requests |->
                   IF Process[r] = p THEN EndOf(phase[r]) ELSE phase[r]]
    /\ UNCHANGED <<dir, durable, now>> /\ Same

\* The machine goes down: entries that were not synced may be gone, and
\* content that was not synced may be.
PowerLoss ==
    /\ \E kept \in SUBSET Present, torn \in SUBSET Present,
          lock \in {dir.lock, durable.lock} :
         /\ durable.slots \subseteq kept
         /\ \A n \in torn : dir.slots[n] # "sealed"
         /\ dir' = [slots |-> [n \in Slots |->
                                 IF n \notin kept THEN "none"
                                 ELSE IF n \in torn THEN "empty"
                                 ELSE dir.slots[n]],
                    lock |-> lock]
         /\ durable' = [slots |-> kept, lock |-> lock]
    /\ phase' = [r \in Requests |-> EndOf(phase[r])]
    /\ UNCHANGED now /\ Same

\* External: a hand removes .active.
RemoveLock ==
    /\ dir.lock # NoLock
    /\ dir' = [dir EXCEPT !.lock = NoLock]
    /\ durable' = [durable EXCEPT !.lock = NoLock]
    /\ meddled' = TRUE
    /\ UNCHANGED <<now, phase, view, slot, lease, hops, bought>>

Acquire(r) ==
    \/ Arrive(r) \/ Admit(r) \/ Lock(r) \/ AcquireRefused(r) \/ SyncLock(r)
    \/ StatLock(r) \/ AcquireFails(r)

Spend(r) ==
    \/ ListForSpend(r) \/ CheckSpend(r) \/ Open(r) \/ Write(r) \/ Seal(r)
    \/ Enter(r) \/ SpendFails(r)

Use(r) == Fetch(r) \/ FetchAborted(r) \/ Redirect(r) \/ FinishFetch(r)

Release(r) ==
    StatForRelease(r) \/ Unlock(r) \/ SyncUnlock(r) \/ ReleaseFails(r)

Next ==
    \/ \E r \in Requests : Acquire(r) \/ Spend(r) \/ Use(r) \/ Release(r)
    \/ \E p \in Processes : Kill(p)
    \/ Tick \/ PowerLoss \/ RemoveLock

Spec == Init /\ [][Next]_vars

-----------------------------------------------------------------------------
(* Properties. *)

\* Every hop was bought with a slot of its own that neither a restart nor the
\* loss of the machine can give back, whoever holds the lock ("Each attempted
\* HTTP hop [...] spends one durable start", extractionTrialContract).
HopsAreBought ==
    \A n \in Slots :
        /\ bought[n] <= 1
        /\ bought[n] = 1 => n \in durable.slots /\ dir.slots[n] = "sealed"

TakeTurns ==
    \A r, q \in Requests :
        /\ phase[r] \in Holding => dir.lock # NoLock
        /\ phase[r] \in Holding /\ phase[q] \in Holding => r = q

DoubtStays ==
    (\E q \in Requests : phase[q] = "abandoned") =>
        /\ dir.lock # NoLock
        /\ \A r \in Requests : phase[r] \notin Holding

\* As long as nobody else removes .active, requests of all processes take
\* turns: one at a time is between mkdir and rmdir, and the directory shows
\* its lock ("concurrency: 1").
OneLease == ~meddled => TakeTurns

\* Likewise a lease that ended in doubt, by a failed write or a dead process,
\* closes the trial for good ("Ambiguous authority never triggers
\* cleanup/retry").
DoubtCloses == ~meddled => DoubtStays

-----------------------------------------------------------------------------
(* The inductive invariants behind HopsAreBought and OneLease.             *)

\* The listing a slot number is taken from had room for it.
RoomToOpen ==
    \A r \in Requests : phase[r] = "opening" => view[r].started < MaxStarted

\* A slot being bought is on its way to durable, no hop used it, and nobody
\* else buys it.
PurchasesSound ==
    \A r \in Requests :
        phase[r] \in Buying =>
            /\ bought[slot[r]] = 0
            /\ phase[r] = "writing" => dir.slots[slot[r]] = "empty"
            /\ phase[r] = "sealing" => dir.slots[slot[r]] = "written"
            /\ phase[r] \in {"entering", "bought"} =>
                 dir.slots[slot[r]] = "sealed"
            /\ phase[r] = "bought" => slot[r] \in durable.slots
            /\ \A q \in Requests :
                 phase[q] \in Buying /\ slot[q] = slot[r] => q = r

\* What is durable is still there.
DurableIsPresent == \A n \in durable.slots : dir.slots[n] # "none"

HopInv ==
    RoomToOpen /\ PurchasesSound /\ DurableIsPresent /\ HopsAreBought

\* A lease is durable from its acquire's sync on, and its doubt with it.
LeaseIsDurable ==
    \A r \in Requests :
        phase[r] \in (Holding \ {"lock_sync"}) \cup {"abandoned"} =>
            durable.lock # NoLock

LeaseSound == TakeTurns /\ DoubtStays /\ LeaseIsDurable

LeaseInv == ~meddled => LeaseSound
=============================================================================
