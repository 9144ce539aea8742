-------------------------- MODULE JournalAdmission --------------------------
(***************************************************************************)
(* The admission gate of a directory, the write queue of the commerce      *)
(* telemetry before it and the observations owned beside it                *)
(* (src/commerce-journal-admission.mjs 24-157, src/commerce-events.mjs     *)
(* 3904-3923).  A flush waits for the queue, then for observations until   *)
(* none is left; a drain with a budget may give up.                        *)
(***************************************************************************)
EXTENDS FiniteSets, SequencesExt

CONSTANTS
    Writes,     \* works of the telemetry queue; each admits once more inside
    Notes,      \* continuation observations, each admits once
    Flushes,    \* callers of flush
    Drains      \* callers of drainJournalObservations with a budget

Works == Writes \cup Notes
Waiters == Flushes \cup Drains

VARIABLES
    queue,     \* writes enqueued and not ended
    gate,      \* works admitted and not ended; the head runs
    nested,    \* writes whose inner admission was granted
    notes,     \* observations started, in order
    tail,      \* how many of them observationTails holds; 0 when it was deleted
    ended,     \* works that ended, and are not counted any more
    waiter,    \* how far each flush and drain is
    awaits,    \* what it waits for
    asked,     \* what was enqueued and started when it was called
    pending    \* observations not ended when it returned

gateVars == <<queue, gate, nested, notes, tail, ended, waiter, awaits, asked, pending>>
workVars == <<queue, gate, nested, notes, tail, ended>>
waitVars == <<waiter, awaits, asked, pending>>

TypeOK ==
    /\ queue \in Seq(Writes)
    /\ gate \in Seq(Works)
    /\ nested \subseteq Writes
    /\ notes \in Seq(Notes)
    /\ tail \in 0..Len(notes)
    /\ ended \subseteq Works
    /\ waiter \in [Waiters -> {"new", "queue", "loop", "tail", "drained", "gave up"}]
    /\ awaits \in [Waiters -> SUBSET Works]
    /\ asked \in [Waiters -> SUBSET Works]
    /\ pending \in [Waiters -> SUBSET Notes]

Init ==
    /\ queue = <<>> /\ gate = <<>> /\ nested = {}
    /\ notes = <<>> /\ tail = 0 /\ ended = {}
    /\ waiter = [f \in Waiters |-> "new"]
    /\ awaits = [f \in Waiters |-> {}]
    /\ asked = [f \in Waiters |-> {}]
    /\ pending = [f \in Waiters |-> {}]

Unended == (ToSet(queue) \cup ToSet(notes)) \ ended

Enqueue(w) ==
    /\ w \notin ToSet(queue) \cup ended
    /\ queue' = Append(queue, w)
    /\ UNCHANGED <<gate, nested, notes, tail, ended, waitVars>>

\* ownJournalObservation.
Observe(o) ==
    /\ o \notin ToSet(notes)
    /\ notes' = Append(notes, o)
    /\ tail' = Len(notes')
    /\ UNCHANGED <<queue, gate, nested, ended, waitVars>>

\* A write when those before it ended, an observation when it starts to run.
Admit(w) ==
    /\ w \notin ToSet(gate) \cup ended
    /\ w \in ToSet(notes) \/ (queue # <<>> /\ Head(queue) = w)
    /\ gate' = Append(gate, w)
    /\ UNCHANGED <<queue, nested, notes, tail, ended, waitVars>>

\* mutant: the inner admission waits for its turn behind the work it is part of
WaitsItsTurn(w) == w # Head(gate) /\ nested' = nested \cup {w}

\* A store called inside an admitted work runs at once.
Reenters(w) == nested' = nested \cup {w}

Nest(w) ==
    /\ gate # <<>> /\ Head(gate) = w
    /\ w \in Writes \ nested
    /\ Reenters(w)
    /\ UNCHANGED <<queue, gate, notes, tail, ended, waitVars>>

\* Whether the work succeeds or fails, the next one is admitted.
End(w) ==
    /\ gate # <<>> /\ Head(gate) = w
    /\ w \in nested \cup Notes
    /\ gate' = Tail(gate)
    /\ queue' = IF w \in Writes THEN Tail(queue) ELSE queue
    /\ ended' = ended \cup {w}
    /\ UNCHANGED <<nested, notes, tail, waitVars>>

\* The last tail is resolved and still the one that is held.
Forget ==
    /\ tail # 0
    /\ ToSet(notes) \subseteq ended
    /\ tail' = 0
    /\ UNCHANGED <<queue, gate, nested, notes, ended, waitVars>>

Moves(f, stage, for) ==
    /\ waiter' = [waiter EXCEPT ![f] = stage]
    /\ awaits' = [awaits EXCEPT ![f] = for]

Call(f) ==
    /\ waiter[f] = "new"
    /\ IF f \in Flushes THEN Moves(f, "queue", ToSet(queue)) ELSE Moves(f, "loop", {})
    /\ asked' = [asked EXCEPT ![f] = Unended \cap (IF f \in Flushes THEN Works ELSE Notes)]
    /\ UNCHANGED <<workVars, pending>>

Return(f, how) ==
    /\ Moves(f, how, {})
    /\ pending' = [pending EXCEPT ![f] = ToSet(notes) \ ended]

\* mutant: a tail is waited for once
Once(f) == Return(f, "drained")

Again(f) == Moves(f, "loop", {}) /\ UNCHANGED pending

\* What was waited for is over: the queue, or a tail of observations.
Resume(f) ==
    /\ waiter[f] \in {"queue", "tail"}
    /\ awaits[f] \subseteq ended
    /\ IF waiter[f] = "queue" THEN Moves(f, "loop", {}) /\ UNCHANGED pending ELSE Again(f)
    /\ UNCHANGED <<workVars, asked>>

Loop(f) ==
    /\ waiter[f] = "loop"
    /\ IF tail = 0
       THEN Return(f, "drained")
       ELSE Moves(f, "tail", ToSet(SubSeq(notes, 1, tail))) /\ UNCHANGED pending
    /\ UNCHANGED <<workVars, asked>>

GiveUp(f) ==
    /\ f \in Drains
    /\ waiter[f] \in {"loop", "tail"}
    /\ Return(f, "gave up")
    /\ UNCHANGED <<workVars, asked>>

Serve(w) == Admit(w) \/ Nest(w) \/ End(w)
Wait(f) == Resume(f) \/ Loop(f)

Next ==
    \/ \E w \in Writes : Enqueue(w)
    \/ \E o \in Notes : Observe(o)
    \/ \E w \in Works : Serve(w)
    \/ Forget
    \/ \E f \in Waiters : Call(f) \/ Wait(f) \/ GiveUp(f)

Spec == Init /\ [][Next]_gateVars

\* Promises are resolved and awaited works run on; file-system calls return.
Fairness ==
    /\ WF_gateVars(\E w \in Works : Serve(w))
    /\ WF_gateVars(Forget)
    /\ \A f \in Flushes : WF_gateVars(Wait(f))

-----------------------------------------------------------------------------
\* A flush returns when the writes and the observations before it have ended
\* and no observation is on its way: "a late journal create cannot outlive
\* flush" (commerce-events.mjs:3919).
FlushIsComplete ==
    \A f \in Waiters : waiter[f] = "drained" => asked[f] \subseteq ended /\ pending[f] = {}

\* Neither the writes that admit others inside the gate nor the observations
\* that wait for it keep a flush from returning
\* (commerce-journal-admission.mjs:26, 60-64).
FlushReturns ==
    \A f \in Flushes : waiter[f] = "queue" ~> waiter[f] = "drained"
=============================================================================
