--------------------------- MODULE CompareWorkers ---------------------------
(***************************************************************************)
(* The comparison workers of src/page-change-http.mjs (462-598): each      *)
(* comparison runs in a child process of its own, a bounded number at a    *)
(* time.  Close, error, output ceiling, timeout and abort race to settle   *)
(* it; a failure stops the child and answers when its exit was seen.       *)
(***************************************************************************)
EXTENDS Naturals, FiniteSets

CONSTANTS
    Jobs,            \* comparisons
    MaxConcurrent    \* limits.maxConcurrent

VARIABLES
    owned,     \* ownedWorkers
    settling,  \* how far each comparison is settled
    child,     \* its process, as the kernel and the events about it show it
    signalled  \* the signal sent to it last

workerVars == <<owned, settling, child, signalled>>

\* A child is "unborn" when the spawn failed and its error is not yet
\* reported, "dead" until its exit event runs, "exited" until its output is
\* read to the end.
TypeOK ==
    /\ owned \subseteq Jobs
    /\ settling \in [Jobs -> {"new", "open", "reaping", "refused", "failed", "succeeded"}]
    /\ child \in [Jobs -> {"none", "unborn", "running", "dead", "exited", "closed"}]
    /\ signalled \in [Jobs -> {"none", "SIGTERM", "SIGKILL"}]

Init ==
    /\ owned = {}
    /\ settling = [j \in Jobs |-> "new"]
    /\ child = [j \in Jobs |-> "none"]
    /\ signalled = [j \in Jobs |-> "none"]

Settle(j, how) == settling' = [settling EXCEPT ![j] = how]
Turns(j, state) == child' = [child EXCEPT ![j] = state]

Refuse(j) ==
    /\ settling[j] = "new"
    /\ Cardinality(owned) >= MaxConcurrent
    /\ Settle(j, "refused")
    /\ UNCHANGED <<owned, child, signalled>>

Spawn(j) ==
    /\ settling[j] = "new"
    /\ Cardinality(owned) < MaxConcurrent
    /\ owned' = owned \cup {j}
    /\ Settle(j, "open")
    /\ \E state \in {"running", "unborn"} : Turns(j, state)
    /\ UNCHANGED signalled

\* reapPageChangeWorker: nothing to wait for when the child never started or
\* its exit was seen.
Reap(j) ==
    IF child[j] \in {"unborn", "exited", "closed"}
    THEN owned' = owned \ {j} /\ Settle(j, "failed") /\ UNCHANGED signalled
    ELSE Settle(j, "reaping") /\ signalled' = [signalled EXCEPT ![j] = "SIGTERM"] /\ UNCHANGED owned

\* The time is up, or the output exceeds the ceiling.
Fail(j) ==
    /\ settling[j] = "open"
    /\ Reap(j)
    /\ UNCHANGED child

\* The error of a spawn, and the close that follows it.
SpawnFails(j) ==
    /\ child[j] = "unborn"
    /\ IF settling[j] = "open" THEN Reap(j) ELSE UNCHANGED <<owned, settling, signalled>>
    /\ Turns(j, "closed")

\* mutant: SIGTERM is sent once more
AsksAgain(j) == signalled' = [signalled EXCEPT ![j] = "SIGTERM"]

Kills(j) == signalled' = [signalled EXCEPT ![j] = "SIGKILL"]

EndOfGrace(j) ==
    /\ settling[j] = "reaping"
    /\ child[j] \in {"running", "dead"}
    /\ Kills(j)
    /\ UNCHANGED <<owned, settling, child>>

\* The process ends, with its report written or not; SIGTERM may be ignored,
\* SIGKILL is not.
Die(j) ==
    /\ child[j] = "running"
    /\ Turns(j, "dead")
    /\ UNCHANGED <<owned, settling, signalled>>

\* The listeners of trackWorker and of the reaping.
OnExit(j) == owned' = owned \ {j} /\ (IF settling[j] = "reaping" THEN Settle(j, "failed") ELSE UNCHANGED settling)

Exit(j) ==
    /\ child[j] = "dead"
    /\ OnExit(j)
    /\ Turns(j, "exited")
    /\ UNCHANGED signalled

\* The report is whole or it is not; only an open comparison looks at it.
Close(j) ==
    /\ child[j] = "exited"
    /\ \/ settling[j] = "open" /\ \E how \in {"succeeded", "failed"} : Settle(j, how)
       \/ settling[j] # "open" /\ UNCHANGED settling
    /\ owned' = owned \ {j}
    /\ Turns(j, "closed")
    /\ UNCHANGED signalled

Next == \E j \in Jobs :
    \/ Refuse(j) \/ Spawn(j) \/ Fail(j) \/ SpawnFails(j)
    \/ EndOfGrace(j) \/ Die(j) \/ Exit(j) \/ Close(j)

Spec == Init /\ [][Next]_workerVars

\* Timers fire, SIGKILL ends a process, its exit is reported.  Nothing is
\* assumed of a worker that was not killed, nor of the end of its output.
Fairness == \A j \in Jobs :
    WF_workerVars(\/ Fail(j) \/ SpawnFails(j) \/ EndOfGrace(j) \/ Exit(j)
                  \/ signalled[j] = "SIGKILL" /\ Die(j))

-----------------------------------------------------------------------------
\* No more processes run than the capacity allows, and a comparison that was
\* answered leaves none behind, whichever of exit, close, error, timeout and
\* abort came first (page-change-http.mjs:503, 529).
NoStrayWorker ==
    LET alive == {j \in Jobs : child[j] = "running"}
    IN  /\ Cardinality(alive) <= MaxConcurrent
        /\ \A j \in alive : settling[j] \in {"open", "reaping"}
=============================================================================
