--------------------------- MODULE CompareExchange --------------------------
(***************************************************************************)
(* The requests in front of the comparison workers.  A request of          *)
(* src/page-change-http.mjs (656-751, 856-905) or of the MCP profile       *)
(* (src/page-change-mcp.mjs 173-271) holds a slot from its arrival to its  *)
(* answer, reads its body and compares within one deadline, and stops its  *)
(* worker when its client is gone.  A call of the tool at /mcp             *)
(* (server.js:4544) has no slot and no client to lose.                     *)
(***************************************************************************)
EXTENDS Naturals, FiniteSets

CONSTANTS
    Jobs, MaxConcurrent,
    HttpJobs, ProfileJobs    \* jobs with an exchange

VARIABLES
    owned, settling, child, signalled,
    exchange,   \* how far each exchange is
    active,     \* activeRequests
    gone        \* clients whose connection closed before the answer

workerVars == <<owned, settling, child, signalled>>
exchangeVars == <<exchange, active, gone>>

Workers == INSTANCE CompareWorkers

Exchanges == HttpJobs \cup ProfileJobs
InProgress == {j \in Exchanges : exchange[j] \in {"reading", "comparing"}}

TypeOK ==
    /\ Workers!TypeOK
    /\ exchange \in [Exchanges -> {"new", "reading", "comparing", "refused", "released"}]
    /\ active \in 0..MaxConcurrent
    /\ gone \subseteq Exchanges

Init ==
    /\ Workers!Init
    /\ exchange = [j \in Exchanges |-> "new"]
    /\ active = 0
    /\ gone = {}

Goes(j, stage) == exchange' = [exchange EXCEPT ![j] = stage]

\* beginPageChangeExchange.
Begin(j) ==
    /\ exchange[j] = "new"
    /\ \/ active < MaxConcurrent /\ active' = active + 1 /\ Goes(j, "reading")
       \/ active >= MaxConcurrent /\ Goes(j, "refused") /\ UNCHANGED active
    /\ UNCHANGED <<workerVars, gone>>

Release(j) ==
    /\ active' = active - 1
    /\ Goes(j, "released")
    /\ UNCHANGED gone

\* The body is too large, not admitted or not there in time, no time is left for
\* the comparison, the client is gone.
ReadFails(j) ==
    /\ exchange[j] = "reading"
    /\ Release(j)
    /\ UNCHANGED workerVars

Start(j) == Workers!Refuse(j) \/ Workers!Spawn(j)

\* mutant: who left between the body and the worker is not looked for
ComparesForNobody(j) ==
    /\ exchange[j] = "reading"
    /\ Goes(j, "comparing")
    /\ Start(j)
    /\ UNCHANGED <<active, gone>>

Compare(j) ==
    /\ exchange[j] = "reading"
    /\ j \notin gone
    /\ Goes(j, "comparing")
    /\ Start(j)
    /\ UNCHANGED <<active, gone>>

CallTool(j) ==
    /\ j \notin Exchanges
    /\ Start(j)
    /\ UNCHANGED exchangeVars

\* onClientGone, and the abort handler of the comparison in the same turn.
ClientGone(j) ==
    /\ j \in InProgress \ gone
    /\ gone' = gone \cup {j}
    /\ IF settling[j] = "open" THEN Workers!Reap(j) ELSE UNCHANGED <<owned, settling, signalled>>
    /\ UNCHANGED <<child, exchange, active>>

Answer(j) ==
    /\ exchange[j] = "comparing"
    /\ settling[j] \in {"refused", "failed", "succeeded"}
    /\ Release(j)
    /\ UNCHANGED workerVars

\* The transport of the profile need not wait for the tool once the response is
\* closed.
TransportReturns(j) ==
    /\ j \in ProfileJobs \cap gone
    /\ exchange[j] = "comparing"
    /\ Release(j)
    /\ UNCHANGED workerVars

WorkerStep(j) ==
    /\ \/ Workers!Fail(j) \/ Workers!SpawnFails(j) \/ Workers!EndOfGrace(j)
       \/ Workers!Die(j) \/ Workers!Exit(j) \/ Workers!Close(j)
    /\ UNCHANGED exchangeVars

Next ==
    \/ \E j \in Jobs : WorkerStep(j) \/ CallTool(j)
    \/ \E j \in Exchanges :
         Begin(j) \/ ReadFails(j) \/ Compare(j) \/ ClientGone(j) \/ Answer(j) \/ TransportReturns(j)

Spec == Init /\ [][Next]_<<workerVars, exchangeVars>>

\* The deadline of the body is a timer; a settled comparison answers.
Fairness ==
    /\ Workers!Fairness
    /\ \A j \in Exchanges : WF_exchangeVars(ReadFails(j) \/ Answer(j))

-----------------------------------------------------------------------------
\* No more processes run than the capacity allows, none behind an answered
\* comparison, none on its own for a client that is gone, whichever of exit,
\* close, error, timeout and abort came first
\* (page-change-http.mjs:503, 529, 725); and the slots of the requests are
\* given back once.
NoStrayWorker ==
    /\ Workers!NoStrayWorker
    /\ active = Cardinality(InProgress)
    /\ \A j \in Exchanges : child[j] = "running" =>
         /\ j \in HttpJobs => exchange[j] = "comparing"
         /\ j \in gone => settling[j] = "reaping"

\* A comparison has a worker, a request its slot, for a time only: also when the
\* worker ignores SIGTERM or its output never ends, and when the body never
\* does (page-change-http.mjs:489, 572, 668).
ComparisonEnds ==
    LET Busy(j) == j \in owned \/ settling[j] \in {"open", "reaping"} \/ j \in InProgress
    IN  \A j \in Jobs : Busy(j) ~> ~Busy(j)
=============================================================================
