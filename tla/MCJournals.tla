------------------------------ MODULE MCJournals -----------------------------
(***************************************************************************)
(* Finite instances of the journals of the commerce data directory.  They  *)
(* share the gate of the directory and nothing else that decides what they *)
(* do, so one behaviour runs one of them: `plane` says which.              *)
(***************************************************************************)
EXTENDS OutcomeJournal, TLC

CONSTANTS
    a1, a2,
    Refs, RefWriters, Offers, RefLimit, TornLine, Unloaded, MaxRefFaults,
    Processes, MaxRuns, None,
    LastSegment, SegmentLimit, MaxAge, MaxEvents, MaxTime, MaxSegmentFaults,
    Keys, MaxRecords, MaxProspectiveFaults,
    Inodes, MaxRows, PlaneLimit, MaxForeign, NoFile, NoCut, MaxPlaneFaults

CONSTANTS telemetry, reuse, r1, r2, r3, k1, k2

\* The finish of the response hands every reference to one writer
\* (commerce-events.mjs:4571), the grant of a reuse hands its own to another
\* (customer-grant.mjs:427): some are offered to both.
BothWriters == {<<telemetry, r1>>, <<telemetry, r2>>, <<telemetry, r3>>, <<reuse, r1>>, <<reuse, r3>>}

VARIABLES
    plane,
    refs, olderRefs, ids, acknowledged, refFaults,
    temp, manifest, nodes, ledger, doing, failed, met, started, reader, seen, captured,
    segments, appended, clock, segmentFaults,
    rows, unseen, records, saturated, torn, prospectiveFaults,
    names, bytes, rowsMade, hashes, planeFaults, start, scan, cut, verdict, landed, disturbed, foreign

TaskRefs == INSTANCE TaskRefJournal
Settlement == INSTANCE SettlementRuns
Events == INSTANCE CommerceSegments
Prospective == INSTANCE ProspectiveDelivery
Coverage == INSTANCE DeliveryCoverage

Planes == {"forward", "task refs", "settlement", "events", "prospective", "coverage"}

taskRefVars == <<refs, olderRefs, ids, acknowledged, refFaults>>
settlementVars == <<temp, manifest, nodes, ledger, doing, failed, met, started, reader, seen, captured>>
eventVars == <<segments, appended, clock, segmentFaults>>
prospectiveVars == <<rows, unseen, records, saturated, torn, prospectiveFaults>>
coverageVars == <<names, bytes, rowsMade, hashes, planeFaults, start, scan, cut, verdict, landed, disturbed, foreign>>
allVars == <<plane, vars, taskRefVars, settlementVars, eventVars, prospectiveVars, coverageVars>>

JournalsInit ==
    /\ plane \in Planes
    /\ Init
    /\ TaskRefs!Init
    /\ Settlement!Init
    /\ Events!Init
    /\ Prospective!Init
    /\ Coverage!Init

Only(p) ==
    /\ plane = p
    /\ UNCHANGED plane
    /\ p # "forward" => UNCHANGED vars
    /\ p # "task refs" => UNCHANGED taskRefVars
    /\ p # "settlement" => UNCHANGED settlementVars
    /\ p # "events" => UNCHANGED eventVars
    /\ p # "prospective" => UNCHANGED prospectiveVars
    /\ p # "coverage" => UNCHANGED coverageVars

\* A bound: of its second settlement the join learns nothing, it is there to fill
\* the journal.
SecondFills == k2 \in DOMAIN rows' => rows'[k2].technical = "unknown" /\ rows'[k2].feedback = "absent"

JournalsNext ==
    \/ Only("forward") /\ Next
    \/ Only("task refs") /\ TaskRefs!Next
    \/ Only("settlement") /\ Settlement!Next
    \/ Only("events") /\ Events!Next
    \/ Only("prospective") /\ Prospective!Next /\ SecondFills
    \/ Only("coverage") /\ Coverage!Next

JournalsSpec == JournalsInit /\ [][JournalsNext]_allVars

Perms == Permutations(Artifacts) \cup Permutations(Writers)

-----------------------------------------------------------------------------
\* The type invariant of the journal that runs.
PlanesTypeOK ==
    /\ plane = "forward" => TypeOK
    /\ plane = "task refs" => TaskRefs!TypeOK
    /\ plane = "settlement" => Settlement!TypeOK
    /\ plane = "events" => Events!TypeOK
    /\ plane = "prospective" => Prospective!TypeOK
    /\ plane = "coverage" => Coverage!TypeOK

\* No writer spells a task reference twice, and an accepted one is spelled until a
\* rotation removes it (commerce-outcome-binding.mjs:701, 704).
OneLinePerWriter == TaskRefs!OneLinePerWriter

\* An accepted capture covers no row of a contender of its manifest's run
\* (commerce-settlement-reconciler.mjs:2546).
NoCutUnderContention == Settlement!NoCutUnderContention

\* A segment goes after those before it, and not for its age before its time
\* (commerce-events.mjs:3936).
RemovesOldestFirst == Events!RemovesOldestFirst

\* What is received as complete misses no row (delivery-journal-coverage.mjs:126).
CompleteIsTrue == Coverage!CompleteIsTrue

\* An undisturbed capture is complete (delivery-journal-coverage.mjs:127).
CleanIsComplete == Coverage!CleanIsComplete
=============================================================================
