------------------------- MODULE ProspectiveDelivery ------------------------
(***************************************************************************)
(* The prospective delivery journal (src/commerce-prospective-delivery.mjs *)
(* 242-919): what became of each settlement, as an append-only file whose  *)
(* later lines fill or revise earlier ones.  The file is kept as what      *)
(* parseProspectiveJournal makes of it, line after line; it is never       *)
(* rewritten.  Reconciler, feedback and transmission notes each run alone  *)
(* behind the gate, so one step is a whole call with the line it fails at. *)
(* The row the ordinary join has for a settlement is data of its own.  A   *)
(* settlement has one channel, unless its captures are in conflict.        *)
(***************************************************************************)
EXTENDS Naturals, FiniteSets

CONSTANTS
    Keys,                 \* evidence keys, one for each settlement
    MaxRecords,           \* PROSPECTIVE_MAX_RECORDS
    MaxProspectiveFaults  \* bound on failing appends

OpenTechnical == {"unknown", "no_response"}
Technical == OpenTechnical \cup {"validated_response", "channel_conflict"}
Feedback == {"absent", "declared", "rejected"}
Transmission == {"unknown", "transmitted", "not_transmitted"}

\* The class of the task is absent when no task reference names the event, or
\* more than one.
Row == [technical : Technical, feedback : Feedback, task : {"absent", "classed"}]

\* observedAt tells whether a note or a join made the record.
Observation ==
    [key : Keys, technical : Technical, feedback : Feedback, task : {"absent", "classed"},
     transmission : Transmission, observedAt : {"note", "join"}]

VARIABLES
    rows,      \* what the join says of each settlement in the ledger
    unseen,    \* settlements the next reconciling run finds
    records,   \* the records the journal spells, by key
    saturated, \* it has the marker of a full journal
    torn,      \* it ends inside a line
    prospectiveFaults

journal == <<records, saturated, torn>>
prospectiveVars == <<rows, unseen, journal, prospectiveFaults>>

TypeOK ==
    /\ DOMAIN rows \subseteq Keys /\ \A k \in DOMAIN rows : rows[k] \in Row
    /\ unseen \subseteq DOMAIN rows
    /\ DOMAIN records \subseteq Keys /\ \A k \in DOMAIN records : records[k] \in Observation
    /\ Cardinality(DOMAIN records) <= MaxRecords
    /\ saturated \in BOOLEAN
    /\ torn \in BOOLEAN
    /\ prospectiveFaults \in 0..MaxProspectiveFaults

Empty == [k \in {} |-> k]

Init ==
    /\ rows = Empty
    /\ unseen = {}
    /\ records = Empty
    /\ saturated = FALSE
    /\ torn = FALSE
    /\ prospectiveFaults = 0

Put(f, k, v) == [j \in DOMAIN f \cup {k} |-> IF j = k THEN v ELSE f[j]]

-----------------------------------------------------------------------------
(* The ledger and the stores the join reads.                               *)

SettleKey(k) ==
    /\ k \notin DOMAIN rows
    /\ rows' = Put(rows, k, [technical |-> "unknown", feedback |-> "absent", task |-> "absent"])
    /\ unseen' = unseen \cup {k}
    /\ UNCHANGED <<journal, prospectiveFaults>>

\* A response is overdue, captured, found on two channels; the caller states
\* something on what was captured; a task or a caller disqualifies the statement;
\* a capture or a task reference is rotated out again.
JoinLearns(k) ==
    /\ k \in DOMAIN rows
    /\ \E row \in Row :
         /\ Cardinality({field \in DOMAIN row : row[field] # rows[k][field]}) = 1
         /\ row.feedback = "declared" => row.technical = "validated_response"
         /\ rows' = Put(rows, k, row)
    /\ UNCHANGED <<unseen, journal, prospectiveFaults>>

-----------------------------------------------------------------------------
(* What a line may do to a record.                                         *)

SameBut(prior, next, fields) ==
    \A f \in {"technical", "feedback", "task", "transmission", "observedAt"} \ fields : prior[f] = next[f]

SameObservation(prior, next) == SameBut(prior, next, {"observedAt"})

FeedbackFill(prior, next) ==
    /\ SameBut(prior, next, {"feedback", "observedAt"})
    /\ prior.feedback = "absent" /\ next.feedback = "declared"

TransmissionFill(prior, next) ==
    /\ SameBut(prior, next, {"transmission"})
    /\ prior.transmission = "unknown" /\ next.transmission # "unknown"

\* mutant: an open record may go back to unknown
RevisesToUnknown(prior, next) ==
    /\ SameBut(prior, next, {"technical", "task"})
    /\ prior.technical \in OpenTechnical /\ next.technical # prior.technical
    /\ prior.task = "classed" => next.task = "classed"

AuthorizedTechnicalRevision(prior, next) ==
    /\ SameBut(prior, next, {"technical", "task"})
    /\ prior.technical \in OpenTechnical /\ next.technical \notin {prior.technical, "unknown"}
    /\ prior.task = "classed" => next.task = "classed"

\* parseProspectiveJournal: what a line behind the others makes of a record.
Accepts(recs, o) ==
    o.key \in DOMAIN recs =>
        LET prior == recs[o.key]
        IN  FeedbackFill(prior, o) \/ TransmissionFill(prior, o) \/ AuthorizedTechnicalRevision(prior, o)

Parsed(recs, lines) ==
    LET taken == {o \in lines : Accepts(recs, o)}
        line(k) == CHOOSE o \in taken : o.key = k
    IN  [k \in DOMAIN recs \cup {o.key : o \in taken} |->
            IF \A o \in taken : o.key # k THEN recs[k]
            ELSE IF k \in DOMAIN recs THEN [line(k) EXCEPT !.observedAt = recs[k].observedAt] ELSE line(k)]

\* appendLines: the lines and, behind them, the marker.  The line behind a torn
\* end is spoiled.
Outcome(recs, sat, tears) == [records |-> recs, saturated |-> sat, torn |-> tears]

Appended(j, lines, mark) ==
    IF j.torn /\ lines # {}
    THEN {Outcome(Parsed(j.records, lines \ {o}), j.saturated \/ mark, FALSE) : o \in lines}
    ELSE {Outcome(Parsed(j.records, lines), j.saturated \/ (mark /\ ~j.torn), j.torn /\ ~mark)}

\* It stops behind some of them, inside one or before the sync.
CutShort(j, lines, mark) ==
    LET written(read, tears) == Cardinality(read) + (IF j.torn /\ read # {} THEN 1 ELSE 0) + (IF tears THEN 1 ELSE 0)
        room == Cardinality(lines) + (IF mark THEN 1 ELSE 0)
    IN  IF room = 0 THEN {}
        ELSE Appended(j, lines, mark) \cup
             {Outcome(Parsed(j.records, c[1]), j.saturated, c[2]) :
                c \in {d \in (SUBSET lines) \X BOOLEAN : written(d[1], d[2]) <= room}}

Fails ==
    /\ prospectiveFaults < MaxProspectiveFaults
    /\ prospectiveFaults' = prospectiveFaults + 1

-----------------------------------------------------------------------------
(* The callers.                                                            *)

\* appendProspectiveObservations: the lines for observations of distinct keys;
\* new keys only up to MaxRecords.
Revising(recs, observations, join) ==
    {o \in observations : o.key \in DOMAIN recs
        /\ ~SameObservation(recs[o.key], o)
        /\ (FeedbackFill(recs[o.key], o) \/ (join /\ AuthorizedTechnicalRevision(recs[o.key], o)))}

Room == IF saturated THEN 0 ELSE MaxRecords - Cardinality(DOMAIN records)

NewOnes(observations) == {o \in observations : o.key \notin DOMAIN records}

\* mutant: the count is not looked at
WithoutBound(observations) == {NewOnes(observations)}

Creating(observations) ==
    LET new == NewOnes(observations)
    IN  {some \in SUBSET new : Cardinality(some) = IF Cardinality(new) < Room THEN Cardinality(new) ELSE Room}

\* bindStoredCallerResultFeedback: the caller's statement on a captured result,
\* unless the record has another task.
Stated(recs) ==
    {[recs[k] EXCEPT !.feedback = "declared"] :
        k \in {k \in DOMAIN recs \cap DOMAIN rows :
                 /\ rows[k].feedback = "declared" /\ recs[k].feedback = "absent"
                 /\ recs[k].task = "classed" => rows[k].task = "classed"}}

\* mutant: statements are not bound
Unbound(j) == {<<j, FALSE>>}

\* What the binding leaves, and whether its append failed.
Bound(j) ==
    LET lines == Revising(j.records, Stated(j.records), FALSE)
    IN  {<<left, FALSE>> : left \in Appended(j, lines, FALSE)} \cup {<<left, TRUE>> : left \in CutShort(j, lines, FALSE)}

\* What retainProspectiveDeliveries observes: what the record has stays.
Observed(k) ==
    IF k \in DOMAIN records
    THEN LET prior == records[k]
         IN  [prior EXCEPT !.technical = rows[k].technical, !.task = rows[k].task,
                           !.feedback = IF @ # "absent" THEN @ ELSE rows[k].feedback]
    ELSE [key |-> k, technical |-> rows[k].technical, feedback |-> rows[k].feedback, task |-> rows[k].task,
          transmission |-> "unknown", observedAt |-> "join"]

OpenKeys == {k \in DOMAIN records : records[k].technical \in OpenTechnical}

Leaves(left, failed) ==
    /\ records' = left.records
    /\ saturated' = left.saturated
    /\ torn' = left.torn
    /\ IF failed THEN Fails ELSE UNCHANGED prospectiveFaults

Journal == Outcome(records, saturated, torn)

\* retainProspectiveDeliveries in a reconciling run: settlements it has just
\* found and those whose record is open, then the statements about them.  Both
\* appends may fail; what the run found is not looked for again.
Retain ==
    LET observations == {Observed(k) : k \in (unseen \cup OpenKeys) \cap DOMAIN rows}
    IN  \E new \in Creating(observations) :
            LET lines == new \cup Revising(records, observations, TRUE)
                mark == ~saturated /\ new # NewOnes(observations)
            IN  /\ \/ \E left \in Appended(Journal, lines, mark) : \E w \in Bound(left) : Leaves(w[1], w[2])
                   \/ \E left \in CutShort(Journal, lines, mark) : Leaves(left, TRUE)
                /\ unseen' = {}
                /\ UNCHANGED rows

\* The binding after a caller's statement was committed.
Bind ==
    /\ \E w \in Bound(Journal) : Leaves(w[1], w[2])
    /\ UNCHANGED <<rows, unseen>>

\* noteContinuationTransmission, which may come before the ledger has the
\* settlement.
Note(k, transmission) ==
    /\ IF k \in DOMAIN records THEN records[k].transmission = "unknown" ELSE Room > 0
    /\ LET line == IF k \in DOMAIN records THEN [records[k] EXCEPT !.transmission = transmission]
                   ELSE [key |-> k, technical |-> "unknown", feedback |-> "absent", task |-> "absent",
                         transmission |-> transmission, observedAt |-> "note"]
       IN  \/ \E left \in Appended(Journal, {line}, FALSE) : Leaves(left, FALSE)
           \/ \E left \in CutShort(Journal, {line}, FALSE) : Leaves(left, TRUE)
    /\ UNCHANGED <<rows, unseen>>

Next ==
    \/ \E k \in Keys : SettleKey(k) \/ JoinLearns(k)
    \/ Retain
    \/ Bind
    \/ \E k \in Keys, transmission \in Transmission \ {"unknown"} : Note(k, transmission)

Spec == Init /\ [][Next]_prospectiveVars

\* The reconciler runs once a cycle; nothing is asked of a run that has no record
\* to fill.
Fairness == WF_prospectiveVars(OpenKeys \cap DOMAIN rows # {} /\ Retain)

-----------------------------------------------------------------------------
\* A record is never lost and only filled or advanced: its first terminal
\* class, its statement and its transmission stay, whatever a later join says
\* ("A different terminal class conflicts and the first one wins",
\* commerce-prospective-delivery.mjs:30).
RecordsOnlyAdvance ==
    [][\A k \in DOMAIN records :
         /\ k \in DOMAIN records'
         /\ records[k].technical \notin OpenTechnical => records'[k].technical = records[k].technical
         /\ records'[k].technical = "unknown" => records[k].technical = "unknown"
         /\ records[k].feedback # "absent" => records'[k].feedback = records[k].feedback
         /\ records[k].transmission # "unknown" => records'[k].transmission = records[k].transmission
         /\ records'[k].observedAt = records[k].observedAt]_prospectiveVars

Awaited == {k \in OpenKeys \cap DOMAIN rows : rows[k].technical \notin OpenTechnical}
Barred == {k \in Awaited :
    \/ rows[k].feedback = "rejected" /\ records[k].feedback = "absent"
    \/ rows[k].task = "absent" /\ records[k].task = "classed"}

\* A record that is open advances once the join has a terminal class for its
\* settlement, also in a saturated journal and when a statement or a note came
\* first.  A rejected statement that the record does not have keeps it open, and
\* so does a task that the join has lost: authorizedTechnicalRevision asks for
\* equal feedback and for the task of the record
\* (commerce-prospective-delivery.mjs:26, 601, 609).
CaptureAdvances == \A k \in Keys : k \in Awaited ~> k \notin Awaited \ Barred
=============================================================================
