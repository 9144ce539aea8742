-------------------------- MODULE CommerceSegments --------------------------
(***************************************************************************)
(* The segments of the commerce event journal (src/commerce-events.mjs     *)
(* 3925-3969): a full current file is moved one number on, all others      *)
(* before it, the oldest is removed, and so are those that are proven to   *)
(* be older than the retention.  An append runs alone behind the queue and *)
(* the gate, so one step is a whole append with the step it fails at.      *)
(***************************************************************************)
EXTENDS JournalFile, FiniteSets

CONSTANTS
    LastSegment,       \* retention.segmentCount - 1
    SegmentLimit,      \* retention.segmentMaxBytes, in lines
    MaxAge,            \* retention.maxAgeMs
    MaxEvents,         \* bound on appends
    MaxTime,           \* bound on the clock
    MaxSegmentFaults   \* bound on failing appends

\* An event has its number in the order of the appends, and the timestamp it
\* got before it was enqueued.
Event == [number : 1..MaxEvents, time : 0..MaxTime]

VARIABLES
    segments,       \* the files, the current one at 0
    appended,       \* appends so far
    clock,
    segmentFaults

segmentVars == <<segments, appended, clock, segmentFaults>>

Slots == 0..LastSegment
NoSegment == [Blank EXCEPT !.open = TRUE]   \* no file of that name
Present(f) == f # NoSegment

TypeOK ==
    /\ segments \in [Slots -> File(Event)]
    /\ appended \in 0..MaxEvents
    /\ clock \in 0..MaxTime
    /\ segmentFaults \in 0..MaxSegmentFaults

Init ==
    /\ segments = [i \in Slots |-> NoSegment]
    /\ appended = 0
    /\ clock = 0
    /\ segmentFaults = 0

\* The oldest file is removed and those numbered k or more are renamed, from
\* the oldest to the newest.
Shifted(s, k) ==
    [i \in Slots |-> IF i > k THEN s[i - 1] ELSE IF i = k THEN NoSegment ELSE s[i]]

\* Every line of the file is an event, and the newest is old enough.
ProvenOlder(f) ==
    /\ f.lines # {}
    /\ f.size = Cardinality(f.lines)
    /\ \A e \in f.lines : e.time + MaxAge <= clock

\* mutant: a segment that proves nothing is passed over
SkipsUnproven(s, i) == ProvenOlder(s[i])

\* A segment that proves nothing keeps the newer ones.
Droppable(s, i) == \A j \in i..LastSegment : ~Present(s[j]) \/ ProvenOlder(s[j])

\* The drop gets from the oldest segment to the one numbered k, never to the
\* current one.
Dropped(s, k) ==
    [i \in Slots |-> IF i >= k /\ Droppable(s, i) THEN NoSegment ELSE s[i]]

Full(f) == Present(f) /\ f.size >= SegmentLimit

Rotated == IF Full(segments[0]) THEN Dropped(Shifted(segments, 0), 1) ELSE segments

\* Where an append may stop: at a rename, at the removal of an old segment, in
\* its write.
Opened(s) == IF Present(s[0]) THEN s[0] ELSE Blank
Stops(e) ==
    LET shifted == Shifted(segments, 0)
        rotation == {Shifted(segments, k) : k \in Slots} \cup {Dropped(shifted, k) : k \in 1..LastSegment + 1}
    IN  {segments} \cup (IF Full(segments[0]) THEN rotation ELSE {})
          \cup {[Rotated EXCEPT ![0] = f] : f \in Cuts(Opened(Rotated), e, FALSE)}

NewEvent(time) == [number |-> appended + 1, time |-> time]

AppendEvent(e) ==
    /\ segments' = [Rotated EXCEPT ![0] = Appended(Opened(Rotated), e, FALSE)]
    /\ UNCHANGED segmentFaults

AppendFails(e) ==
    /\ segmentFaults < MaxSegmentFaults
    /\ segmentFaults' = segmentFaults + 1
    /\ segments' \in Stops(e)

\* The event of a response that has just ended, or of one that waited in the
\* queue.
Write ==
    /\ appended < MaxEvents
    /\ appended' = appended + 1
    /\ \E time \in {clock} \cup (0..MaxTime \cap {clock - 1}) :
         AppendEvent(NewEvent(time)) \/ AppendFails(NewEvent(time))
    /\ UNCHANGED clock

Tick ==
    /\ clock < MaxTime
    /\ clock' = clock + 1
    /\ UNCHANGED <<segments, appended, segmentFaults>>

Next == Write \/ Tick

Spec == Init /\ [][Next]_segmentVars

-----------------------------------------------------------------------------
\* The events of segment i that the line behind them cannot spoil.
Sure(i) == segments[i].lines \ segments[i].tail

\* They are in no file any more.
Gone(i) == Sure(i) # {} /\ \A k \in Slots : ~(Sure(i) \subseteq segments'[k].lines)

HoldsOlder(j, i) == \E old \in Sure(j), new \in Sure(i) : old.number < new.number

\* No step removes a segment and leaves older events in another ("invent a gap
\* in front of a newer one", commerce-events.mjs:3936), through every rotation
\* that failed half-way (3950-3952); and for its age it removes only what is
\* older than the retention.
RemovesOldestFirst ==
    [][\A i \in Slots : Gone(i) =>
         /\ \A j \in Slots \ {i} : HoldsOlder(j, i) => Gone(j)
         /\ i < LastSegment => \A e \in segments[i].lines : e.time + MaxAge <= clock]_segmentVars
=============================================================================
