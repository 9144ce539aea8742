--------------------------- MODULE TaskRefJournal ---------------------------
(***************************************************************************)
(* The task references of src/commerce-outcome-binding.mjs (590-721): a    *)
(* journal of two generations with one line for each binding of a task to  *)
(* a paid event.  Each writer of the process keeps the ids it has read or  *)
(* written; unlike the index of the forward journal nothing tells it what  *)
(* the others append.  A call runs alone behind the gate of the directory, *)
(* so one step is a whole call, with the failures it may meet.             *)
(***************************************************************************)
EXTENDS Naturals, FiniteSets, SequencesExt

CONSTANTS
    Refs,          \* task references; one stands for its event id
    RefWriters,    \* forward outcome writers of the process
    Offers,        \* which writer is asked to append which reference
    RefLimit,      \* boundedMax, in lines
    TornLine,          \* a line that does not parse
    Unloaded,      \* taskRefIds before the files are read
    MaxRefFaults   \* bound on failing calls

VARIABLES
    refs, olderRefs,  \* the two generations, line by line
    ids,              \* taskRefIds of each writer
    acknowledged,     \* references answered as accepted and not rotated out since
    refFaults

refVars == <<refs, olderRefs, ids, acknowledged, refFaults>>

\* A line as scanTaskRefFile reads it is its reference; `by`, the writer that
\* appended it, is not in the file and is there for the properties.
RefLines == [ref : Refs, by : RefWriters]

Written(file) == ToSet(file) \ {TornLine}

Spelled(file) == {line.ref : line \in Written(file)}

TypeOK ==
    /\ refs \in Seq(RefLines \cup {TornLine})
    /\ olderRefs \in Seq(RefLines \cup {TornLine})
    /\ ids \in [RefWriters -> (SUBSET Refs) \cup {Unloaded}]
    /\ acknowledged \subseteq Refs
    /\ refFaults \in 0..MaxRefFaults

Init ==
    /\ refs = <<>>
    /\ olderRefs = <<>>
    /\ ids = [w \in RefWriters |-> Unloaded]
    /\ acknowledged = {}
    /\ refFaults = 0

\* ensureTaskRefIndex: the files are read once.
Seen(w) == IF ids[w] = Unloaded THEN Spelled(olderRefs) \cup Spelled(refs) ELSE ids[w]

Full == Len(refs) >= RefLimit

Behind(file, line) == Append(file, line)

\* mutant: the file that was moved is not read again
ForgetsMoved(w, r) == (IF Full THEN {} ELSE Seen(w)) \cup {r}

\* After a rotation the ids are those of the file that was moved.
Remembered(w, r) == (IF Full THEN Spelled(refs) ELSE Seen(w)) \cup {r}

AppendTaskRef(w, r) ==
    /\ r \notin Seen(w)
    /\ refs' = Behind(IF Full THEN <<>> ELSE refs, [ref |-> r, by |-> w])
    /\ olderRefs' = IF Full THEN refs ELSE olderRefs
    /\ ids' = [ids EXCEPT ![w] = Remembered(w, r)]
    /\ acknowledged' = (acknowledged \ (IF Full THEN Spelled(olderRefs) ELSE {})) \cup {r}
    /\ UNCHANGED refFaults

\* The answer is `duplicate`.
RefuseTaskRef(w, r) ==
    /\ r \in Seen(w)
    /\ ids' = [ids EXCEPT ![w] = Seen(w)]
    /\ UNCHANGED <<refs, olderRefs, acknowledged, refFaults>>

\* How far a failing append gets: the older file removed, the current one
\* moved, and the line written in part or as a whole.
Attempts(w, r) ==
    LET start == IF Full THEN <<>> ELSE refs
        moved == IF Full THEN refs ELSE olderRefs
    IN  {<<refs, olderRefs>>, <<start, moved>>, <<Behind(start, TornLine), moved>>,
         <<Behind(start, [ref |-> r, by |-> w]), moved>>}
          \cup (IF Full THEN {<<refs, <<>>>>} ELSE {})

\* The ids are dropped and, if that succeeds, read again.
TaskRefFails(w, r) ==
    /\ r \notin Seen(w)
    /\ refFaults < MaxRefFaults
    /\ refFaults' = refFaults + 1
    /\ \E left \in Attempts(w, r) :
         /\ refs' = left[1]
         /\ olderRefs' = left[2]
    /\ ids' \in {[ids EXCEPT ![w] = Unloaded],
                 [ids EXCEPT ![w] = Spelled(refs') \cup Spelled(olderRefs')]}
    /\ acknowledged' = IF olderRefs' = olderRefs THEN acknowledged ELSE acknowledged \ Spelled(olderRefs)

RestartWriters ==
    /\ ids' = [w \in RefWriters |-> Unloaded]
    /\ UNCHANGED <<refs, olderRefs, acknowledged, refFaults>>

Next ==
    \/ \E w \in RefWriters, r \in Refs :
          <<w, r>> \in Offers /\ (AppendTaskRef(w, r) \/ RefuseTaskRef(w, r) \/ TaskRefFails(w, r))
    \/ RestartWriters

Spec == Init /\ [][Next]_refVars

-----------------------------------------------------------------------------
Both == olderRefs \o refs

\* No writer spells one reference twice in the two files, whatever the others
\* append, forget and rotate meanwhile, and whatever failed or restarted before:
\* what it repeats is a duplicate (commerce-outcome-binding.mjs:701).  And a
\* reference that was accepted is spelled until a rotation removes it, also
\* behind a line that failed half-way (commerce-outcome-binding.mjs:704).
OneLinePerWriter ==
    /\ \A line \in RefLines : Cardinality({i \in DOMAIN Both : Both[i] = line}) <= 1
    /\ acknowledged \subseteq Spelled(olderRefs) \cup Spelled(refs)

\* The two files spell no reference twice: "a repeated task-ref id is a
\* duplicate, not a second grant or payment" (commerce-outcome-binding.mjs:225).
\* taskRefIds is not told of another writer's lines (MCTaskRefsShared.cfg).
OneLinePerTaskRef ==
    \A r \in Refs : Cardinality({i \in DOMAIN Both : Both[i] # TornLine /\ Both[i].ref = r}) <= 1
=============================================================================
