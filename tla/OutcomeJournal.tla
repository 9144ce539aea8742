--------------------------- MODULE OutcomeJournal ---------------------------
(***************************************************************************)
(* The forward journal of src/commerce-outcome-binding.mjs: deliveries,    *)
(* settlements of deliveries and retained uses in two generations of one   *)
(* file, written by several writers of one process.  A call waits for the  *)
(* gate of the directory, decides from the index of its writer, and        *)
(* appends, rotating first when the current file is full.  Every step      *)
(* inside the gate may fail; between two of them the process may die or    *)
(* the machine go down with everything that was not synced.                *)
(*                                                                         *)
(* Each writer has one call under way: a call that waits holds nothing but *)
(* its arguments.                                                          *)
(***************************************************************************)
EXTENDS JournalFile, Sequences

CONSTANTS
    Operations,    \* operation ids of the callers' claims
    Artifacts,     \* delivered artifacts: an event and the digest of its bytes
    Authorities,   \* what a settlement rests on: the mocked boundary, a runtime readback
    Writers,       \* forward outcome writers of the process
    Limit,         \* boundedMax, in lines
    NoRecord,      \* the record of a writer without a call
    MaxFaults,     \* bound on failing steps
    MaxRestarts    \* bound on deaths of the process or the machine

ASSUME OtherStages == Authorities \cap {"delivery", "retained"} = {}

VARIABLES
    current, rotated,   \* the two generations
    synced,     \* settlements whose line is known to be on the device
    older,      \* earlier directories a power loss may go back to
    queue,      \* calls waiting for the gate, the one inside it first
    at, record, \* where the call of each writer stands, and what it records
    index,      \* what each writer remembers of the journal
    fresh,      \* writers whose index is loaded and of the gate's epoch
    offered,    \* deliveries that happened
    accepted,   \* settlements answered as accepted, ever
    faults, restarts

files == <<current, rotated, synced, older>>
calls == <<queue, at, record>>
memory == <<index, fresh>>
vars == <<files, calls, memory, offered, accepted, faults, restarts>>

Stages == {"delivery", "retained"} \cup Authorities
Record == [operation : Operations, artifact : Artifacts, stage : Stages]
Directory == [current : File(Record), rotated : File(Record)]

Deliveries == {r \in Record : r.stage = "delivery"}
Settlements == {r \in Record : r.stage \in Authorities}
Delivery(r) == [r EXCEPT !.stage = "delivery"]
SettlementsOf(r, known) == {s \in known \cap Settlements : s.operation = r.operation}

ASSUME NoRecordIsNone == NoRecord \notin Record

Active == {"unlinking", "renaming", "writing", "syncing"}

TypeOK ==
    /\ current \in File(Record)
    /\ rotated \in File(Record)
    /\ synced \subseteq Settlements
    /\ older \subseteq Directory
    /\ queue \in Seq(Writers)
    /\ at \in [Writers -> Active \cup {"idle", "waiting"}]
    /\ record \in [Writers -> Record \cup {NoRecord}]
    /\ index \in [Writers -> SUBSET Record]
    /\ fresh \subseteq Writers
    /\ offered \subseteq Deliveries
    /\ accepted \subseteq Settlements
    /\ faults \in Nat
    /\ restarts \in Nat

Init ==
    /\ current = Blank
    /\ rotated = Blank
    /\ synced = {}
    /\ older = {}
    /\ queue = <<>>
    /\ at = [w \in Writers |-> "idle"]
    /\ record = [w \in Writers |-> NoRecord]
    /\ index = [w \in Writers |-> {}]
    /\ fresh = {}
    /\ offered = {}
    /\ accepted = {}
    /\ faults = 0
    /\ restarts = 0

-----------------------------------------------------------------------------
(* The gate and the index.                                                 *)

Retained == current.lines \cup rotated.lines
Now == [current |-> current, rotated |-> rotated]
Inside(w) == queue # <<>> /\ Head(queue) = w

\* ensureIndex: an index of an earlier epoch is read again from both files.
Known(w) == IF w \in fresh THEN index[w] ELSE Retained

\* A request of writer w to record r.  A delivery is recorded by the finish of
\* its response, once; the other observations may be repeated.
Arrive(w, r) ==
    /\ at[w] = "idle"
    /\ r \notin offered
    /\ at' = [at EXCEPT ![w] = "waiting"]
    /\ record' = [record EXCEPT ![w] = r]
    /\ queue' = Append(queue, w)
    /\ offered' = offered \cup ({r} \cap Deliveries)
    /\ UNCHANGED <<files, memory, accepted, faults, restarts>>

Leave(w) ==
    /\ at' = [at EXCEPT ![w] = "idle"]
    /\ record' = [record EXCEPT ![w] = NoRecord]
    /\ queue' = Tail(queue)

\* What the observe functions check before they commit: the delivery is known,
\* no settlement of the operation is, and the event id is new.
Admissible(r, known) ==
    /\ r \notin known
    /\ r.stage # "delivery" => Delivery(r) \in known
    /\ r.stage \in Authorities => SettlementsOf(r, known) = {}

Admit(w) ==
    /\ at[w] = "waiting"
    /\ index' = [index EXCEPT ![w] = Known(w)]
    /\ fresh' = fresh \cup {w}
    /\ \/ /\ Admissible(record[w], Known(w))
          /\ at' = [at EXCEPT ![w] = IF current.size >= Limit THEN "unlinking" ELSE "writing"]
          /\ UNCHANGED <<queue, record>>
       \/ ~Admissible(record[w], Known(w)) /\ Leave(w)
    /\ UNCHANGED <<files, offered, accepted, faults, restarts>>

-----------------------------------------------------------------------------
(* appendLine.                                                             *)

Durable(r) == r \in Settlements

\* Only settlements are synced; what becomes of the other lines that are then
\* on the device with them nobody may rely on.
SyncedLines == synced \cup (current.lines \cap Settlements)

\* mutant: the file is synced, its directory is not
SyncsNoName == older

SyncedNames == {}

\* The older generation is removed; a record to be synced syncs the current
\* file before it becomes the older one.
UnlinkOlder(w) ==
    /\ at[w] = "unlinking"
    /\ at' = [at EXCEPT ![w] = "renaming"]
    /\ synced' = IF Durable(record[w]) THEN SyncedLines ELSE synced
    /\ older' = older \cup {Now}
    /\ rotated' = Blank
    /\ UNCHANGED <<current, queue, record, memory, offered, accepted, faults, restarts>>

RenameCurrent(w) ==
    /\ at[w] = "renaming"
    /\ at' = [at EXCEPT ![w] = "writing"]
    /\ older' = older \cup {Now}
    /\ rotated' = current
    /\ current' = Blank
    /\ UNCHANGED <<synced, queue, record, memory, offered, accepted, faults, restarts>>

\* mutant: the line is written behind a torn one
WithoutSeparator(r) == Appended(current, r, FALSE)

Line(r) == Appended(current, r, TRUE)

\* mutant: the append leaves the index of every other writer valid
KeepsEpoch(w) == fresh \cup {w}

\* mutateEpoch: only the writer that appended keeps its index.
NewEpoch(w) == {w}

Accept(w) ==
    /\ index' = [index EXCEPT ![w] = @ \cup {record[w]}]
    /\ fresh' = NewEpoch(w)
    /\ accepted' = accepted \cup ({record[w]} \cap Settlements)
    /\ Leave(w)

Write(w) ==
    /\ at[w] = "writing"
    /\ current' = Line(record[w])
    /\ synced' = synced \ {record[w]}
    /\ older' = IF current = Blank THEN older \cup {Now} ELSE older
    /\ IF Durable(record[w])
       THEN /\ at' = [at EXCEPT ![w] = "syncing"]
            /\ UNCHANGED <<queue, record, memory, accepted>>
       ELSE Accept(w)
    /\ UNCHANGED <<rotated, offered, faults, restarts>>

\* The file is synced, then its directory.
Sync(w) ==
    /\ at[w] = "syncing"
    /\ synced' = SyncedLines
    /\ older' = SyncedNames
    /\ Accept(w)
    /\ UNCHANGED <<current, rotated, offered, faults, restarts>>

\* invalidateIndex; then classifyWriteFailure loads it again.
Reload(w, retained) == [of |-> retained, fresh |-> {w}]

\* invalidateIndex alone: what writeRecords leaves, and a reload that fails.
Forget(w) == [of |-> {}, fresh |-> {}]

\* A step of appendLine fails.  An error of the write or of the sync may come
\* after all of the line; then it is not accepted but it is there.
Fail(w) ==
    /\ at[w] \in Active
    /\ faults < MaxFaults
    /\ faults' = faults + 1
    /\ current' \in IF at[w] = "writing" THEN Cuts(current, record[w], TRUE) ELSE {current}
    /\ synced' = IF at[w] = "writing" THEN synced \ {record[w]} ELSE synced
    /\ older' = IF at[w] = "writing" /\ current = Blank THEN older \cup {Now} ELSE older
    /\ \E read \in {Forget(w)} \cup (IF record[w].stage = "delivery" THEN {}
                                     ELSE {Reload(w, current'.lines \cup rotated.lines)}) :
         /\ index' = [index EXCEPT ![w] = read.of]
         /\ fresh' = read.fresh
    /\ Leave(w)
    /\ UNCHANGED <<rotated, offered, accepted, restarts>>

-----------------------------------------------------------------------------
(* Deaths.                                                                 *)

Restart ==
    /\ restarts < MaxRestarts
    /\ restarts' = restarts + 1
    /\ queue' = <<>>
    /\ at' = [w \in Writers |-> "idle"]
    /\ record' = [w \in Writers |-> NoRecord]
    /\ index' = [w \in Writers |-> {}]
    /\ fresh' = {}
    /\ UNCHANGED <<offered, accepted, faults>>

Die == Restart /\ UNCHANGED files

\* The lines of f that were not synced may be gone.
Survivors(f) ==
    {[f EXCEPT !.lines = kept, !.tail = {}, !.open = (kept # f.lines)] :
        kept \in {s \in SUBSET f.lines : f.lines \cap synced \subseteq s}}

PowerLoss ==
    /\ Restart
    /\ \E d \in older \cup {Now} :
         /\ current' \in Survivors(d.current)
         /\ rotated' \in Survivors(d.rotated)
    /\ synced' = (current'.lines \cup rotated'.lines) \cap Settlements
    /\ older' = {}

-----------------------------------------------------------------------------
\* The call at the head of the queue is inside the gate.
Step(w) ==
    /\ Inside(w)
    /\ Admit(w) \/ UnlinkOlder(w) \/ RenameCurrent(w) \/ Write(w) \/ Sync(w) \/ Fail(w)

Next ==
    \/ \E w \in Writers : Step(w) \/ \E r \in Record : Arrive(w, r)
    \/ Die
    \/ PowerLoss

Spec == Init /\ [][Next]_vars

-----------------------------------------------------------------------------
(* Properties.                                                             *)

\* A writer that need not read the journal again knows every record in it, but
\* for the one being appended: the decisions of one writer count the appends,
\* the failed appends and the rotations of the others
\* (commerce-outcome-binding.mjs:788).
IndexIsCurrent ==
    \A w \in fresh :
        Retained \subseteq index[w] \cup {record[v] : v \in {u \in Writers : at[u] = "syncing"}}

\* No record is appended while a line of it is retained, whoever wrote that
\* line and whatever its writer was told ("An exact event id already present
\* is duplicate", docs/causal-journal-receiving-100325.md:13).
AppendsNewRecords ==
    \A w \in Writers :
        at[w] \in {"unlinking", "renaming", "writing"} => record[w] \notin Retained

\* The two files never hold two settlements of one operation, those included
\* whose writer was told that the outcome is unknown ("Distinct references
\* also leave one line", docs/causal-journal-receiving-100325.md:9).
OneRetainedSettlement ==
    \A r, s \in Retained \cap Settlements : r.operation = s.operation => r = s

\* An artifact is accepted as settled once, though the journal forgets what two
\* rotations remove, and the writers with it when they start again: whoever
\* still knows the delivery also knows its settlement.
SettledOnce ==
    \A w \in Writers :
        at[w] \in {"unlinking", "renaming", "writing"} /\ record[w] \in Settlements =>
            \A s \in accepted : Delivery(s) # Delivery(record[w])

\* An accepted settlement that no rotation has removed yet is still there after
\* a power loss at any moment, in whatever state of the directory it leaves.
AcceptedIsDurable ==
    \A s \in accepted \cap Retained :
        /\ s \in synced
        /\ \A d \in older : s \in d.current.lines \cup d.rotated.lines

-----------------------------------------------------------------------------
(* The inductive invariant behind them.                                    *)

Directories == older \cup {Now}
Listed(d) == d.current.lines \cup d.rotated.lines
Pending(w) == at[w] # "idle"

\* Who is past the wait is inside, with a record its index admitted.
OneInside ==
    \A w \in Writers :
        /\ Pending(w) <=> record[w] # NoRecord
        /\ at[w] \in Active =>
             /\ Inside(w)
             /\ w \in fresh
             /\ Admissible(record[w], index[w])
        /\ at[w] = "syncing" => record[w] \in current.lines \cap Settlements

\* A delivery that still waits to be recorded is known to nobody.
DeliveriesAreNew ==
    /\ \A d \in Directories : Listed(d) \cap Deliveries \subseteq offered
    /\ \A w \in Writers : index[w] \cap Deliveries \subseteq offered
    /\ \A s \in accepted : Delivery(s) \in offered
    /\ \A w \in Writers : record[w] \in Deliveries =>
         /\ record[w] \in offered
         /\ \A d \in Directories : record[w] \notin Listed(d)
         /\ \A v \in Writers : record[w] \notin index[v] /\ (v # w => record[v] # record[w])
         /\ \A s \in accepted : Delivery(s) # record[w]

\* Wherever the delivery of an accepted settlement is, the settlement is.
SettlementsFollow ==
    \A s \in accepted :
        /\ \A d \in Directories :
             /\ Delivery(s) \in d.current.lines => s \in d.current.lines
             /\ Delivery(s) \in d.rotated.lines => s \in Listed(d)
             /\ s \in Listed(d) => s \in synced
        /\ \A w \in fresh : Delivery(s) \in index[w] => s \in index[w]

OnePerDirectory ==
    \A d \in Directories : \A r, s \in Listed(d) \cap Settlements :
        r.operation = s.operation => r = s

OutcomeInv ==
    /\ OneInside
    /\ IndexIsCurrent
    /\ AppendsNewRecords
    /\ DeliveriesAreNew
    /\ SettlementsFollow
    /\ OnePerDirectory
    /\ SettledOnce
    /\ AcceptedIsDurable
=============================================================================
