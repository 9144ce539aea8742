-------------------------- MODULE DeliveryCoverage --------------------------
(***************************************************************************)
(* The certificate that a plane of the delivery journals is complete       *)
(* (src/delivery-journal-coverage.mjs): a start is recorded, the producer  *)
(* of the process counts and hashes what it appends, and a capture         *)
(* compares that with what the two generations of the plane gained since.  *)
(* The capture holds the gate of the process; another process on the same  *)
(* directory is held back by nothing.  The cut that a capture persists is  *)
(* checked again against the files whenever it is read.                    *)
(***************************************************************************)
EXTENDS SequencesExt

CONSTANTS
    Inodes,           \* file identities; that of a removed file may come again
    MaxRows,          \* bound on rows
    PlaneLimit,       \* rows a file holds at most
    MaxForeign,       \* bound on the steps of other processes
    NoFile, NoCut,
    MaxPlaneFaults    \* bound on failing appends

Rows == 1..MaxRows
Torn == 0             \* a line without its end
Garbled == MaxRows + 1  \* a torn line and the one behind it, which ended it
Broken == {Torn, Garbled}

VARIABLES
    names,      \* the inodes under the two names
    bytes,      \* what each inode holds, line by line
    rowsMade,   \* rows written so far, by anyone
    hashes,     \* noteJournalWrite: the producer's rows since the process started
    planeFaults,
    start,      \* `initial`: the files and counts of the last begin
    scan,       \* what is being read, and the older file as it was read
    cut,        \* the last persisted capture
    verdict,    \* what the last receive made of it, and the rows of the window it did not see
    landed,     \* rows the producer wrote since the begin, noted or not
    disturbed,  \* a fault, another process, a lost or a reused file since then
    foreign

planeVars == <<names, bytes, rowsMade, hashes, planeFaults, start, scan, cut, verdict, landed, disturbed, foreign>>
storeVars == <<names, bytes>>
captureVars == <<start, scan, cut, verdict>>

Identity == Inodes \cup {NoFile}

TypeOK ==
    /\ names \in [{"older", "current"} -> Identity]
    /\ bytes \in [Inodes -> Seq(Rows \cup Broken)]
    /\ rowsMade \in 0..MaxRows
    /\ hashes \in Seq(Rows)
    /\ planeFaults \in 0..MaxPlaneFaults
    /\ scan.for \in {"nothing", "begin", "capture", "receive"}
    /\ landed \in Seq(Rows)
    /\ disturbed \in BOOLEAN
    /\ foreign \in 0..MaxForeign

Absent == [inode |-> NoFile, rows |-> <<>>]
NoVerdict == [complete |-> FALSE, missing |-> {}]
NotScanning == [for |-> "nothing", older |-> Absent]
NoStart == [older |-> Absent, current |-> Absent, writes |-> 0, faults |-> 0, set |-> FALSE]

Init ==
    /\ names = [n \in {"older", "current"} |-> NoFile]
    /\ bytes = [i \in Inodes |-> <<>>]
    /\ rowsMade = 0 /\ hashes = <<>> /\ planeFaults = 0
    /\ start = NoStart /\ scan = NotScanning /\ cut = NoCut
    /\ verdict = NoVerdict
    /\ landed = <<>> /\ disturbed = FALSE /\ foreign = 0

-----------------------------------------------------------------------------
(* The files of the plane.                                                 *)

\* A line behind a torn one is lost with it, those behind both are not.
Behind(rows, line) ==
    IF rows = <<>> \/ Last(rows) # Torn THEN Append(rows, line)
    ELSE IF line = Torn THEN rows ELSE Append(Front(rows), Garbled)

\* Inodes for a new file: that of the file a rotation removes, or another; those
\* that nobody remembers are alike.
Remembered == {names["older"], start.older.inode, start.current.inode, scan.older.inode}
                \cup (IF cut = NoCut THEN {} ELSE {r.inode : r \in cut.ranges})
NewInodes(rotates) ==
    LET free == Inodes \ (IF rotates THEN {names["current"]} ELSE {names["older"], names["current"]})
    IN  (free \cap Remembered) \cup (IF free \subseteq Remembered THEN {} ELSE {CHOOSE i \in free : i \notin Remembered})

\* The file the next line goes to, and whether a rotation makes it: lines are of
\* different lengths, a file of PlaneLimit lines is full.
Places ==
    LET file == names["current"]
    IN  IF file = NoFile THEN NewInodes(FALSE) \X {FALSE}
        ELSE {<<file, FALSE>> : n \in {Len(bytes[file])} \cap 0..PlaneLimit - 1} \cup NewInodes(TRUE) \X {TRUE}

Write(place, line) ==
    LET file == place[1]
        older == IF place[2] THEN names["current"] ELSE names["older"]
    IN  /\ names' = [older |-> older, current |-> file]
        /\ bytes' = [i \in Inodes |->
                       IF i = file THEN Behind(IF file = names["current"] THEN bytes[i] ELSE <<>>, line)
                       ELSE IF i = older THEN bytes[i] ELSE <<>>]

\* A rotation that removes the older file and goes no further, or renames the
\* current one and begins no other.
HalfRotates ==
    /\ names["current"] # NoFile
    /\ names' \in {[names EXCEPT !["older"] = NoFile], [older |-> names["current"], current |-> NoFile]}
    /\ bytes' = [i \in Inodes |-> IF i = names["current"] THEN bytes[i] ELSE <<>>]

\* What the window has lost or mistaken: a file with rows of its own, or an
\* inode that comes back.
Loses(place) ==
    \/ place[2] /\ names["older"] \notin {NoFile, start.older.inode}
    \/ place[1] # names["current"] /\ place[1] \in {start.older.inode, start.current.inode}

Produce ==
    /\ scan.for = "nothing"
    /\ rowsMade < MaxRows
    /\ rowsMade' = rowsMade + 1
    /\ hashes' = Append(hashes, rowsMade')
    /\ landed' = Append(landed, rowsMade')
    /\ \E place \in Places : Write(place, rowsMade') /\ disturbed' = (disturbed \/ Loses(place))
    /\ UNCHANGED <<planeFaults, captureVars, foreign>>

\* The line is written or torn, or the rotation before it fails: its outcome is
\* not known.
ProduceFails ==
    /\ scan.for = "nothing"
    /\ rowsMade < MaxRows
    /\ planeFaults < MaxPlaneFaults
    /\ rowsMade' = rowsMade + 1
    /\ planeFaults' = planeFaults + 1
    /\ disturbed' = TRUE
    /\ \/ UNCHANGED <<storeVars, landed>>
       \/ HalfRotates /\ UNCHANGED landed
       \/ \E place \in Places, line \in {rowsMade', Torn} :
            Write(place, line) /\ landed' = (IF line = Torn THEN landed ELSE Append(landed, line))
    /\ UNCHANGED <<hashes, captureVars, foreign>>

\* Another process, which may fail as well.
Foreign ==
    /\ foreign < MaxForeign
    /\ foreign' = foreign + 1
    /\ rowsMade < MaxRows
    /\ rowsMade' = rowsMade + 1
    /\ disturbed' = TRUE
    /\ \/ HalfRotates
       \/ \E place \in Places, line \in {rowsMade', Torn} : Write(place, line)
    /\ UNCHANGED <<hashes, planeFaults, captureVars, landed>>

-----------------------------------------------------------------------------
(* The capture.                                                            *)

SnapshotOf(name) ==
    IF names[name] = NoFile THEN Absent ELSE [inode |-> names[name], rows |-> bytes[names[name]]]

\* One file is read after the other.
Scan(purpose) ==
    /\ scan.for = "nothing"
    /\ scan' = [for |-> purpose, older |-> SnapshotOf("older")]
    /\ verdict' = NoVerdict
    /\ UNCHANGED <<storeVars, rowsMade, hashes, planeFaults, start, cut, landed, disturbed, foreign>>

\* flush and begin: the files and the counts of now.
Begin ==
    /\ scan.for = "begin"
    /\ start' = [older |-> scan.older, current |-> SnapshotOf("current"),
                 writes |-> Len(hashes), faults |-> planeFaults, set |-> TRUE]
    /\ scan' = NotScanning
    /\ landed' = <<>>
    /\ disturbed' = (scan.older # SnapshotOf("older") \/ ~(ToSet(SnapshotOf("current").rows) \subseteq Rows))
    /\ UNCHANGED <<storeVars, rowsMade, hashes, planeFaults, cut, verdict, foreign>>

\* What a file gained: all of it, or what is behind the start.  A file the
\* start knows as the older one gained nothing.
Gained(f) == SubSeq(f.rows, IF f.inode = start.current.inode THEN Len(start.current.rows) + 1 ELSE 1, Len(f.rows))

\* mutant: what the older file held at the start is taken for new
NothingHistorical(f) == FALSE

Historical(f) == f.inode = start.older.inode /\ f.inode # start.current.inode

Ranges(files) == {f \in files : f.inode # NoFile /\ ~Historical(f)}

\* The rows of the ranges, those of the older file first.
RowsOf(older, current) ==
    LET gained(f) == IF f.inode = NoFile \/ Historical(f) THEN <<>> ELSE Gained(f)
    IN  gained(older) \o gained(current)

Admitted == SubSeq(hashes, start.writes + 1, Len(hashes))

\* mutant: the rows are counted, not compared
SameCount(rows) == Len(rows) = Len(Admitted)

SameRows(rows) == rows = Admitted

\* assessPlane: no reason against it.
Complete(older, current) ==
    LET seen == {f \in {older, current} : f.inode # NoFile}
        begun == {f \in seen : f.inode = start.current.inode}
        gained == RowsOf(older, current)
    IN  /\ planeFaults = start.faults
        /\ start.current.rows # <<>> => Last(start.current.rows) # Torn
        /\ start.current.inode # NoFile => begun # {}
        /\ \A f \in begun : IsPrefix(start.current.rows, f.rows)
        /\ \A f \in seen : Historical(f) => f.rows = start.older.rows
        /\ ToSet(gained) \subseteq Rows
        /\ SameRows(gained)

\* The cut keeps the ranges with the digests of all before their end.
Capture ==
    /\ scan.for = "capture"
    /\ LET current == SnapshotOf("current")
           complete == Complete(scan.older, current)
       IN  cut' = [complete |-> complete, clean |-> ~disturbed,
                   landed |-> IF complete THEN landed ELSE <<>>,
                   ranges |-> IF complete THEN Ranges({scan.older, current}) ELSE {}]
    /\ scan' = NotScanning
    /\ UNCHANGED <<storeVars, rowsMade, hashes, planeFaults, start, verdict, landed, disturbed, foreign>>

\* receive: the ranges of a complete cut are looked for again.
Receive ==
    /\ scan.for = "receive"
    /\ LET files == {scan.older, SnapshotOf("current")}
           kept(r) == \E f \in files : f.inode = r.inode /\ IsPrefix(r.rows, f.rows)
           held == UNION {ToSet(f.rows) : f \in files}
       IN  verdict' = IF \A r \in cut.ranges : kept(r)
                      THEN [complete |-> TRUE, missing |-> ToSet(cut.landed) \ held]
                      ELSE NoVerdict
    /\ scan' = NotScanning
    /\ UNCHANGED <<storeVars, rowsMade, hashes, planeFaults, start, cut, landed, disturbed, foreign>>

\* The process starts anew, its counts with it.
RestartProducer ==
    /\ scan' = NotScanning
    /\ start' = NoStart
    /\ hashes' = <<>> /\ planeFaults' = planeFaults
    /\ landed' = <<>> /\ disturbed' = FALSE
    /\ UNCHANGED <<storeVars, rowsMade, cut, verdict, foreign>>

Next ==
    \/ Produce \/ ProduceFails \/ Foreign
    \/ Scan("begin") \/ Begin
    \/ (start.set /\ Scan("capture")) \/ Capture
    \/ (cut # NoCut /\ cut.complete /\ Scan("receive")) \/ Receive
    \/ RestartProducer

Spec == Init /\ [][Next]_planeVars

-----------------------------------------------------------------------------
\* A plane received as complete holds the rows the producer wrote in the window,
\* also those whose outcome was never known, whatever another process appended
\* or rotated while the files were read and whichever inode came back
\* (delivery-journal-coverage.mjs:126).
CompleteIsTrue ==
    verdict.complete => verdict.missing = {}

\* Without a fault, another process or a lost file the capture is complete,
\* across a rotation (delivery-journal-coverage.mjs:127).
CleanIsComplete == cut # NoCut /\ cut.clean => cut.complete
=============================================================================
