------------------------ MODULE OutcomeJournalProofs ------------------------
(***************************************************************************)
(* Proofs about OutcomeJournal, for any number of operations, artifacts    *)
(* and writers, and any bounds.                                            *)
(***************************************************************************)
EXTENDS OutcomeJournal, TLAPS

-----------------------------------------------------------------------------
(* Lines of a file.                                                        *)

\* A separated append adds one record and loses none.
LEMMA AppendedLines ==
    ASSUME NEW f \in File(Record), NEW r \in Record
    PROVE  /\ Appended(f, r, TRUE) \in File(Record)
           /\ Appended(f, r, TRUE).lines = f.lines \cup {r}
BY DEF File, Appended, Extended, Spelled

\* So does a separated append that fails, or it adds nothing.
LEMMA CutLines ==
    ASSUME NEW f \in File(Record), NEW r \in Record,
           NEW g \in Cuts(f, r, TRUE)
    PROVE  /\ g \in File(Record)
           /\ g.lines = f.lines \/ g.lines = f.lines \cup {r}
<1>1. CASE g = f
  BY <1>1
<1>2. CASE g = Torn(f, TRUE)
  BY <1>2 DEF File, Torn, Extended
<1>3. CASE g = Unterminated(f, r, TRUE)
  BY <1>3 DEF File, Unterminated, Extended, Spelled
<1>4. CASE g = Appended(f, r, TRUE)
  BY <1>4, AppendedLines
<1> QED
  BY <1>1, <1>2, <1>3, <1>4 DEF Cuts

LEMMA BlankFile == Blank \in File(Record) /\ Blank.lines = {}
BY DEF Blank, File

\* Of a file, a power loss leaves some lines, and all that were synced.
LEMMA SurvivorLines ==
    ASSUME NEW f \in File(Record), NEW g \in Survivors(f)
    PROVE  /\ g \in File(Record)
           /\ g.lines \subseteq f.lines
           /\ f.lines \cap synced \subseteq g.lines
<1>1. PICK kept \in SUBSET f.lines :
        /\ f.lines \cap synced \subseteq kept
        /\ g = [f EXCEPT !.lines = kept, !.tail = {}, !.open = (kept # f.lines)]
  BY DEF Survivors
<1>2. f = [lines |-> f.lines, tail |-> f.tail, open |-> f.open, size |-> f.size]
  BY DEF File
<1>3. g = [lines |-> kept, tail |-> {}, open |-> (kept # f.lines), size |-> f.size]
  BY <1>1, <1>2
<1>4. (kept # f.lines) \in BOOLEAN /\ f.size \in Nat /\ f.lines \subseteq Record
  BY DEF File
<1> QED
  BY <1>1, <1>3, <1>4 DEF File

LEMMA Records ==
    /\ Deliveries \cap Settlements = {}
    /\ \A r \in Record : Delivery(r) \in Deliveries /\ Delivery(r).operation = r.operation
    /\ \A r \in Settlements : Durable(r) /\ r.stage # "delivery"
    /\ \A r \in Record \ Settlements : ~Durable(r)
BY OtherStages DEF Deliveries, Settlements, Delivery, Record, Stages, Durable

-----------------------------------------------------------------------------
(* Type correctness.                                                       *)

LEMMA LeaveType ==
    ASSUME TypeOK, NEW w \in Writers, queue # <<>>, Leave(w)
    PROVE  /\ queue' \in Seq(Writers)
           /\ at' \in [Writers -> Active \cup {"idle", "waiting"}]
           /\ record' \in [Writers -> Record \cup {NoRecord}]
BY DEF TypeOK, Leave

LEMMA StepType ==
    ASSUME TypeOK, NEW w \in Writers, Step(w), at[w] # "idle" => record[w] \in Record
    PROVE  TypeOK'
<1> USE DEF TypeOK
<1>1. queue # <<>>
  BY DEF Step, Inside
<1>2. Retained \subseteq Record /\ Now \in Directory
  BY DEF Retained, Now, File, Directory
<1>3. CASE Admit(w)
  <2>1. index' \in [Writers -> SUBSET Record] /\ fresh' \subseteq Writers
    BY <1>2, <1>3 DEF Admit, Known
  <2>2. /\ queue' \in Seq(Writers)
        /\ at' \in [Writers -> Active \cup {"idle", "waiting"}]
        /\ record' \in [Writers -> Record \cup {NoRecord}]
    BY <1>1, <1>3, LeaveType DEF Admit, Active
  <2> QED
    BY <1>3, <2>1, <2>2 DEF Admit, files
<1>4. CASE UnlinkOlder(w)
  <2>1. synced' \subseteq Settlements /\ rotated' \in File(Record) /\ older' \subseteq Directory
    BY <1>2, <1>4, BlankFile DEF UnlinkOlder, SyncedLines
  <2> QED
    BY <1>4, <2>1 DEF UnlinkOlder, memory, Active
<1>5. CASE RenameCurrent(w)
  <2>1. current' \in File(Record) /\ rotated' \in File(Record) /\ older' \subseteq Directory
    BY <1>2, <1>5, BlankFile DEF RenameCurrent
  <2> QED
    BY <1>5, <2>1 DEF RenameCurrent, memory, Active
<1>6. ASSUME Accept(w), record[w] \in Record
      PROVE  /\ index' \in [Writers -> SUBSET Record] /\ fresh' \subseteq Writers
             /\ accepted' \subseteq Settlements
  BY <1>6 DEF Accept, NewEpoch
<1>7. CASE Write(w)
  <2>1. record[w] \in Record
    BY <1>7 DEF Write
  <2>2. current' \in File(Record) /\ older' \subseteq Directory /\ synced' \subseteq Settlements
    BY <1>2, <1>7, <2>1, AppendedLines DEF Write, Line
  <2>3. CASE Durable(record[w])
    BY <1>7, <2>2, <2>3 DEF Write, memory, Active
  <2>4. CASE ~Durable(record[w])
    <3>1. Accept(w)
      BY <1>7, <2>4 DEF Write
    <3> QED
      BY <1>1, <1>6, <1>7, <2>1, <2>2, <3>1, LeaveType DEF Write, Accept
  <2> QED
    BY <2>3, <2>4
<1>8. CASE Sync(w)
  <2>1. record[w] \in Record /\ Accept(w)
    BY <1>8 DEF Sync
  <2> QED
    BY <1>1, <1>6, <1>8, <2>1, LeaveType DEF Sync, Accept, SyncedLines, SyncedNames
<1>9. CASE Fail(w)
  <2>1. record[w] \in Record
    BY <1>9 DEF Fail, Active
  <2>2. current' \in File(Record)
    BY <1>9, <2>1, CutLines DEF Fail
  <2>3. older' \subseteq Directory /\ synced' \subseteq Settlements
    BY <1>2, <1>9 DEF Fail
  <2>4. current'.lines \cup rotated.lines \subseteq Record
    BY <2>2 DEF File
  <2>5. index' \in [Writers -> SUBSET Record] /\ fresh' \subseteq Writers
    BY <1>9, <2>4 DEF Fail, Forget, Reload
  <2>6. faults' \in Nat
    BY <1>9 DEF Fail
  <2> QED
    BY <1>1, <1>9, <2>2, <2>3, <2>5, <2>6, LeaveType DEF Fail
<1> QED
  BY <1>3, <1>4, <1>5, <1>7, <1>8, <1>9 DEF Step

-----------------------------------------------------------------------------
(* The invariant, action by action.                                        *)

\* Nobody else is past the wait while w is inside.
LEMMA OthersWait ==
    ASSUME OneInside, NEW w \in Writers, Inside(w)
    PROVE  \A v \in Writers \ {w} : at[v] \notin Active
BY DEF OneInside, Inside

\* After a call left nobody is past the wait, and who waits waited before.
LEMMA AfterLeave ==
    ASSUME TypeOK, OneInside, NEW w \in Writers, Inside(w), Leave(w)
    PROVE  \A v \in Writers :
             /\ at'[v] \notin Active
             /\ at'[v] # "syncing"
             /\ record'[v] # NoRecord => v # w /\ record'[v] = record[v]
<1>1. \A v \in Writers \ {w} : at[v] \notin Active
  BY OthersWait
<1> QED
  BY <1>1 DEF Leave, TypeOK, Active

LEMMA ArriveInv ==
    ASSUME TypeOK, OutcomeInv, NEW w \in Writers, NEW r \in Record, Arrive(w, r)
    PROVE  OutcomeInv'
<1> USE DEF OutcomeInv
<1>1. /\ at' = [at EXCEPT ![w] = "waiting"] /\ at[w] = "idle"
      /\ record' = [record EXCEPT ![w] = r]
      /\ offered' = offered \cup ({r} \cap Deliveries) /\ r \notin offered
      /\ UNCHANGED <<current, rotated, synced, older, index, fresh, accepted>>
  BY DEF Arrive, files, memory
<1>2. \A v \in Writers : at'[v] \in Active =>
         at'[v] = at[v] /\ record'[v] = record[v] /\ v # w
  BY <1>1 DEF TypeOK, Active
<1>3. \A v \in Writers : Inside(v) => Inside(v)'
  BY DEF Arrive, Inside, TypeOK
<1>4. OneInside'
  <2>1. \A v \in Writers : Pending(v)' <=> record'[v] # NoRecord
    BY <1>1, NoRecordIsNone DEF OneInside, Pending, TypeOK
  <2>2. \A v \in Writers : at'[v] = "syncing" => at'[v] \in Active
    BY DEF Active
  <2> QED
    BY <1>1, <1>2, <1>3, <2>1, <2>2 DEF OneInside, Admissible
<1>5. IndexIsCurrent'
  <2>1. {record[v] : v \in {u \in Writers : at[u] = "syncing"}}
          \subseteq {record'[v] : v \in {u \in Writers : at'[u] = "syncing"}}
    BY <1>1 DEF TypeOK
  <2> QED
    BY <1>1, <2>1 DEF IndexIsCurrent, Retained
<1>6. AppendsNewRecords'
  BY <1>1, <1>2 DEF AppendsNewRecords, Retained, Active
<1>7. DeliveriesAreNew'
  <2>1. Directories' = Directories
    BY <1>1 DEF Directories, Now
  <2>2. record'[w] = r /\ \A v \in Writers \ {w} : record'[v] = record[v]
    BY <1>1 DEF TypeOK
  <2>3. \A v \in Writers : record[v] \in Deliveries => record[v] # r
    BY <1>1 DEF DeliveriesAreNew
  <2>4. r \in Deliveries =>
          /\ \A d \in Directories : r \notin Listed(d)
          /\ \A v \in Writers : r \notin index[v]
          /\ \A s \in accepted : Delivery(s) # r
    BY <1>1 DEF DeliveriesAreNew
  <2>5. /\ \A d \in Directories' : Listed(d)' \cap Deliveries \subseteq offered'
        /\ \A v \in Writers : index'[v] \cap Deliveries \subseteq offered'
        /\ \A s \in accepted' : Delivery(s)' \in offered'
    BY <1>1, <2>1 DEF DeliveriesAreNew, Listed, Delivery
  <2>6. \A v \in Writers : record'[v] \in Deliveries =>
         /\ record'[v] \in offered'
         /\ \A d \in Directories' : record'[v] \notin Listed(d)
         /\ \A u \in Writers : record'[v] \notin index'[u]
         /\ \A s \in accepted' : Delivery(s) # record'[v]
    <3> TAKE v \in Writers
    <3>1. CASE v = w
      BY <1>1, <2>1, <2>2, <2>4, <3>1
    <3>2. CASE v # w
      BY <1>1, <2>1, <2>2, <3>2 DEF DeliveriesAreNew
    <3> QED
      BY <3>1, <3>2
  <2>7. \A v, u \in Writers : record'[v] \in Deliveries /\ u # v =>
          record'[u] # record'[v]
    BY <2>2, <2>3 DEF DeliveriesAreNew
  <2> QED
    BY <2>1, <2>5, <2>6, <2>7 DEF DeliveriesAreNew
<1>8. SettlementsFollow'
  BY <1>1 DEF SettlementsFollow, Directories, Now, Listed
<1>9. OnePerDirectory'
  BY <1>1 DEF OnePerDirectory, Directories, Now, Listed
<1>10. SettledOnce'
  BY <1>1, <1>2 DEF SettledOnce, Active
<1>11. AcceptedIsDurable'
  BY <1>1 DEF AcceptedIsDurable, Retained
<1> QED
  BY <1>4, <1>5, <1>6, <1>7, <1>8, <1>9, <1>10, <1>11

\* What a writer decides from: all that is retained, with the settlement of
\* every accepted artifact it knows.
LEMMA KnownIsCurrent ==
    ASSUME TypeOK, OutcomeInv, NEW w \in Writers, Inside(w), at[w] = "waiting"
    PROVE  /\ Retained \subseteq Known(w)
           /\ Known(w) \subseteq Record
           /\ Known(w) \cap Deliveries \subseteq offered
           /\ \A v \in Writers : record[v] \in Deliveries => record[v] \notin Known(w)
           /\ \A s \in accepted : Delivery(s) \in Known(w) => s \in Known(w)
<1>1. \A v \in Writers : at[v] # "syncing"
  BY OthersWait DEF OutcomeInv, Active
<1>2. Retained = Listed(Now) /\ Now \in Directories /\ Retained \subseteq Record
  BY DEF Retained, Listed, Now, Directories, TypeOK, File
<1>3. CASE w \in fresh
  BY <1>1, <1>3 DEF OutcomeInv, IndexIsCurrent, DeliveriesAreNew, SettlementsFollow, Known, TypeOK
<1>4. CASE w \notin fresh
  <2>1. Known(w) = Retained
    BY <1>4 DEF Known
  <2>2. \A s \in accepted : Delivery(s) \in Retained => s \in Retained
    BY <1>2 DEF OutcomeInv, SettlementsFollow, Retained, Now
  <2> QED
    BY <1>2, <2>1, <2>2 DEF OutcomeInv, DeliveriesAreNew
<1> QED
  BY <1>3, <1>4

LEMMA AdmitInv ==
    ASSUME TypeOK, OutcomeInv, NEW w \in Writers, Inside(w), Admit(w)
    PROVE  OutcomeInv'
<1> DEFINE K == Known(w)
<1>1. /\ index' = [index EXCEPT ![w] = K]
      /\ fresh' = fresh \cup {w}
      /\ at[w] = "waiting"
      /\ UNCHANGED <<current, rotated, synced, older, offered, accepted>>
  BY DEF Admit, files
<1>2. \/ /\ Admissible(record[w], K)
         /\ at' = [at EXCEPT ![w] = IF current.size >= Limit THEN "unlinking" ELSE "writing"]
         /\ UNCHANGED <<queue, record>>
      \/ Leave(w)
  BY DEF Admit
<1>3. /\ Retained \subseteq K
      /\ K \cap Deliveries \subseteq offered
      /\ \A v \in Writers : record[v] \in Deliveries => record[v] \notin K
      /\ \A s \in accepted : Delivery(s) \in K => s \in K
  BY <1>1, KnownIsCurrent
<1>4. \A v \in Writers \ {w} : at[v] \notin Active
  BY OthersWait DEF OutcomeInv
<1>5. \A v \in Writers : at'[v] \in Active =>
        /\ v = w /\ Inside(w)' /\ record'[w] = record[w]
        /\ Admissible(record[w], K) /\ at'[w] # "syncing"
  <2>1. CASE Leave(w)
    BY <2>1, AfterLeave DEF OutcomeInv
  <2>2. CASE ~Leave(w)
    BY <1>2, <1>4, <2>2 DEF TypeOK, Inside
  <2> QED
    BY <2>1, <2>2
<1>6. \A v \in Writers : record'[v] # NoRecord => record'[v] = record[v]
  <2>1. CASE Leave(w)
    BY <2>1, AfterLeave DEF OutcomeInv
  <2> QED
    BY <1>2, <2>1
<1>7. \A v \in Writers : at'[v] # "syncing"
  BY <1>5 DEF Active
<1>8. Directories' = Directories /\ \A d \in Directories : Listed(d)' = Listed(d)
  BY <1>1 DEF Directories, Now, Listed
<1>9. index'[w] = K /\ \A v \in Writers \ {w} : index'[v] = index[v]
  BY <1>1 DEF TypeOK
<1>10. Retained' = Retained
  BY <1>1 DEF Retained
<1> HIDE DEF K
<1>11. OneInside'
  <2>1. \A v \in Writers : Pending(v)' <=> record'[v] # NoRecord
    <3>1. CASE Leave(w)
      BY <3>1 DEF OutcomeInv, OneInside, Pending, Leave, TypeOK
    <3>2. CASE ~Leave(w)
      BY <1>1, <1>2, <3>2 DEF OutcomeInv, OneInside, Pending, TypeOK
    <3> QED
      BY <3>1, <3>2
  <2> QED
    BY <1>1, <1>5, <1>7, <1>9, <2>1 DEF OneInside, Admissible
<1>12. IndexIsCurrent'
  <2> SUFFICES ASSUME NEW v \in fresh' PROVE Retained' \subseteq index'[v]
    BY DEF IndexIsCurrent
  <2>1. CASE v = w
    BY <1>3, <1>9, <1>10, <2>1
  <2>2. CASE v # w
    <3>1. v \in fresh /\ v \in Writers
      BY <1>1, <2>2 DEF TypeOK
    <3>2. \A u \in Writers : at[u] # "syncing"
      BY <1>1, <1>4 DEF Active
    <3> QED
      BY <1>9, <1>10, <2>2, <3>1, <3>2 DEF OutcomeInv, IndexIsCurrent
  <2> QED
    BY <2>1, <2>2
<1>13. AppendsNewRecords'
  <2> SUFFICES ASSUME NEW v \in Writers, at'[v] \in {"unlinking", "renaming", "writing"}
               PROVE  record'[v] \notin Retained'
    BY DEF AppendsNewRecords
  <2> QED
    BY <1>3, <1>5, <1>10 DEF Active, Admissible
<1>14. DeliveriesAreNew'
  <2>1. \A v \in Writers : record'[v] \in Deliveries => record'[v] = record[v]
    BY <1>6, NoRecordIsNone DEF Deliveries
  <2>2. \A v \in Writers : index'[v] \cap Deliveries \subseteq offered'
    BY <1>1, <1>3, <1>9 DEF OutcomeInv, DeliveriesAreNew
  <2>3. \A v \in Writers : record'[v] \in Deliveries =>
          \A u \in Writers : record'[v] \notin index'[u]
    BY <1>3, <1>9, <2>1 DEF OutcomeInv, DeliveriesAreNew
  <2>4. \A v, u \in Writers : record'[v] \in Deliveries /\ u # v => record'[u] # record'[v]
    BY <1>6, <2>1, NoRecordIsNone DEF OutcomeInv, DeliveriesAreNew, Deliveries
  <2> QED
    BY <1>1, <1>8, <2>1, <2>2, <2>3, <2>4 DEF OutcomeInv, DeliveriesAreNew, Delivery
<1>15. SettlementsFollow'
  <2> SUFFICES ASSUME NEW s \in accepted
               PROVE  /\ \A d \in Directories :
                           /\ Delivery(s) \in d.current.lines => s \in d.current.lines
                           /\ Delivery(s) \in d.rotated.lines => s \in Listed(d)
                           /\ s \in Listed(d) => s \in synced
                      /\ \A v \in fresh' : Delivery(s) \in index'[v] => s \in index'[v]
    BY <1>1, <1>8 DEF SettlementsFollow, Delivery
  <2>1. \A v \in fresh' : Delivery(s) \in index'[v] => s \in index'[v]
    BY <1>1, <1>3, <1>9 DEF OutcomeInv, SettlementsFollow, TypeOK
  <2> QED
    BY <2>1 DEF OutcomeInv, SettlementsFollow
<1>16. OnePerDirectory'
  BY <1>8 DEF OutcomeInv, OnePerDirectory
<1>17. SettledOnce'
  <2> SUFFICES ASSUME NEW v \in Writers, at'[v] \in {"unlinking", "renaming", "writing"},
                      record'[v] \in Settlements, NEW s \in accepted
               PROVE  Delivery(s) # Delivery(record'[v])
    BY <1>1 DEF SettledOnce, Delivery
  <2>1. v = w /\ record'[v] = record[w] /\ Admissible(record[w], K)
    BY <1>5 DEF Active
  <2>2. record[w] \in Settlements /\ s \in Settlements
    BY <2>1 DEF TypeOK
  <2>3. Delivery(record[w]) \in K /\ SettlementsOf(record[w], K) = {}
    BY <2>1, <2>2, Records DEF Admissible, Settlements
  <2>4. ASSUME Delivery(s) = Delivery(record[w]) PROVE FALSE
    <3>1. s \in K
      BY <1>3, <2>3, <2>4
    <3>2. s.operation = record[w].operation
      BY <2>2, <2>4, Records DEF Settlements
    <3> QED
      BY <2>2, <2>3, <3>1, <3>2 DEF SettlementsOf
  <2> QED
    BY <2>1, <2>4
<1>18. AcceptedIsDurable'
  BY <1>1, <1>10 DEF OutcomeInv, AcceptedIsDurable
<1> QED
  BY <1>11, <1>12, <1>13, <1>14, <1>15, <1>16, <1>17, <1>18 DEF OutcomeInv

\* While a file is moved, what is retained shrinks to the current file; the
\* directory before the step is one a power loss may go back to.
LEMMA MoveInv ==
    ASSUME TypeOK, OutcomeInv, NEW w \in Writers, Inside(w),
           UnlinkOlder(w) \/ RenameCurrent(w)
    PROVE  OutcomeInv'
<1>1. /\ at[w] \in {"unlinking", "renaming"}
      /\ at' = [at EXCEPT ![w] = IF at[w] = "unlinking" THEN "renaming" ELSE "writing"]
      /\ older' = older \cup {Now}
      /\ synced \subseteq synced' /\ synced' \subseteq Settlements
      /\ UNCHANGED <<queue, record, index, fresh, offered, accepted>>
      /\ Retained' = current.lines
      /\ \/ current'.lines = current.lines /\ rotated'.lines = {}
         \/ current'.lines = {} /\ rotated'.lines = current.lines
  BY BlankFile DEF UnlinkOlder, RenameCurrent, memory, SyncedLines, TypeOK, Retained
<1>2. /\ Directories' = Directories \cup {Now'}
      /\ Now \in Directories
      /\ Listed(Now)' = current.lines /\ current.lines \subseteq Listed(Now)
      /\ Retained = Listed(Now)
      /\ Now.current = current /\ Now.rotated = rotated
      /\ Now'.current = current' /\ Now'.rotated = rotated'
  BY <1>1 DEF Directories, Listed, Now, Retained
<1>3. \A v \in Writers :
        /\ at'[v] \in Active <=> at[v] \in Active
        /\ Pending(v)' <=> Pending(v)
        /\ at'[v] = "syncing" <=> at[v] = "syncing"
        /\ at'[v] \in {"unlinking", "renaming", "writing"} =>
             at[v] \in {"unlinking", "renaming", "writing"}
  BY <1>1 DEF Active, Pending, TypeOK
<1>4. \A v \in Writers : at[v] # "syncing"
  BY <1>1, OthersWait DEF OutcomeInv, Active
<1>5. OneInside'
  BY <1>1, <1>3, <1>4 DEF OutcomeInv, OneInside, Inside, Admissible
<1>6. IndexIsCurrent'
  BY <1>1, <1>2, <1>3, <1>4 DEF OutcomeInv, IndexIsCurrent
<1>7. AppendsNewRecords'
  BY <1>1, <1>2, <1>3 DEF OutcomeInv, AppendsNewRecords
<1>8. DeliveriesAreNew'
  BY <1>1, <1>2 DEF OutcomeInv, DeliveriesAreNew, Delivery, Listed
<1>9. SettlementsFollow'
  <2> SUFFICES ASSUME NEW s \in accepted
               PROVE  \A d \in Directories' :
                           /\ Delivery(s) \in d.current.lines => s \in d.current.lines
                           /\ Delivery(s) \in d.rotated.lines => s \in Listed(d)
                           /\ s \in Listed(d) => s \in synced'
    BY <1>1 DEF OutcomeInv, SettlementsFollow, Delivery, Listed
  <2>1. /\ Delivery(s) \in current.lines => s \in current.lines
        /\ s \in Listed(Now) => s \in synced
    BY <1>2 DEF OutcomeInv, SettlementsFollow
  <2> QED
    BY <1>1, <1>2, <2>1 DEF OutcomeInv, SettlementsFollow, Listed
<1>10. OnePerDirectory'
  BY <1>2 DEF OutcomeInv, OnePerDirectory, Listed
<1>11. SettledOnce'
  BY <1>1, <1>3 DEF OutcomeInv, SettledOnce, Delivery
<1>12. AcceptedIsDurable'
  BY <1>1, <1>2 DEF OutcomeInv, AcceptedIsDurable, Listed
<1> QED
  BY <1>5, <1>6, <1>7, <1>8, <1>9, <1>10, <1>11, <1>12 DEF OutcomeInv

\* The files after the line of w was written, or a part of it.
LEMMA LineInFiles ==
    ASSUME TypeOK, OutcomeInv, NEW w \in Writers, Inside(w), at[w] = "writing",
           \/ current'.lines = current.lines
           \/ current'.lines = current.lines \cup {record[w]},
           rotated' = rotated,
           synced' = synced \ {record[w]},
           older' = older \/ older' = older \cup {Now}
    PROVE  /\ record[w] \in Record
           /\ Retained \subseteq Retained' /\ Retained' \subseteq Retained \cup {record[w]}
           /\ Retained' \subseteq Record
           /\ \A v \in fresh : Retained \subseteq index[v]
           /\ \A d \in Directories' : Listed(d) \cap Deliveries \subseteq offered
           /\ \A v \in Writers \ {w} : record[v] \in Deliveries =>
                \A d \in Directories' : record[v] \notin Listed(d)
           /\ \A s \in accepted : \A d \in Directories' :
                /\ Delivery(s) \in d.current.lines => s \in d.current.lines
                /\ Delivery(s) \in d.rotated.lines => s \in Listed(d)
                /\ s \in Listed(d) => s \in synced'
           /\ \A d \in Directories' : \A r, s \in Listed(d) \cap Settlements :
                r.operation = s.operation => r = s
           /\ \A s \in accepted \cap Retained' :
                s \in synced' /\ \A d \in older' : s \in Listed(d)
<1> DEFINE r == record[w]
<1>1. /\ r \in Record
      /\ w \in fresh
      /\ Admissible(r, index[w])
      /\ r \notin Retained
  <2>1. at[w] # "idle" /\ at[w] \in Active
    BY DEF Active
  <2> QED
    BY <2>1 DEF OutcomeInv, OneInside, AppendsNewRecords, Pending, TypeOK
<1>2. \A v \in Writers : at[v] # "syncing"
  BY OthersWait DEF OutcomeInv, Active
<1>3. /\ \A d \in Directories' : d \in Directories \/ d = Now'
      /\ Now'.current = current' /\ Now'.rotated = rotated
      /\ Listed(Now') = Retained' /\ Listed(Now) = Retained
      /\ Now \in Directories /\ Now.current = current /\ Now.rotated = rotated
  BY DEF Directories, Now, Listed, Retained
<1>4. /\ Retained \subseteq Retained'
      /\ Retained' \subseteq Retained \cup {r}
      /\ Retained \subseteq Record
  BY DEF Retained, TypeOK, File
<1>5. \A v \in fresh : Retained \subseteq index[v]
  BY <1>2 DEF OutcomeInv, IndexIsCurrent
<1>6. \A s \in accepted : s \in Settlements /\ s # r /\ Delivery(s) # r
  <2> TAKE s \in accepted
  <2>1. s \in Settlements /\ s \in Record
    BY DEF TypeOK, Settlements
  <2>2. CASE r \in Settlements
    <3>1. Delivery(s) # Delivery(r)
      BY <2>2 DEF OutcomeInv, SettledOnce
    <3> QED
      BY <2>1, <2>2, <3>1, Records
  <2>3. CASE r \in Deliveries
    BY <2>1, <2>3, Records DEF OutcomeInv, DeliveriesAreNew
  <2>4. CASE r \notin Settlements /\ r \notin Deliveries
    BY <2>1, <2>4, Records
  <2> QED
    BY <2>2, <2>3, <2>4
<1> HIDE DEF r
<1>7. \A d \in Directories' : Listed(d) \cap Deliveries \subseteq offered
  <2>1. r \in Deliveries => r \in offered
    BY DEF OutcomeInv, DeliveriesAreNew, r
  <2> QED
    BY <1>3, <1>4, <2>1 DEF OutcomeInv, DeliveriesAreNew
<1>8. \A v \in Writers \ {w} : record[v] \in Deliveries =>
        \A d \in Directories' : record[v] \notin Listed(d)
  <2>1. \A v \in Writers \ {w} : record[v] \in Deliveries => record[v] # r
    BY DEF OutcomeInv, DeliveriesAreNew, r
  <2> QED
    BY <1>3, <1>4, <2>1 DEF OutcomeInv, DeliveriesAreNew
<1>9. \A s \in accepted : \A d \in Directories' :
        /\ Delivery(s) \in d.current.lines => s \in d.current.lines
        /\ Delivery(s) \in d.rotated.lines => s \in Listed(d)
        /\ s \in Listed(d) => s \in synced'
  <2> TAKE s \in accepted
  <2> TAKE d \in Directories'
  <2>1. CASE d \in Directories
    BY <1>6, <2>1 DEF OutcomeInv, SettlementsFollow, r
  <2>2. CASE d = Now'
    <3>1. /\ Delivery(s) \in current.lines => s \in current.lines
          /\ Delivery(s) \in rotated.lines => s \in Retained
          /\ s \in Retained => s \in synced
      BY <1>3 DEF OutcomeInv, SettlementsFollow
    <3> QED
      BY <1>3, <1>4, <1>6, <2>2, <3>1 DEF r
  <2> QED
    BY <1>3, <2>1, <2>2
<1>10. \A d \in Directories' : \A q, s \in Listed(d) \cap Settlements :
         q.operation = s.operation => q = s
  <2> TAKE d \in Directories'
  <2>1. CASE d \in Directories
    BY <2>1 DEF OutcomeInv, OnePerDirectory
  <2>2. CASE d = Now'
    <3>1. r \in Settlements => \A q \in Retained \cap Settlements : q.operation # r.operation
      <4>1. r \in Settlements => r.stage \in Authorities
        BY DEF Settlements
      <4> QED
        BY <1>1, <1>5, <4>1 DEF Admissible, SettlementsOf
    <3>2. \A q, s \in Retained \cap Settlements : q.operation = s.operation => q = s
      BY <1>3 DEF OutcomeInv, OnePerDirectory
    <3> QED
      BY <1>3, <1>4, <2>2, <3>1, <3>2
  <2> QED
    BY <1>3, <2>1, <2>2
<1>11. \A s \in accepted \cap Retained' :
         s \in synced' /\ \A d \in older' : s \in Listed(d)
  BY <1>3, <1>4, <1>6 DEF OutcomeInv, AcceptedIsDurable, Listed, r
<1> QED
  BY <1>1, <1>4, <1>5, <1>7, <1>8, <1>9, <1>10, <1>11 DEF r

LEMMA WriteInv ==
    ASSUME TypeOK, OutcomeInv, NEW w \in Writers, Inside(w), Write(w)
    PROVE  OutcomeInv'
<1> DEFINE r == record[w]
<1>1. /\ at[w] = "writing" /\ r \in Record /\ r # NoRecord
      /\ w \in fresh /\ Admissible(r, index[w])
  <2>1. at[w] = "writing" /\ at[w] # "idle" /\ at[w] \in Active
    BY DEF Write, Active
  <2> QED
    BY <2>1 DEF OutcomeInv, OneInside, Pending, TypeOK
<1>2. /\ current'.lines = current.lines \cup {r}
      /\ rotated' = rotated /\ synced' = synced \ {r}
      /\ older' = older \/ older' = older \cup {Now}
      /\ offered' = offered
  BY <1>1, AppendedLines DEF Write, Line, TypeOK
<1>3. /\ Retained' \subseteq Retained \cup {r}
      /\ \A v \in fresh : Retained \subseteq index[v]
      /\ \A d \in Directories' : Listed(d) \cap Deliveries \subseteq offered
      /\ \A v \in Writers \ {w} : record[v] \in Deliveries =>
           \A d \in Directories' : record[v] \notin Listed(d)
      /\ \A s \in accepted : \A d \in Directories' :
           /\ Delivery(s) \in d.current.lines => s \in d.current.lines
           /\ Delivery(s) \in d.rotated.lines => s \in Listed(d)
           /\ s \in Listed(d) => s \in synced'
      /\ \A d \in Directories' : \A q, s \in Listed(d) \cap Settlements :
           q.operation = s.operation => q = s
      /\ \A s \in accepted \cap Retained' :
           s \in synced' /\ \A d \in older' : s \in Listed(d)
  BY <1>1, <1>2, LineInFiles
<1>4. \A v \in Writers \ {w} : at[v] \notin Active
  BY OthersWait DEF OutcomeInv
<1>5. CASE Durable(r)
  <2>1. /\ at' = [at EXCEPT ![w] = "syncing"]
        /\ UNCHANGED <<queue, record, index, fresh, accepted>>
    BY <1>5 DEF Write, memory
  <2>2. r \in Settlements /\ r \notin Deliveries
    BY <1>1, <1>5, Records
  <2>3. at'[w] = "syncing" /\ \A v \in Writers \ {w} : at'[v] = at[v]
    BY <2>1 DEF TypeOK
  <2>4. OneInside'
    <3>1. \A v \in Writers \ {w} : at'[v] \notin Active /\ at'[v] # "syncing"
      BY <1>4, <2>3 DEF Active
    <3>2. Inside(w)' /\ record'[w] \in current'.lines \cap Settlements
      BY <1>2, <2>1, <2>2 DEF Inside
    <3> QED
      BY <1>1, <2>1, <2>3, <3>1, <3>2 DEF OutcomeInv, OneInside, Pending, Admissible
  <2>5. IndexIsCurrent'
    BY <1>3, <2>1, <2>3 DEF IndexIsCurrent
  <2>6. AppendsNewRecords'
    BY <1>4, <2>3 DEF AppendsNewRecords, Active
  <2>7. DeliveriesAreNew'
    BY <1>2, <1>3, <2>1, <2>2 DEF OutcomeInv, DeliveriesAreNew, Delivery, Listed
  <2>8. SettlementsFollow'
    BY <1>3, <2>1 DEF OutcomeInv, SettlementsFollow, Delivery, Listed
  <2>9. OnePerDirectory'
    BY <1>3 DEF OnePerDirectory, Listed
  <2>10. SettledOnce'
    BY <1>4, <2>3 DEF SettledOnce, Active
  <2>11. AcceptedIsDurable'
    BY <1>3, <2>1 DEF AcceptedIsDurable, Listed
  <2> QED
    BY <2>4, <2>5, <2>6, <2>7, <2>8, <2>9, <2>10, <2>11 DEF OutcomeInv
<1>6. CASE ~Durable(r)
  <2>1. Accept(w) /\ Leave(w) /\ r \notin Settlements
    BY <1>1, <1>6, Records DEF Write, Accept
  <2>2. /\ index' = [index EXCEPT ![w] = @ \cup {r}]
        /\ fresh' = {w}
        /\ accepted' = accepted
    BY <2>1 DEF Accept, NewEpoch
  <2>3. \A v \in Writers :
          /\ at'[v] \notin Active /\ at'[v] # "syncing"
          /\ record'[v] # NoRecord => v # w /\ record'[v] = record[v]
    BY <2>1, AfterLeave DEF OutcomeInv
  <2>4. OneInside'
    BY <2>1, <2>3 DEF OutcomeInv, OneInside, Leave, Pending, TypeOK
  <2>5. IndexIsCurrent'
    BY <1>1, <1>3, <2>2 DEF IndexIsCurrent, TypeOK
  <2>6. AppendsNewRecords'
    BY <2>3 DEF AppendsNewRecords, Active
  <2>7. DeliveriesAreNew'
    <3>1. \A v \in Writers : record'[v] \in Deliveries => v # w /\ record'[v] = record[v]
      BY <2>3, NoRecordIsNone DEF Deliveries
    <3>2. \A v \in Writers : record'[v] \in Deliveries => record'[v] # r
      BY <3>1 DEF OutcomeInv, DeliveriesAreNew
    <3>3. r \in Deliveries => r \in offered
      BY DEF OutcomeInv, DeliveriesAreNew
    <3>4. \A v \in Writers : index'[v] \subseteq index[v] \cup {r}
      BY <2>2 DEF TypeOK
    <3>5. \A v, u \in Writers : record'[v] \in Deliveries /\ u # v => record'[u] # record'[v]
      BY <2>3, <3>1, NoRecordIsNone DEF OutcomeInv, DeliveriesAreNew, Deliveries
    <3> HIDE DEF r
    <3> QED
      BY <1>2, <1>3, <2>2, <3>1, <3>2, <3>3, <3>4, <3>5
         DEF OutcomeInv, DeliveriesAreNew, Delivery, Listed
  <2>8. SettlementsFollow'
    <3>1. \A s \in accepted : Delivery(s) \in index'[w] => s \in index'[w]
      <4> SUFFICES ASSUME NEW s \in accepted, Delivery(s) \in index'[w]
                   PROVE  s \in index'[w]
        OBVIOUS
      <4>1. index'[w] = index[w] \cup {r}
        BY <2>2 DEF TypeOK
      <4>2. Delivery(s) # r
        <5>1. Delivery(s) \in Deliveries
          BY Records DEF TypeOK, Settlements
        <5> QED
          BY <5>1 DEF OutcomeInv, DeliveriesAreNew
      <4> QED
        BY <1>1, <4>1, <4>2 DEF OutcomeInv, SettlementsFollow
    <3> QED
      BY <1>3, <2>2, <3>1 DEF SettlementsFollow, Delivery, Listed
  <2>9. OnePerDirectory'
    BY <1>3 DEF OnePerDirectory, Listed
  <2>10. SettledOnce'
    BY <2>3 DEF SettledOnce, Active
  <2>11. AcceptedIsDurable'
    BY <1>3, <2>2 DEF AcceptedIsDurable, Listed
  <2> QED
    BY <2>4, <2>5, <2>6, <2>7, <2>8, <2>9, <2>10, <2>11 DEF OutcomeInv
<1> QED
  BY <1>5, <1>6

LEMMA SyncInv ==
    ASSUME TypeOK, OutcomeInv, NEW w \in Writers, Inside(w), Sync(w)
    PROVE  OutcomeInv'
<1> DEFINE r == record[w]
<1>1. at[w] = "syncing" /\ at[w] \in Active
  BY DEF Sync, Active
<1>2. /\ r \in current.lines \cap Settlements
      /\ w \in fresh /\ Admissible(r, index[w])
  BY <1>1 DEF OutcomeInv, OneInside
<1>3. /\ Accept(w) /\ Leave(w)
      /\ UNCHANGED <<current, rotated, offered>>
      /\ synced' = synced \cup (current.lines \cap Settlements)
      /\ older' = {}
      /\ index' = [index EXCEPT ![w] = @ \cup {r}]
      /\ fresh' = {w}
      /\ accepted' = accepted \cup {r}
  BY <1>2 DEF Sync, Accept, SyncedLines, SyncedNames, NewEpoch
<1>4. \A v \in Writers :
        /\ at'[v] \notin Active /\ at'[v] # "syncing"
        /\ record'[v] # NoRecord => v # w /\ record'[v] = record[v]
  BY <1>3, AfterLeave DEF OutcomeInv
<1>5. /\ Directories' = {Now} /\ Now \in Directories
      /\ Listed(Now) = Retained /\ Retained' = Retained
      /\ Now.current = current /\ Now.rotated = rotated
      /\ r \in Retained
  BY <1>2, <1>3 DEF Directories, Now, Listed, Retained
<1>6. /\ r \in Settlements /\ r \in Record /\ r \notin Deliveries
      /\ Delivery(r) \in index[w] /\ Delivery(r) \in Deliveries
  BY <1>2, Records DEF Admissible, Settlements
<1>7. \A s \in accepted : Delivery(s) \in Deliveries
  BY Records DEF TypeOK, Settlements
<1> HIDE DEF r
<1>8. OneInside'
  BY <1>3, <1>4 DEF OutcomeInv, OneInside, Leave, Pending, TypeOK
<1>9. IndexIsCurrent'
  <2>1. \A v \in Writers : at[v] = "syncing" => v = w
    BY OthersWait DEF OutcomeInv, Active
  <2>2. Retained \subseteq index[w] \cup {r}
    BY <1>2, <2>1 DEF OutcomeInv, IndexIsCurrent, r
  <2> QED
    BY <1>3, <1>5, <2>2 DEF IndexIsCurrent, TypeOK
<1>10. AppendsNewRecords'
  BY <1>4 DEF AppendsNewRecords, Active
<1>11. DeliveriesAreNew'
  <2>1. \A v \in Writers : record'[v] \in Deliveries => v # w /\ record'[v] = record[v]
    BY <1>4, NoRecordIsNone DEF Deliveries
  <2>2. \A v \in Writers : index'[v] \subseteq index[v] \cup {r}
    BY <1>3 DEF TypeOK
  <2>3. \A v, u \in Writers : record'[v] \in Deliveries /\ u # v => record'[u] # record'[v]
    BY <1>4, <2>1, NoRecordIsNone DEF OutcomeInv, DeliveriesAreNew, Deliveries
  <2>4. \A v \in Writers : record'[v] \in Deliveries => record'[v] # Delivery(r)
    BY <1>6, <2>1 DEF OutcomeInv, DeliveriesAreNew
  <2>5. Delivery(r) \in offered
    BY <1>6 DEF OutcomeInv, DeliveriesAreNew
  <2>6. \A s \in accepted' : Delivery(s) \in offered
    BY <1>3, <2>5 DEF OutcomeInv, DeliveriesAreNew
  <2>7. \A v \in Writers : record'[v] \in Deliveries =>
          /\ record'[v] \in offered'
          /\ record'[v] \notin Listed(Now)
          /\ \A u \in Writers : record'[v] \notin index'[u]
          /\ \A s \in accepted' : Delivery(s) # record'[v]
    BY <1>3, <1>5, <1>6, <2>1, <2>2, <2>4 DEF OutcomeInv, DeliveriesAreNew
  <2>8. /\ Listed(Now) \cap Deliveries \subseteq offered'
        /\ \A v \in Writers : index'[v] \cap Deliveries \subseteq offered'
    BY <1>3, <1>5, <1>6, <2>2 DEF OutcomeInv, DeliveriesAreNew
  <2> QED
    BY <1>3, <1>5, <2>3, <2>6, <2>7, <2>8 DEF DeliveriesAreNew, Delivery, Listed
<1>12. SettlementsFollow'
  <2>1. ASSUME NEW s \in accepted'
        PROVE  /\ Delivery(s) \in Now.current.lines => s \in Now.current.lines
               /\ Delivery(s) \in Now.rotated.lines => s \in Listed(Now)
               /\ s \in Listed(Now) => s \in synced'
    <3>1. CASE s \in accepted
      BY <1>3, <1>5, <3>1 DEF OutcomeInv, SettlementsFollow
    <3>2. CASE s = r
      BY <1>2, <1>3, <1>5, <3>2 DEF r
    <3> QED
      BY <1>3, <3>1, <3>2
  <2>2. ASSUME NEW s \in accepted', Delivery(s) \in index'[w] PROVE s \in index'[w]
    <3>1. index'[w] = index[w] \cup {r}
      BY <1>3 DEF TypeOK
    <3> QED
      BY <1>2, <1>3, <1>6, <1>7, <2>2, <3>1 DEF OutcomeInv, SettlementsFollow
  <2> QED
    BY <1>3, <1>5, <2>1, <2>2 DEF SettlementsFollow, Delivery, Listed
<1>13. OnePerDirectory'
  BY <1>5 DEF OutcomeInv, OnePerDirectory, Listed
<1>14. SettledOnce'
  BY <1>4 DEF SettledOnce, Active
<1>15. AcceptedIsDurable'
  BY <1>2, <1>3, <1>5 DEF OutcomeInv, AcceptedIsDurable, r
<1> QED
  BY <1>8, <1>9, <1>10, <1>11, <1>12, <1>13, <1>14, <1>15 DEF OutcomeInv

LEMMA FailInv ==
    ASSUME TypeOK, OutcomeInv, NEW w \in Writers, Inside(w), Fail(w)
    PROVE  OutcomeInv'
<1>1. /\ at[w] \in Active /\ record[w] \in Record
      /\ rotated' = rotated /\ offered' = offered /\ accepted' = accepted
      /\ Leave(w)
  BY DEF Fail, OutcomeInv, OneInside, Pending, TypeOK, Active
<1>2. PICK read \in {Forget(w), Reload(w, Retained')} :
        /\ index' = [index EXCEPT ![w] = read.of]
        /\ fresh' = read.fresh
  <2>1. Retained' = current'.lines \cup rotated.lines
    BY <1>1 DEF Retained
  <2> QED
    BY <2>1 DEF Fail
<1>3. /\ \A d \in Directories' : Listed(d) \cap Deliveries \subseteq offered
      /\ \A v \in Writers \ {w} : record[v] \in Deliveries =>
           \A d \in Directories' : record[v] \notin Listed(d)
      /\ \A s \in accepted : \A d \in Directories' :
           /\ Delivery(s) \in d.current.lines => s \in d.current.lines
           /\ Delivery(s) \in d.rotated.lines => s \in Listed(d)
           /\ s \in Listed(d) => s \in synced'
      /\ \A d \in Directories' : \A q, s \in Listed(d) \cap Settlements :
           q.operation = s.operation => q = s
      /\ \A s \in accepted \cap Retained' :
           s \in synced' /\ \A d \in older' : s \in Listed(d)
  <2>1. CASE at[w] = "writing"
    <3>1. current' \in Cuts(current, record[w], TRUE)
      BY <2>1 DEF Fail
    <3>2. current'.lines = current.lines \/ current'.lines = current.lines \cup {record[w]}
      BY <1>1, <3>1, CutLines DEF TypeOK
    <3>3. synced' = synced \ {record[w]} /\ (older' = older \/ older' = older \cup {Now})
      BY <2>1 DEF Fail
    <3> QED
      BY <1>1, <2>1, <3>2, <3>3, LineInFiles
  <2>2. CASE at[w] # "writing"
    <3>1. current' = current /\ synced' = synced /\ older' = older
      BY <2>2 DEF Fail
    <3>2. Directories' = Directories /\ Retained' = Retained
      BY <1>1, <3>1 DEF Directories, Now, Retained
    <3>3. /\ \A d \in Directories : Listed(d) \cap Deliveries \subseteq offered
          /\ \A v \in Writers \ {w} : record[v] \in Deliveries =>
               \A d \in Directories : record[v] \notin Listed(d)
      BY DEF OutcomeInv, DeliveriesAreNew
    <3>4. \A s \in accepted : \A d \in Directories :
           /\ Delivery(s) \in d.current.lines => s \in d.current.lines
           /\ Delivery(s) \in d.rotated.lines => s \in Listed(d)
           /\ s \in Listed(d) => s \in synced
      BY DEF OutcomeInv, SettlementsFollow
    <3>5. \A d \in Directories : \A q, s \in Listed(d) \cap Settlements :
           q.operation = s.operation => q = s
      BY DEF OutcomeInv, OnePerDirectory
    <3>6. \A s \in accepted \cap Retained :
           s \in synced /\ \A d \in older : s \in Listed(d)
      BY DEF OutcomeInv, AcceptedIsDurable, Listed
    <3> QED
      BY <3>1, <3>2, <3>3, <3>4, <3>5, <3>6
  <2> QED
    BY <2>1, <2>2
<1>4. \A v \in Writers :
        /\ at'[v] \notin Active /\ at'[v] # "syncing"
        /\ record'[v] # NoRecord => v # w /\ record'[v] = record[v]
  BY <1>1, AfterLeave DEF OutcomeInv
<1>5. /\ Now' \in Directories' /\ Listed(Now') = Retained'
      /\ Now'.current = current' /\ Now'.rotated = rotated'
  BY DEF Directories, Now, Listed, Retained
<1>6. /\ index'[w] \subseteq Retained'
      /\ \A v \in Writers \ {w} : index'[v] = index[v]
      /\ fresh' \subseteq {w}
      /\ fresh' # {} => index'[w] = Retained'
  BY <1>2 DEF Forget, Reload, TypeOK
<1>7. OneInside'
  BY <1>1, <1>4 DEF OutcomeInv, OneInside, Leave, Pending, TypeOK
<1>8. IndexIsCurrent'
  BY <1>6 DEF IndexIsCurrent
<1>9. AppendsNewRecords'
  BY <1>4 DEF AppendsNewRecords, Active
<1>10. DeliveriesAreNew'
  <2>1. \A v \in Writers : record'[v] \in Deliveries => v # w /\ record'[v] = record[v]
    BY <1>4, NoRecordIsNone DEF Deliveries
  <2>2. \A v, u \in Writers : record'[v] \in Deliveries /\ u # v => record'[u] # record'[v]
    BY <1>4, <2>1, NoRecordIsNone DEF OutcomeInv, DeliveriesAreNew, Deliveries
  <2>3. \A v \in Writers : record'[v] \in Deliveries =>
          /\ record'[v] \in offered
          /\ \A d \in Directories' : record'[v] \notin Listed(d)
          /\ \A u \in Writers : record'[v] \notin index'[u]
          /\ \A s \in accepted : Delivery(s) # record'[v]
    <3> TAKE v \in Writers
    <3> HAVE record'[v] \in Deliveries
    <3>1. v # w /\ record'[v] = record[v] /\ record[v] \in Deliveries
      BY <2>1
    <3>2. \A d \in Directories' : record[v] \notin Listed(d)
      BY <1>3, <3>1
    <3>3. record[v] \notin Retained'
      BY <1>5, <3>2
    <3> QED
      BY <1>6, <3>1, <3>2, <3>3 DEF OutcomeInv, DeliveriesAreNew
  <2>4. \A v \in Writers : index'[v] \cap Deliveries \subseteq offered
    BY <1>3, <1>5, <1>6 DEF OutcomeInv, DeliveriesAreNew
  <2>5. \A s \in accepted : Delivery(s) \in offered
    BY DEF OutcomeInv, DeliveriesAreNew
  <2> QED
    BY <1>1, <1>3, <2>2, <2>3, <2>4, <2>5 DEF DeliveriesAreNew, Delivery, Listed
<1>11. SettlementsFollow'
  <2>1. \A s \in accepted : Delivery(s) \in Retained' => s \in Retained'
    BY <1>3, <1>5 DEF Retained
  <2> QED
    BY <1>1, <1>3, <1>6, <2>1 DEF SettlementsFollow, Delivery, Listed
<1>12. OnePerDirectory'
  BY <1>3 DEF OnePerDirectory, Listed
<1>13. SettledOnce'
  BY <1>4 DEF SettledOnce, Active
<1>14. AcceptedIsDurable'
  BY <1>1, <1>3 DEF AcceptedIsDurable, Listed
<1> QED
  BY <1>7, <1>8, <1>9, <1>10, <1>11, <1>12, <1>13, <1>14 DEF OutcomeInv

\* A restart finds a directory of before, without some lines nobody relied on.
LEMMA RestartInv ==
    ASSUME TypeOK, OutcomeInv, Die \/ PowerLoss
    PROVE  OutcomeInv' /\ TypeOK'
<1>1. /\ queue' = <<>>
      /\ at' = [v \in Writers |-> "idle"]
      /\ record' = [v \in Writers |-> NoRecord]
      /\ index' = [v \in Writers |-> {}]
      /\ fresh' = {}
      /\ offered' = offered /\ accepted' = accepted /\ faults' = faults
      /\ restarts' = restarts + 1
  BY DEF Die, PowerLoss, Restart
<1>2. /\ current' \in File(Record) /\ rotated' \in File(Record)
      /\ synced' \subseteq Settlements /\ older' \subseteq Directory
      /\ \A d \in Directories' : \E e \in Directories :
           /\ d.current.lines \subseteq e.current.lines
           /\ d.rotated.lines \subseteq e.rotated.lines
           /\ \A s \in accepted : s \in e.current.lines => s \in d.current.lines
           /\ \A s \in accepted : s \in e.rotated.lines => s \in d.rotated.lines
      /\ \A s \in accepted : \A d \in Directories' : s \in Listed(d) => s \in synced'
      /\ \A s \in accepted \cap Retained' :
           s \in synced' /\ \A d \in older' : s \in Listed(d)
  <2>1. CASE Die
    <3>1. Directories' = Directories /\ Retained' = Retained
          /\ current' = current /\ rotated' = rotated /\ synced' = synced /\ older' = older
      BY <2>1 DEF Die, files, Directories, Now, Retained
    <3>2. \A s \in accepted : \A d \in Directories : s \in Listed(d) => s \in synced
      BY DEF OutcomeInv, SettlementsFollow
    <3>3. \A s \in accepted \cap Retained :
            s \in synced /\ \A d \in older : s \in Listed(d)
      BY DEF OutcomeInv, AcceptedIsDurable, Listed
    <3> QED
      BY <3>1, <3>2, <3>3 DEF TypeOK
  <2>2. CASE PowerLoss
    <3>1. PICK e \in Directories :
            current' \in Survivors(e.current) /\ rotated' \in Survivors(e.rotated)
      BY <2>2 DEF PowerLoss, Directories
    <3>2. synced' = Retained' \cap Settlements /\ older' = {} /\ Directories' = {Now'}
      BY <2>2 DEF PowerLoss, Retained, Directories
    <3>3. e.current \in File(Record) /\ e.rotated \in File(Record)
      BY DEF Directories, Now, Directory, TypeOK
    <3>4. /\ current' \in File(Record) /\ rotated' \in File(Record)
          /\ current'.lines \subseteq e.current.lines
          /\ rotated'.lines \subseteq e.rotated.lines
          /\ e.current.lines \cap synced \subseteq current'.lines
          /\ e.rotated.lines \cap synced \subseteq rotated'.lines
      BY <3>1, <3>3, SurvivorLines
    <3>5. \A s \in accepted : s \in Listed(e) => s \in synced
      BY DEF OutcomeInv, SettlementsFollow
    <3>6. Now'.current = current' /\ Now'.rotated = rotated' /\ Listed(Now') = Retained'
      BY DEF Now, Listed, Retained
    <3>7. \A s \in accepted :
            /\ s \in e.current.lines => s \in current'.lines
            /\ s \in e.rotated.lines => s \in rotated'.lines
            /\ s \in Settlements
      BY <3>4, <3>5 DEF Listed, TypeOK
    <3> QED
      BY <3>2, <3>4, <3>6, <3>7
  <2> QED
    BY <2>1, <2>2
<1>3. TypeOK'
  BY <1>1, <1>2 DEF TypeOK, Active
<1>4. \A v \in Writers : at'[v] = "idle" /\ record'[v] = NoRecord /\ index'[v] = {}
  BY <1>1
<1>5. OneInside' /\ IndexIsCurrent' /\ AppendsNewRecords' /\ SettledOnce'
  BY <1>1, <1>4 DEF OneInside, IndexIsCurrent, AppendsNewRecords, SettledOnce, Active, Pending
<1>6. DeliveriesAreNew'
  <2>1. \A d \in Directories' : Listed(d) \cap Deliveries \subseteq offered
    <3> TAKE d \in Directories'
    <3>1. PICK e \in Directories : Listed(d) \subseteq Listed(e)
      BY <1>2 DEF Listed
    <3> QED
      BY <3>1 DEF OutcomeInv, DeliveriesAreNew
  <2>2. \A s \in accepted : Delivery(s) \in offered
    BY DEF OutcomeInv, DeliveriesAreNew
  <2>3. \A v \in Writers : record'[v] \notin Deliveries
    BY <1>4, NoRecordIsNone DEF Deliveries
  <2> QED
    BY <1>1, <1>4, <2>1, <2>2, <2>3 DEF DeliveriesAreNew, Delivery, Listed
<1>7. SettlementsFollow'
  <2>1. ASSUME NEW s \in accepted, NEW d \in Directories'
        PROVE  /\ Delivery(s) \in d.current.lines => s \in d.current.lines
               /\ Delivery(s) \in d.rotated.lines => s \in Listed(d)
    <3>1. PICK e \in Directories :
           /\ d.current.lines \subseteq e.current.lines
           /\ d.rotated.lines \subseteq e.rotated.lines
           /\ s \in e.current.lines => s \in d.current.lines
           /\ s \in e.rotated.lines => s \in d.rotated.lines
      BY <1>2
    <3>2. /\ Delivery(s) \in e.current.lines => s \in e.current.lines
          /\ Delivery(s) \in e.rotated.lines => s \in Listed(e)
      BY DEF OutcomeInv, SettlementsFollow
    <3> QED
      BY <3>1, <3>2 DEF Listed
  <2> QED
    BY <1>1, <1>2, <2>1 DEF SettlementsFollow, Delivery, Listed
<1>8. OnePerDirectory'
  <2> SUFFICES ASSUME NEW d \in Directories',
                      NEW q \in Listed(d) \cap Settlements, NEW s \in Listed(d) \cap Settlements,
                      q.operation = s.operation
               PROVE  q = s
    BY DEF OnePerDirectory, Listed
  <2>1. PICK e \in Directories : Listed(d) \subseteq Listed(e)
    BY <1>2 DEF Listed
  <2> QED
    BY <2>1 DEF OutcomeInv, OnePerDirectory
<1>9. AcceptedIsDurable'
  BY <1>1, <1>2 DEF AcceptedIsDurable, Listed
<1> QED
  BY <1>3, <1>5, <1>6, <1>7, <1>8, <1>9 DEF OutcomeInv

-----------------------------------------------------------------------------
(* The theorems.                                                           *)

LEMMA InitInv == Init => TypeOK /\ OutcomeInv
<1> SUFFICES ASSUME Init PROVE TypeOK /\ OutcomeInv
  OBVIOUS
<1>1. TypeOK
  BY BlankFile DEF Init, TypeOK, Active
<1>2. Directories = {[current |-> Blank, rotated |-> Blank]} /\ Retained = {}
  BY BlankFile DEF Init, Directories, Now, Retained
<1>3. \A d \in Directories : Listed(d) = {}
  BY <1>2, BlankFile DEF Listed
<1>4. \A w \in Writers : at[w] = "idle" /\ record[w] = NoRecord /\ index[w] = {}
  BY DEF Init
<1>5. fresh = {} /\ accepted = {}
  BY DEF Init
<1>6. OneInside /\ IndexIsCurrent /\ AppendsNewRecords /\ SettledOnce
  BY <1>4, <1>5 DEF OneInside, IndexIsCurrent, AppendsNewRecords, SettledOnce, Active, Pending
<1>7. DeliveriesAreNew
  BY <1>3, <1>4, <1>5, NoRecordIsNone DEF DeliveriesAreNew, Deliveries
<1>8. SettlementsFollow /\ OnePerDirectory /\ AcceptedIsDurable
  BY <1>3, <1>5 DEF SettlementsFollow, OnePerDirectory, AcceptedIsDurable
<1> QED
  BY <1>1, <1>6, <1>7, <1>8 DEF OutcomeInv

LEMMA NextInv == TypeOK /\ OutcomeInv /\ [Next]_vars => TypeOK' /\ OutcomeInv'
<1> SUFFICES ASSUME TypeOK, OutcomeInv, [Next]_vars PROVE TypeOK' /\ OutcomeInv'
  OBVIOUS
<1>1. CASE UNCHANGED vars
  <2> USE <1>1 DEF vars, files, calls, memory
  <2>1. TypeOK'
    BY DEF TypeOK
  <2>2. Directories' = Directories /\ Retained' = Retained
    BY DEF Directories, Now, Retained
  <2>3. OneInside' /\ IndexIsCurrent' /\ AppendsNewRecords' /\ SettledOnce'
    BY <2>2 DEF OutcomeInv, OneInside, IndexIsCurrent, AppendsNewRecords, SettledOnce,
                Pending, Inside, Admissible, Delivery
  <2>4. DeliveriesAreNew' /\ SettlementsFollow' /\ OnePerDirectory' /\ AcceptedIsDurable'
    BY <2>2 DEF OutcomeInv, DeliveriesAreNew, SettlementsFollow, OnePerDirectory,
                AcceptedIsDurable, Delivery, Listed
  <2> QED
    BY <2>1, <2>3, <2>4 DEF OutcomeInv
<1>2. ASSUME NEW w \in Writers, Step(w) PROVE TypeOK' /\ OutcomeInv'
  <2>1. Inside(w)
    BY <1>2 DEF Step
  <2>2. TypeOK'
    BY <1>2, StepType DEF OutcomeInv, OneInside, Pending, TypeOK
  <2>3. OutcomeInv'
    BY <1>2, <2>1, AdmitInv, MoveInv, WriteInv, SyncInv, FailInv DEF Step
  <2> QED
    BY <2>2, <2>3
<1>3. ASSUME NEW w \in Writers, NEW r \in Record, Arrive(w, r) PROVE TypeOK' /\ OutcomeInv'
  <2>1. TypeOK'
    BY <1>3 DEF Arrive, TypeOK, files, memory, Active
  <2> QED
    BY <1>3, <2>1, ArriveInv
<1>4. CASE Die \/ PowerLoss
  BY <1>4, RestartInv
<1> QED
  BY <1>1, <1>2, <1>3, <1>4 DEF Next

\* The types and the invariant of the forward journal hold through appends,
\* rotations, failing steps, deaths and power losses.
THEOREM OutcomeInvHolds == Spec => [](TypeOK /\ OutcomeInv)
BY InitInv, NextInv, PTL DEF Spec

THEOREM OutcomeTypeCorrect == Spec => []TypeOK
BY OutcomeInvHolds, PTL

\* Writers that keep an index never decide from an outdated one.
THEOREM IndexIsCurrentHolds == Spec => []IndexIsCurrent
<1>1. OutcomeInv => IndexIsCurrent
  BY DEF OutcomeInv
<1> QED
  BY <1>1, OutcomeInvHolds, PTL

\* No record is appended while a line of it is retained.
THEOREM AppendsNewRecordsHolds == Spec => []AppendsNewRecords
<1>1. OutcomeInv => AppendsNewRecords
  BY DEF OutcomeInv
<1> QED
  BY <1>1, OutcomeInvHolds, PTL

\* The files hold one settlement of an operation.
THEOREM OneRetainedSettlementHolds == Spec => []OneRetainedSettlement
<1>1. OutcomeInv => OneRetainedSettlement
  <2>1. Now \in Directories
    BY DEF Directories
  <2>2. Listed(Now) = Retained
    BY DEF Listed, Now, Retained
  <2> QED
    BY <2>1, <2>2 DEF OutcomeInv, OnePerDirectory, OneRetainedSettlement
<1> QED
  BY <1>1, OutcomeInvHolds, PTL

\* No artifact is settled twice, whatever the journal forgot in between.
THEOREM SettledOnceHolds == Spec => []SettledOnce
<1>1. OutcomeInv => SettledOnce
  BY DEF OutcomeInv
<1> QED
  BY <1>1, OutcomeInvHolds, PTL

\* An accepted settlement survives a power loss until rotation removes it.
THEOREM AcceptedIsDurableHolds == Spec => []AcceptedIsDurable
<1>1. OutcomeInv => AcceptedIsDurable
  BY DEF OutcomeInv
<1> QED
  BY <1>1, OutcomeInvHolds, PTL
=============================================================================
