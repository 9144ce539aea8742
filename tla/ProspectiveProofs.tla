---------------------------- MODULE ProspectiveProofs -------------------------
(***************************************************************************)
(* Proofs about the prospective delivery journal, for any number of        *)
(* settlements and records: no step loses a record or revises what is      *)
(* final in it.                                                            *)
(***************************************************************************)
EXTENDS ProspectiveDelivery, FiniteSetTheorems, TLAPS

\* The bounds of the instance are numbers.
ProspectiveBounds == MaxRecords \in Nat /\ MaxProspectiveFaults \in Nat

\* What the parser makes of a journal: observations by their key.
IsRecords(recs) ==
    /\ DOMAIN recs \subseteq Keys
    /\ \A k \in DOMAIN recs : recs[k] \in Observation /\ recs[k].key = k

\* What a record may become.
Advances(prior, next) ==
    /\ prior.technical \notin OpenTechnical => next.technical = prior.technical
    /\ next.technical = "unknown" => prior.technical = "unknown"
    /\ prior.feedback # "absent" => next.feedback = prior.feedback
    /\ prior.transmission # "unknown" => next.transmission = prior.transmission
    /\ next.observedAt = prior.observedAt

\* The journal after lines were read behind it.
Advanced(recs, more, lines) ==
    /\ IsRecords(more)
    /\ DOMAIN recs \subseteq DOMAIN more
    /\ DOMAIN more \subseteq DOMAIN recs \cup {o.key : o \in lines}
    /\ \A k \in DOMAIN recs : Advances(recs[k], more[k])

LEMMA AcceptedAdvances ==
    ASSUME NEW prior \in Observation, NEW o \in Observation,
           \/ FeedbackFill(prior, o)
           \/ TransmissionFill(prior, o)
           \/ AuthorizedTechnicalRevision(prior, o)
    PROVE  Advances(prior, [o EXCEPT !.observedAt = prior.observedAt])
<1> DEFINE next == [o EXCEPT !.observedAt = prior.observedAt]
<1>1. /\ next.technical = o.technical /\ next.feedback = o.feedback /\ next.transmission = o.transmission
      /\ next.observedAt = prior.observedAt
  BY DEF Observation
<1>2. CASE FeedbackFill(prior, o)
  <2>1. o.technical = prior.technical /\ o.transmission = prior.transmission /\ prior.feedback = "absent"
    BY <1>2 DEF FeedbackFill, SameBut
  <2> QED  BY <1>1, <2>1 DEF Advances
<1>3. CASE TransmissionFill(prior, o)
  <2>1. o.technical = prior.technical /\ o.feedback = prior.feedback /\ prior.transmission = "unknown"
    BY <1>3 DEF TransmissionFill, SameBut
  <2> QED  BY <1>1, <2>1 DEF Advances
<1>4. CASE AuthorizedTechnicalRevision(prior, o)
  <2>1. /\ o.feedback = prior.feedback /\ o.transmission = prior.transmission
        /\ prior.technical \in OpenTechnical /\ o.technical # "unknown"
    BY <1>4 DEF AuthorizedTechnicalRevision, SameBut
  <2> QED  BY <1>1, <2>1 DEF Advances
<1> QED  BY <1>2, <1>3, <1>4

\* The parser of the journal never revises what a record has.
LEMMA ParsedAdvances ==
    ASSUME NEW recs, IsRecords(recs), NEW lines \in SUBSET Observation
    PROVE  Advanced(recs, Parsed(recs, lines), lines)
<1> DEFINE taken == {o \in lines : Accepts(recs, o)}
           line(k) == CHOOSE o \in taken : o.key = k
           more == Parsed(recs, lines)
           value(k) == IF \A o \in taken : o.key # k THEN recs[k]
                       ELSE IF k \in DOMAIN recs THEN [line(k) EXCEPT !.observedAt = recs[k].observedAt] ELSE line(k)
<1>1. /\ DOMAIN more = DOMAIN recs \cup {o.key : o \in taken}
      /\ \A k \in DOMAIN more : more[k] = value(k)
  BY DEF Parsed
<1> HIDE DEF more
<1>2. DOMAIN more \subseteq Keys
  BY <1>1 DEF IsRecords, Observation
<1>3. ASSUME NEW k \in DOMAIN more
      PROVE  /\ more[k] \in Observation /\ more[k].key = k
             /\ k \in DOMAIN recs => Advances(recs[k], more[k])
  <2>1. CASE \A o \in taken : o.key # k
    <3>1. k \in DOMAIN recs /\ more[k] = recs[k]
      BY <1>1, <2>1
    <3> QED  BY <3>1 DEF IsRecords, Advances
  <2>2. CASE \E o \in taken : o.key = k
    <3>1. line(k) \in taken /\ line(k).key = k
      BY <2>2
    <3> DEFINE o == line(k)
    <3>2. o \in Observation /\ o.key = k /\ Accepts(recs, o)
      BY <3>1
    <3> HIDE DEF o, line
    <3>3. CASE k \in DOMAIN recs
      <4>1. more[k] = [o EXCEPT !.observedAt = recs[k].observedAt]
        BY <1>1, <2>2, <3>3 DEF o
      <4>2. recs[k] \in Observation
        BY <3>3 DEF IsRecords
      <4>3. Advances(recs[k], more[k])
        BY <3>2, <3>3, <4>1, <4>2, AcceptedAdvances DEF Accepts
      <4>4. more[k] \in Observation /\ more[k].key = k
        BY <3>2, <4>1, <4>2 DEF Observation
      <4> QED  BY <4>3, <4>4
    <3>4. CASE k \notin DOMAIN recs
      <4>1. more[k] = o
        BY <1>1, <2>2, <3>4 DEF o
      <4> QED  BY <3>2, <3>4, <4>1
    <3> QED  BY <3>3, <3>4
  <2> QED  BY <2>1, <2>2
<1>4. Advanced(recs, more, lines)
  BY <1>1, <1>2, <1>3 DEF Advanced, IsRecords
<1> QED  BY <1>4 DEF more

\* The journal as a value.
IsJournal(j) == IsRecords(j.records) /\ j.saturated \in BOOLEAN /\ j.torn \in BOOLEAN

\* Whether an append is whole or cut short, some of its lines are read.
LEMMA AppendAdvances ==
    ASSUME NEW j, IsJournal(j), NEW lines \in SUBSET Observation, NEW mark \in BOOLEAN,
           NEW left \in Appended(j, lines, mark) \cup CutShort(j, lines, mark)
    PROVE  IsJournal(left) /\ Advanced(j.records, left.records, lines)
<1>1. PICK some \in SUBSET lines, sat \in BOOLEAN, tears \in BOOLEAN :
         left = Outcome(Parsed(j.records, some), sat, tears)
  <2>1. CASE left \in Appended(j, lines, mark)
    <3>1. CASE j.torn /\ lines # {}
      <4>1. PICK o \in lines :
               left = Outcome(Parsed(j.records, lines \ {o}), j.saturated \/ mark, FALSE)
        BY <2>1, <3>1 DEF Appended
      <4>2. lines \ {o} \in SUBSET lines /\ (j.saturated \/ mark) \in BOOLEAN /\ FALSE \in BOOLEAN
        OBVIOUS
      <4> QED  BY <4>1, <4>2
    <3>2. CASE ~(j.torn /\ lines # {})
      <4>1. left = Outcome(Parsed(j.records, lines),
                                       j.saturated \/ (mark /\ ~j.torn), j.torn /\ ~mark)
        BY <2>1, <3>2 DEF Appended
      <4>2. (j.saturated \/ (mark /\ ~j.torn)) \in BOOLEAN /\ (j.torn /\ ~mark) \in BOOLEAN
        OBVIOUS
      <4> QED  BY <4>1, <4>2
    <3> QED  BY <3>1, <3>2
  <2>2. CASE left \notin Appended(j, lines, mark)
    <3>1. PICK some \in SUBSET lines, tears \in BOOLEAN :
             left = Outcome(Parsed(j.records, some), j.saturated, tears)
      BY <2>2 DEF CutShort
    <3> QED  BY <3>1 DEF IsJournal
  <2> QED  BY <2>1, <2>2
<1>2. left.records = Parsed(j.records, some) /\ left.saturated = sat /\ left.torn = tears
  BY <1>1 DEF Outcome
<1>3. Advanced(j.records, left.records, some)
  BY <1>2, ParsedAdvances DEF IsJournal
<1> QED  BY <1>2, <1>3 DEF IsJournal, Advanced

LEMMA AdvancedTwice ==
    ASSUME NEW recs, NEW mid, NEW more, NEW lines, Advanced(recs, mid, lines), Advanced(mid, more, {})
    PROVE  Advanced(recs, more, lines)
<1>1. ASSUME NEW k \in DOMAIN recs PROVE Advances(recs[k], more[k])
  <2>1. k \in DOMAIN mid /\ Advances(recs[k], mid[k]) /\ Advances(mid[k], more[k])
    BY DEF Advanced
  <2> QED  BY <2>1 DEF Advances
<1> QED  BY <1>1 DEF Advanced

LEMMA AdvancedByNothing ==
    ASSUME NEW recs, IsRecords(recs), NEW lines
    PROVE  Advanced(recs, recs, lines)
  BY DEF Advanced, Advances

RecordsInv ==
    /\ TypeOK
    /\ IsRecords(records)
    /\ IsFiniteSet(DOMAIN rows) /\ IsFiniteSet(DOMAIN records)

LEMMA ImageIsFinite ==
    ASSUME NEW S, IsFiniteSet(S), NEW f
    PROVE  LET T == {f[x] : x \in S} IN IsFiniteSet(T) /\ Cardinality(T) <= Cardinality(S)
<1> DEFINE T == {f[x] : x \in S}
           g == [x \in S |-> f[x]]
<1>1. g \in Surjection(S, T)
  BY DEF Surjection
<1> QED  BY <1>1, FS_Surjection

\* The journal of this state is one.
LEMMA JournalIsOne ==
    ASSUME RecordsInv
    PROVE  IsJournal(Journal) /\ Journal.records = records
  BY DEF RecordsInv, TypeOK, IsJournal, Journal, Outcome

\* The binding of statements adds no record.
LEMMA BoundAdvances ==
    ASSUME NEW j, IsJournal(j), NEW w \in Bound(j)
    PROVE  IsJournal(w[1]) /\ Advanced(j.records, w[1].records, {}) /\ w[2] \in BOOLEAN
<1> DEFINE stated == Stated(j.records)
           lines == Revising(j.records, stated, FALSE)
<1>1. stated \subseteq Observation
  BY DEF Stated, IsJournal, IsRecords, Observation, Feedback
<1>2. lines \subseteq stated /\ \A o \in lines : o.key \in DOMAIN j.records
  BY DEF Revising
<1>3. lines \in SUBSET Observation /\ FALSE \in BOOLEAN
  BY <1>1, <1>2
<1>4. PICK left \in Appended(j, lines, FALSE) \cup CutShort(j, lines, FALSE), fails \in BOOLEAN :
         w = <<left, fails>>
  BY DEF Bound
<1> HIDE DEF stated, lines
<1>5. IsJournal(left) /\ Advanced(j.records, left.records, lines)
  BY <1>3, AppendAdvances
<1>6. Advanced(j.records, left.records, {})
  BY <1>2, <1>5 DEF Advanced
<1> QED  BY <1>4, <1>5, <1>6

\* What a call leaves when it brings the records on and adds few enough.
LEMMA LeavesKeeps ==
    ASSUME ProspectiveBounds, RecordsInv, NEW left, NEW fails \in BOOLEAN, Leaves(left, fails),
           IsJournal(left), NEW lines, Advanced(records, left.records, lines),
           NEW new, IsFiniteSet(new), new = {} \/ Cardinality(DOMAIN records) + Cardinality(new) <= MaxRecords,
           {o.key : o \in lines} \subseteq DOMAIN records \cup {o.key : o \in new},
           unseen' \subseteq unseen, UNCHANGED rows
    PROVE  RecordsInv' /\ Advanced(records, records', lines)
<1>1. /\ records' = left.records /\ saturated' = left.saturated /\ torn' = left.torn
      /\ prospectiveFaults' \in 0..MaxProspectiveFaults
  BY DEF Leaves, Fails, ProspectiveBounds, RecordsInv, TypeOK
<1> DEFINE keys == {o.key : o \in new}
<1>2. IsFiniteSet(keys) /\ Cardinality(keys) <= Cardinality(new)
  <2> DEFINE f == [o \in new |-> o.key]
  <2>1. keys = {f[o] : o \in new}
    OBVIOUS
  <2> HIDE DEF f
  <2> QED  BY <2>1, ImageIsFinite
<1>3. DOMAIN records' \subseteq DOMAIN records \cup keys
  BY <1>1 DEF Advanced
<1>4. IsFiniteSet(DOMAIN records) /\ Cardinality(DOMAIN records) <= MaxRecords
  BY DEF RecordsInv, TypeOK
<1> HIDE DEF keys
<1>5. IsFiniteSet(DOMAIN records') /\ Cardinality(DOMAIN records') <= MaxRecords
  <2>1. /\ IsFiniteSet(DOMAIN records \cup keys)
        /\ Cardinality(DOMAIN records \cup keys) =
             Cardinality(DOMAIN records) + Cardinality(keys) - Cardinality(DOMAIN records \cap keys)
    BY <1>2, <1>4, FS_Union
  <2>2. IsFiniteSet(DOMAIN records \cap keys)
    BY <1>4, FS_Subset
  <2>3. IsFiniteSet(DOMAIN records') /\ Cardinality(DOMAIN records') <= Cardinality(DOMAIN records \cup keys)
    BY <1>3, <2>1, FS_Subset
  <2>4. /\ Cardinality(DOMAIN records') \in Nat /\ Cardinality(DOMAIN records \cup keys) \in Nat
        /\ Cardinality(DOMAIN records \cap keys) \in Nat /\ Cardinality(DOMAIN records) \in Nat
        /\ Cardinality(keys) \in Nat /\ Cardinality(new) \in Nat
    BY <1>2, <1>4, <2>1, <2>2, <2>3, FS_CardinalityType
  <2>5. CASE new = {}
    <3>1. Cardinality(new) = 0
      BY <2>5, FS_EmptySet
    <3> QED  BY <1>2, <1>4, <2>1, <2>3, <2>4, <3>1 DEF ProspectiveBounds
  <2>6. CASE Cardinality(DOMAIN records) + Cardinality(new) <= MaxRecords
    BY <1>2, <2>1, <2>3, <2>4, <2>6 DEF ProspectiveBounds
  <2> QED  BY <2>5, <2>6
<1>6. IsRecords(records') /\ saturated' \in BOOLEAN /\ torn' \in BOOLEAN
  BY <1>1 DEF IsJournal
<1>7. TypeOK'
  BY <1>1, <1>5, <1>6 DEF RecordsInv, TypeOK, IsRecords
<1> QED  BY <1>1, <1>5, <1>6, <1>7 DEF RecordsInv

LEMMA BindKeeps ==
    ASSUME ProspectiveBounds, RecordsInv, Bind
    PROVE  RecordsInv' /\ Advanced(records, records', {})
<1>1. PICK w \in Bound(Journal) : Leaves(w[1], w[2])
  BY DEF Bind
<1>2. IsJournal(w[1]) /\ Advanced(records, w[1].records, {}) /\ w[2] \in BOOLEAN
  BY JournalIsOne, BoundAdvances
<1>3. IsFiniteSet({})
  BY FS_EmptySet
<1> QED  BY <1>1, <1>2, <1>3, LeavesKeeps DEF Bind

LEMMA NoteKeeps ==
    ASSUME ProspectiveBounds, RecordsInv, NEW k \in Keys,
           NEW transmission \in Transmission \ {"unknown"}, Note(k, transmission)
    PROVE  RecordsInv' /\ \E lines : Advanced(records, records', lines)
<1> DEFINE line == IF k \in DOMAIN records THEN [records[k] EXCEPT !.transmission = transmission]
                   ELSE [key |-> k, technical |-> "unknown", feedback |-> "absent", task |-> "absent",
                         transmission |-> transmission, observedAt |-> "note"]
           new == IF k \in DOMAIN records THEN {} ELSE {line}
<1>1. line \in Observation /\ line.key = k
  <2>1. CASE k \in DOMAIN records
    BY <2>1 DEF RecordsInv, IsRecords, Observation
  <2>2. CASE k \notin DOMAIN records
    BY <2>2 DEF Observation, Technical, OpenTechnical, Feedback
  <2> QED  BY <2>1, <2>2
<1>2. PICK left \in Appended(Journal, {line}, FALSE)
                     \cup CutShort(Journal, {line}, FALSE), fails \in BOOLEAN :
         Leaves(left, fails)
  BY DEF Note
<1>3. k \notin DOMAIN records => Room > 0
  BY DEF Note
<1> HIDE DEF line
<1>4. IsJournal(left) /\ Advanced(records, left.records, {line})
  <2>1. {line} \in SUBSET Observation /\ FALSE \in BOOLEAN
    BY <1>1
  <2> QED  BY <2>1, JournalIsOne, AppendAdvances
<1>5. IsFiniteSet(new) /\ (new = {} \/ Cardinality(DOMAIN records) + Cardinality(new) <= MaxRecords)
  <2>1. CASE k \in DOMAIN records
    BY <2>1, FS_EmptySet
  <2>2. CASE k \notin DOMAIN records
    <3>1. MaxRecords - Cardinality(DOMAIN records) > 0
      BY <1>3, <2>2 DEF Room
    <3>2. IsFiniteSet(new) /\ Cardinality(new) = 1
      BY <2>2, FS_Singleton
    <3>3. Cardinality(DOMAIN records) \in Nat
      BY FS_CardinalityType DEF RecordsInv
    <3> QED  BY <3>1, <3>2, <3>3 DEF ProspectiveBounds
  <2> QED  BY <2>1, <2>2
<1>6. {o.key : o \in {line}} \subseteq DOMAIN records \cup {o.key : o \in new}
  BY <1>1
<1> HIDE DEF new
<1>7. unseen' \subseteq unseen /\ UNCHANGED rows
  BY DEF Note
<1> QED  BY <1>2, <1>4, <1>5, <1>6, <1>7, LeavesKeeps

\* What a run observes of a settlement is an observation on it.
LEMMA ObservedIsObservation ==
    ASSUME RecordsInv, NEW k \in DOMAIN rows
    PROVE  Observed(k) \in Observation /\ Observed(k).key = k
<1>1. k \in Keys /\ rows[k] \in Row
  BY DEF RecordsInv, TypeOK
<1>2. CASE k \in DOMAIN records
  <2>1. records[k] \in Observation /\ records[k].key = k
    BY <1>2 DEF RecordsInv, IsRecords
  <2>2. /\ rows[k].technical \in Technical /\ rows[k].task \in {"absent", "classed"}
        /\ rows[k].feedback \in Feedback
    BY <1>1 DEF Row
  <2>3. PICK said \in Feedback :
           Observed(k) = [records[k] EXCEPT !.technical = rows[k].technical, !.task = rows[k].task,
                                                        !.feedback = said]
    <3>1. records[k].feedback \in Feedback
      BY <2>1 DEF Observation
    <3>2. (IF records[k].feedback # "absent" THEN records[k].feedback ELSE rows[k].feedback) \in Feedback
      BY <2>2, <3>1
    <3> QED  BY <1>2, <3>2 DEF Observed
  <2> QED  BY <2>1, <2>2, <2>3 DEF Observation
<1>3. CASE k \notin DOMAIN records
  BY <1>1, <1>3 DEF Observed, Observation, Row, Transmission
<1> QED  BY <1>2, <1>3

LEMMA RetainKeeps ==
    ASSUME ProspectiveBounds, RecordsInv, Retain
    PROVE  RecordsInv' /\ \E lines : Advanced(records, records', lines)
<1> DEFINE found == (unseen \cup OpenKeys) \cap DOMAIN rows
           observations == {Observed(k) : k \in found}
<1>1. observations \subseteq Observation
  BY ObservedIsObservation
<1>2. IsFiniteSet(observations)
  <2> DEFINE f == [k \in found |-> Observed(k)]
  <2>1. observations = {f[k] : k \in found}
    OBVIOUS
  <2>2. IsFiniteSet(found)
    BY FS_Subset DEF RecordsInv
  <2> HIDE DEF f, found
  <2> QED  BY <2>1, <2>2, ImageIsFinite
<1>3. PICK new \in Creating(observations) :
         LET lines == new \cup Revising(records, observations, TRUE)
             mark == ~saturated /\ new # NewOnes(observations)
         IN  /\ \/ \E left \in Appended(Journal, lines, mark) :
                     \E w \in Bound(left) : Leaves(w[1], w[2])
                \/ \E left \in CutShort(Journal, lines, mark) : Leaves(left, TRUE)
             /\ unseen' = {}
             /\ UNCHANGED rows
  BY DEF Retain
<1> HIDE DEF observations
<1> DEFINE lines == new \cup Revising(records, observations, TRUE)
           mark == ~saturated /\ new # NewOnes(observations)
<1>4. /\ new \subseteq NewOnes(observations) /\ NewOnes(observations) \subseteq observations
      /\ Cardinality(new) = IF Cardinality(NewOnes(observations)) < Room
                            THEN Cardinality(NewOnes(observations)) ELSE Room
  BY <1>3 DEF Creating, NewOnes
<1>5. lines \in SUBSET Observation /\ mark \in BOOLEAN
  BY <1>1, <1>4 DEF Revising
<1>6. {o.key : o \in lines} \subseteq DOMAIN records \cup {o.key : o \in new}
  BY DEF Revising
<1>7. IsFiniteSet(new) /\ (new = {} \/ Cardinality(DOMAIN records) + Cardinality(new) <= MaxRecords)
  <2>1. IsFiniteSet(new) /\ IsFiniteSet(NewOnes(observations))
    BY <1>2, <1>4, FS_Subset
  <2>2. /\ Cardinality(new) \in Nat /\ Cardinality(NewOnes(observations)) \in Nat
        /\ Cardinality(DOMAIN records) \in Nat
    BY <2>1, FS_CardinalityType DEF RecordsInv
  <2>3. Room = IF saturated THEN 0 ELSE MaxRecords - Cardinality(DOMAIN records)
    BY DEF Room
  <2>4. CASE saturated
    <3>1. Cardinality(new) = 0
      BY <1>4, <2>2, <2>3, <2>4
    <3> QED  BY <2>1, <3>1, FS_EmptySet
  <2>5. CASE ~saturated
    BY <1>4, <2>1, <2>2, <2>3, <2>5 DEF ProspectiveBounds
  <2> QED  BY <2>4, <2>5
<1>8. ASSUME NEW left, NEW fails \in BOOLEAN, Leaves(left, fails), IsJournal(left),
             Advanced(records, left.records, lines)
      PROVE  RecordsInv' /\ \E some : Advanced(records, records', some)
  <2> HIDE DEF lines
  <2>1. unseen' \subseteq unseen /\ UNCHANGED rows
    BY <1>3
  <2> QED  BY <1>6, <1>7, <1>8, <2>1, LeavesKeeps
<1>9. CASE \E left \in Appended(Journal, lines, mark) :
             \E w \in Bound(left) : Leaves(w[1], w[2])
  <2>1. PICK left \in Appended(Journal, lines, mark) :
           \E w \in Bound(left) : Leaves(w[1], w[2])
    BY <1>9
  <2>2. PICK w \in Bound(left) : Leaves(w[1], w[2])
    BY <2>1
  <2>3. IsJournal(left) /\ Advanced(records, left.records, lines)
    BY <1>5, JournalIsOne, AppendAdvances
  <2>4. IsJournal(w[1]) /\ Advanced(left.records, w[1].records, {}) /\ w[2] \in BOOLEAN
    BY <2>3, BoundAdvances
  <2>5. Advanced(records, w[1].records, lines)
    BY <2>3, <2>4, AdvancedTwice
  <2> HIDE DEF lines
  <2> QED  BY <1>8, <2>2, <2>4, <2>5
<1>10. CASE \E left \in CutShort(Journal, lines, mark) : Leaves(left, TRUE)
  <2>1. PICK left \in CutShort(Journal, lines, mark) : Leaves(left, TRUE)
    BY <1>10
  <2>2. IsJournal(left) /\ Advanced(records, left.records, lines)
    BY <1>5, JournalIsOne, AppendAdvances
  <2> HIDE DEF lines
  <2> QED  BY <1>8, <2>1, <2>2
<1> QED  BY <1>3, <1>9, <1>10

\* The ledger and the stores of the join change no record.
LEMMA JoinKeeps ==
    ASSUME RecordsInv, NEW k \in Keys, NEW row \in Row, rows' = Put(rows, k, row),
           unseen' \subseteq unseen \cup {k}, UNCHANGED <<records, saturated, torn, prospectiveFaults>>
    PROVE  RecordsInv'
<1>1. DOMAIN rows' = DOMAIN rows \cup {k} /\ \A i \in DOMAIN rows' : rows'[i] = IF i = k THEN row ELSE rows[i]
  BY DEF Put
<1>2. IsFiniteSet(DOMAIN rows')
  BY <1>1, FS_AddElement DEF RecordsInv
<1>3. TypeOK'
  BY <1>1 DEF RecordsInv, TypeOK
<1> QED  BY <1>2, <1>3 DEF RecordsInv

LEMMA ProspectiveStep ==
    ASSUME ProspectiveBounds, RecordsInv, [Next]_prospectiveVars
    PROVE  RecordsInv' /\ \E lines : Advanced(records, records', lines)
<1>1. ASSUME NEW k \in Keys, SettleKey(k) PROVE RecordsInv' /\ UNCHANGED records
  <2>1. /\ rows' = Put(rows, k, [technical |-> "unknown", feedback |-> "absent", task |-> "absent"])
        /\ unseen' = unseen \cup {k} /\ UNCHANGED <<records, saturated, torn, prospectiveFaults>>
    BY <1>1 DEF SettleKey, journal
  <2>2. [technical |-> "unknown", feedback |-> "absent", task |-> "absent"] \in Row
    BY DEF Row, Technical, OpenTechnical, Feedback
  <2> QED  BY <2>1, <2>2, JoinKeeps
<1>2. ASSUME NEW k \in Keys, JoinLearns(k) PROVE RecordsInv' /\ UNCHANGED records
  <2>1. PICK row \in Row : rows' = Put(rows, k, row)
    BY <1>2 DEF JoinLearns
  <2>2. unseen' = unseen /\ UNCHANGED <<records, saturated, torn, prospectiveFaults>>
    BY <1>2 DEF JoinLearns, journal
  <2> QED  BY <2>1, <2>2, JoinKeeps
<1>3. CASE UNCHANGED prospectiveVars
  <2>1. UNCHANGED <<rows, unseen, records, saturated, torn, prospectiveFaults>>
    BY <1>3 DEF prospectiveVars, journal
  <2>2. TypeOK' /\ IsRecords(records')
    BY <2>1 DEF RecordsInv, TypeOK
  <2>3. \E lines : Advanced(records, records', lines)
    BY <2>1, AdvancedByNothing DEF RecordsInv
  <2> QED  BY <2>1, <2>2, <2>3 DEF RecordsInv
<1>4. CASE Retain
  BY <1>4, RetainKeeps
<1>5. CASE Bind
  BY <1>5, BindKeeps
<1>6. ASSUME NEW k \in Keys, NEW transmission \in Transmission \ {"unknown"},
             Note(k, transmission)
      PROVE  RecordsInv' /\ \E lines : Advanced(records, records', lines)
  BY <1>6, NoteKeeps
<1>7. UNCHANGED records => Advanced(records, records', {})
  BY AdvancedByNothing DEF RecordsInv
<1>8. CASE RecordsInv' /\ UNCHANGED records
  BY <1>7, <1>8
<1>9. UNCHANGED prospectiveVars => UNCHANGED records
  BY DEF prospectiveVars, journal
<1> QED  BY <1>1, <1>2, <1>3, <1>4, <1>5, <1>6, <1>8, <1>9 DEF Next

LEMMA ProspectiveInitially == ProspectiveBounds /\ Init => RecordsInv
<1> SUFFICES ASSUME ProspectiveBounds, Init PROVE RecordsInv
  OBVIOUS
<1>1. DOMAIN rows = {} /\ DOMAIN records = {} /\ unseen = {}
  BY DEF Init, Empty
<1>2. IsFiniteSet({}) /\ Cardinality({}) = 0
  BY FS_EmptySet
<1>3. TypeOK
  <2>1. /\ rows = Empty /\ records = Empty /\ unseen = {}
        /\ saturated \in BOOLEAN /\ torn \in BOOLEAN /\ prospectiveFaults \in 0..MaxProspectiveFaults
    <3>1. saturated \in BOOLEAN /\ torn \in BOOLEAN
      BY DEF Init
    <3>2. prospectiveFaults \in 0..MaxProspectiveFaults
      BY DEF Init, ProspectiveBounds
    <3> QED  BY <3>1, <3>2 DEF Init
  <2>2. /\ \A k \in DOMAIN rows : rows[k] \in Row
        /\ \A k \in DOMAIN records : records[k] \in Observation
        /\ DOMAIN rows \subseteq Keys /\ DOMAIN records \subseteq Keys
    BY <1>1
  <2>3. Cardinality(DOMAIN records) <= MaxRecords
    BY <1>1, <1>2 DEF ProspectiveBounds
  <2> QED  BY <2>1, <2>2, <2>3 DEF TypeOK
<1> QED  BY <1>1, <1>2, <1>3 DEF RecordsInv, IsRecords

\* What the proofs keep of the journal holds in every state.
LEMMA RecordsInvHolds == ProspectiveBounds /\ Spec => []RecordsInv
<1>1. ProspectiveBounds => ProspectiveBounds'
  OBVIOUS
<1>2. ProspectiveBounds /\ RecordsInv /\ [Next]_prospectiveVars => RecordsInv'
  BY ProspectiveStep
<1> QED  BY <1>1, <1>2, ProspectiveInitially, PTL DEF Spec

\* No record is lost, whichever appends tear or stop half-way: its first
\* terminal class, its statement and its transmission stay ("A different terminal
\* class conflicts and the first one wins", commerce-prospective-delivery.mjs:30).
THEOREM RecordsOnlyAdvanceHolds == ProspectiveBounds /\ Spec => RecordsOnlyAdvance
<1>1. ProspectiveBounds => ProspectiveBounds'
  OBVIOUS
<1>2. ProspectiveBounds /\ RecordsInv /\ [Next]_prospectiveVars =>
        [\A k \in DOMAIN records :
           /\ k \in DOMAIN records'
           /\ records[k].technical \notin OpenTechnical => records'[k].technical = records[k].technical
           /\ records'[k].technical = "unknown" => records[k].technical = "unknown"
           /\ records[k].feedback # "absent" => records'[k].feedback = records[k].feedback
           /\ records[k].transmission # "unknown" => records'[k].transmission = records[k].transmission
           /\ records'[k].observedAt = records[k].observedAt]_prospectiveVars
  BY ProspectiveStep DEF Advanced, Advances
<1> QED  BY <1>1, <1>2, RecordsInvHolds, PTL DEF Spec, RecordsOnlyAdvance
=============================================================================
