--------------------------- MODULE ReplayHttpProofs ---------------------------
(***************************************************************************)
(* Proofs about ReplayHttp for every number of requests, bindings, key     *)
(* epochs and every clock: type correctness, that no signed credential is  *)
(* settled twice, what the journal holds and what the answers carry, and   *)
(* that the HTTP path implements the promise of PaidOperation.             *)
(***************************************************************************)
EXTENDS ReplayHttp, ReplayStoreProofs, FiniteSetTheorems

-----------------------------------------------------------------------------
(* The operations of the store, where TypeOK holds.                        *)

LEMMA JournalStep ==
    ASSUME TypeOK, Sound(disk.recs), now' = now, NEW new \in SUBSET Records,
           Live(new, now) = new, Sound(new), Throws(new)
    PROVE  /\ disk' \in Journals
           /\ Sound(disk.recs)'
           /\ Recs' = Recs \/ Recs' = new
BY StoreStep DEF TypeOK, StoreOK

LEMMA RecsRead ==
    ASSUME TypeOK
    PROVE  /\ Recs \in SUBSET Records
           /\ Live(Recs, now) = Recs
           /\ Sound(disk.recs) => Sound(Recs)
BY StoreRead DEF TypeOK, StoreOK

LEMMA JournalTyped ==
    ASSUME TypeOK, NEW new \in SUBSET Records, Throws(new)
    PROVE  disk' \in Journals
BY StoreTyped DEF TypeOK, StoreOK

-----------------------------------------------------------------------------
(* Type correctness.                                                       *)

LEMMA ClaimTyped ==
    ASSUME TypeOK, NEW r \in Requests, Claim(r)
    PROVE  TypeOK'
<1>1. Recs \in SUBSET Records /\ Live(Recs, now) = Recs
  BY RecsRead
<1>2. Reserved(Recs, bind[r], now) \in SUBSET Records
  BY <1>1, ReservedRecords DEF TypeOK
<1>3. CASE ClaimGenerationRefused(r)
  BY <1>3 DEF ClaimGenerationRefused, Claiming, Refuse, Finish, Goto, TypeOK,
              Phases, Answers
<1>4. CASE ClaimConflict(r)
  <2>1. disk' \in Journals
    BY <1>1, <1>4, JournalTyped DEF ClaimConflict, Throws
  <2> QED
    BY <1>4, <2>1 DEF ClaimConflict, Claiming, Refuse, Finish, Goto, TypeOK,
                      Phases, Answers
<1>5. CASE ClaimPending(r)
  <2>1. disk' \in Journals
    BY <1>1, <1>5, JournalTyped DEF ClaimPending, Throws
  <2> QED
    BY <1>5, <2>1 DEF ClaimPending, Claiming, Goto, Silent, TypeOK, Phases
<1>6. CASE ClaimHit(r)
  <2>1. disk' \in Journals
    BY <1>1, <1>6, JournalTyped DEF ClaimHit, Throws
  <2>2. PICK rec \in Recs : Finish(r, "replayed", rec.result)
    BY <1>6 DEF ClaimHit, Recognised
  <2>3. rec.result \in Requests \cup {NoRequest}
    BY <1>1 DEF Records
  <2> QED
    BY <1>6, <2>1, <2>2, <2>3 DEF ClaimHit, Claiming, Finish, Goto, TypeOK,
                                  Phases, Answers
<1>7. CASE ClaimExpired(r)
  <2>1. disk' \in Journals
    BY <1>1, <1>7, JournalTyped DEF ClaimExpired, Throws
  <2> QED
    BY <1>7, <2>1 DEF ClaimExpired, Claiming, Refuse, Finish, Goto, TypeOK,
                      Phases, Answers
<1>8. CASE ClaimCapacity(r)
  <2>1. disk' \in Journals
    BY <1>1, <1>8, JournalTyped DEF ClaimCapacity, Throws
  <2> QED
    BY <1>8, <2>1 DEF ClaimCapacity, Claiming, Refuse, Finish, Goto, TypeOK,
                      Phases, Answers
<1>9. CASE ClaimReserves(r)
  <2>1. disk' \in Journals
    BY <1>2, <1>9, JournalTyped DEF ClaimReserves, Throws
  <2> QED
    BY <1>9, <2>1 DEF ClaimReserves, Claiming, Goto, Silent, TypeOK, Phases
<1>10. CASE ClaimThrows(r)
  <2>1. disk' \in Journals
    BY <1>1, <1>2, <1>10, JournalTyped DEF ClaimThrows
  <2> QED
    BY <1>10, <2>1 DEF ClaimThrows, Claiming, Refuse, Finish, Goto, TypeOK,
                       Phases, Answers
<1> QED
  BY <1>3, <1>4, <1>5, <1>6, <1>7, <1>8, <1>9, <1>10 DEF Claim

LEMMA PollTyped ==
    ASSUME TypeOK, NEW r \in Requests, Poll(r)
    PROVE  TypeOK'
<1>1. Recs \in SUBSET Records
  BY RecsRead
<1>2. disk' \in Journals
  BY <1>1, JournalTyped
     DEF Poll, PollHit, PollConflict, PollGivesUp, PollThrows, Throws
<1>3. CASE PollHit(r)
  <2>1. PICK rec \in Recs : Finish(r, "replayed", rec.result)
    BY <1>3 DEF PollHit, Recognised
  <2>2. rec.result \in Requests \cup {NoRequest}
    BY <1>1 DEF Records
  <2> QED
    BY <1>2, <1>3, <2>1, <2>2 DEF PollHit, Polling, Finish, Goto, TypeOK,
                                  Phases, Answers
<1>4. CASE PollConflict(r) \/ PollGivesUp(r) \/ PollThrows(r)
  BY <1>2, <1>4 DEF PollConflict, PollGivesUp, PollThrows, Polling, Refuse,
                    Finish, Goto, TypeOK, Phases, Answers
<1> QED
  BY <1>3, <1>4 DEF Poll

LEMMA ExecuteTyped ==
    ASSUME TypeOK, NEW r \in Requests, Execute(r)
    PROVE  TypeOK'
<1>1. Recs \in SUBSET Records /\ Live(Recs, now) = Recs
  BY RecsRead
<1>2. bind[r] \in Bindings /\ now \in Nat
  BY DEF TypeOK
<1>3. CASE Verify(r) \/ HandleBeforeSettlement(r) \/ Dispatch(r)
  BY <1>3 DEF Verify, HandleBeforeSettlement, Dispatch, Goto, Silent, TypeOK,
              Phases, Spends
<1>4. CASE Prepare(r) \/ PrepareFails(r)
  <2>1. disk' \in Journals
    BY <1>1, <1>2, <1>4, PreparedRecords, JournalTyped
       DEF Prepare, PrepareFails, Throws
  <2> QED
    BY <1>4, <2>1 DEF Prepare, PrepareFails, Goto, Silent, TypeOK, Phases
<1>5. CASE Mark(r) \/ MarkFails(r)
  <2>1. disk' \in Journals
    BY <1>1, <1>2, <1>5, MarkedRecords, JournalTyped
       DEF Mark, MarkFails, Throws
  <2> QED
    BY <1>5, <2>1 DEF Mark, MarkFails, Goto, Silent, Refuse, Finish, TypeOK,
                      Phases, Answers
<1>6. CASE SettlementSucceeds(r) \/ SettlementUnresolved(r)
  BY <1>6 DEF SettlementSucceeds, SettlementUnresolved, Goto, Silent, Refuse,
              Finish, TypeOK, Phases, Answers
<1>7. CASE HandleAfterSettlement(r)
  BY <1>7 DEF HandleAfterSettlement, Goto, Silent, Refuse, Finish, TypeOK,
              Phases, Answers
<1>8. CASE Deliver(r)
  <2>1. disk' \in Journals
    BY <1>1, <1>2, <1>8, RetainedRecords, JournalTyped DEF Deliver, Throws
  <2> QED
    BY <1>8, <2>1 DEF Deliver, Finish, Goto, TypeOK, Phases, Answers
<1>9. CASE Release(r) \/ EndUnreleased(r)
  <2>1. disk' \in Journals
    BY <1>1, <1>2, <1>9, ReleasedRecords, JournalTyped
       DEF Release, EndUnreleased, Throws
  <2> QED
    BY <1>9, <2>1 DEF Release, EndUnreleased, Refuse, Finish, Goto, TypeOK,
                      Phases, Answers
<1> QED
  BY <1>3, <1>4, <1>5, <1>6, <1>7, <1>8, <1>9 DEF Execute

LEMMA InitTyped == Init => TypeOK
BY DEF Init, TypeOK, Journals, Phases, Spends, Answers

LEMMA NextTyped == TypeOK /\ [Next]_vars => TypeOK'
<1> SUFFICES ASSUME TypeOK, [Next]_vars
             PROVE  TypeOK'
  OBVIOUS
<1>1. CASE Tick
  BY <1>1 DEF Tick, TypeOK
<1>2. CASE Crash
  BY <1>2 DEF Crash, TypeOK, Phases, Answers
<1>3. ASSUME NEW r \in Requests, Chain(r)
      PROVE  TypeOK'
  BY <1>3 DEF Chain, ChainExecutes, ChainRejects, TypeOK, Spends
<1>4. ASSUME NEW r \in Requests, ArriveInvalid(r)
      PROVE  TypeOK'
  BY <1>4 DEF ArriveInvalid, Refuse, Finish, Goto, TypeOK, Phases, Answers
<1>5. CASE UNCHANGED vars
  BY <1>5 DEF vars, TypeOK
<1> QED
  BY <1>1, <1>2, <1>3, <1>4, <1>5, ClaimTyped, PollTyped, ExecuteTyped
     DEF Next, Handle

\* The journal, the requests and the settlements always have their types:
\* whatever fails or is interrupted, the file is a readable set of records.
THEOREM TypeCorrect == Spec => []TypeOK
BY InitTyped, NextTyped, PTL DEF Spec

-----------------------------------------------------------------------------
(* The spending invariant.                                                 *)

\* What one request does cannot cost another its record: a step of request r
\* keeps SpendInv when the file stays sound, the records other holders rely
\* on are carried over, and r itself still satisfies each part.
LEMMA HolderStep ==
    ASSUME TypeOK, SpendInv, NEW r \in Requests,
           now' = now, bind' = bind,
           \A q \in Requests \ {r} : phase'[q] = phase[q] /\ spend'[q] = spend[q],
           Sound(disk.recs)',
           \A q \in Requests \ {r} :
               Holds(q) /\ Guarded(bind[q]) => Carries(Recs, Recs', bind[q]),
           phase'[r] \in Unspending => spend'[r] = "none",
           Spent(r)' \/ Executing(r)' => bind[r] \in Dated,
           Owning(r)' /\ Guarded(bind[r]) =>
               \E rec \in Recs' : rec.binding = bind[r],
           (Spent(r)' \/ phase'[r] = "marked") /\ Guarded(bind[r]) =>
               \E rec \in Recs' : rec.binding = bind[r] /\ Quarantining(rec),
           Holds(r)' => Holds(r) \/
               \A q \in Requests \ {r} :
                   Holds(q) /\ bind[q] \in Dated /\ bind[r] \in Dated =>
                     /\ Key[bind[q]] # Key[bind[r]]
                     /\ Guarded(bind[q]) => ~Related(bind[q], bind[r])
    PROVE  SpendInv'
<1>1. \A q \in Requests \ {r} :
        /\ Owning(q)' <=> Owning(q)
        /\ Spent(q)' <=> Spent(q)
        /\ Executing(q)' <=> Executing(q)
        /\ Holds(q)' <=> Holds(q)
  BY DEF Owning, Spent, Executing, Holds
<1>2. \A b : Guarded(b)' <=> Guarded(b)
  BY DEF Guarded
<1>3. RecordsOutliveValidity' /\ KeysUnique'
  BY DEF Sound, RecordsOutliveValidity, KeysUnique
<1>4. SpendingIsDated'
  BY <1>1 DEF SpendInv, SpendingIsDated
<1>5. OwnersHold'
  <2>1. ASSUME NEW q \in Requests \ {r}, Owning(q), Guarded(bind[q])
        PROVE  \E rec \in Recs' : rec.binding = bind[q]
    <3>1. PICK rec \in Recs : rec.binding = bind[q]
      BY <2>1 DEF SpendInv, OwnersHold
    <3> QED
      BY <2>1, <3>1 DEF Carries, Holds
  <2> QED
    BY <1>1, <1>2, <2>1 DEF OwnersHold
<1>6. MarkedIsQuarantined'
  <2>1. ASSUME NEW q \in Requests \ {r}, Spent(q) \/ phase[q] = "marked",
               Guarded(bind[q])
        PROVE  \E rec \in Recs' : rec.binding = bind[q] /\ Quarantining(rec)
    <3>1. PICK rec \in Recs : rec.binding = bind[q] /\ Quarantining(rec)
      BY <2>1 DEF SpendInv, MarkedIsQuarantined, Quarantining
    <3>2. Holds(q)
      BY <2>1 DEF Holds, Owning
    <3> QED
      BY <2>1, <3>1, <3>2 DEF Carries
  <2> QED
    BY <1>1, <1>2, <2>1 DEF MarkedIsQuarantined, Quarantining
<1>7. SoleHolder'
  <2>1. ASSUME NEW q \in Requests \ {r}, Holds(q), bind[q] \in Dated,
               Holds(r)', bind[r] \in Dated
        PROVE  /\ Key[bind[q]] # Key[bind[r]]
               /\ Guarded(bind[q]) /\ Guarded(bind[r])
                    => ~Related(bind[q], bind[r]) /\ ~Related(bind[r], bind[q])
    <3>1. Related(bind[q], bind[r]) <=> Related(bind[r], bind[q])
      BY DEF Related
    <3> QED
      BY <2>1, <3>1 DEF SpendInv, SoleHolder
  <2> QED
    BY <1>1, <1>2, <2>1 DEF SoleHolder, Related, SpendInv
<1> QED
  BY <1>3, <1>4, <1>5, <1>6, <1>7 DEF SpendInv

\* A request that holds nothing and takes nothing keeps SpendInv, whatever
\* it makes of the file as long as every record is carried over.
LEMMA BystanderStep ==
    ASSUME TypeOK, SpendInv, NEW r \in Requests,
           now' = now, bind' = bind, spend' = spend,
           phase[r] \in {"idle", "waiting"},
           \E p \in {"waiting", "done"} : phase' = [phase EXCEPT ![r] = p],
           NEW new \in SUBSET Records, Throws(new), Live(new, now) = new,
           Sound(new), \A c \in Bindings : Carries(Recs, new, c)
    PROVE  SpendInv'
<1>1. Sound(disk.recs)
  BY DEF SpendInv, RecordsOutliveValidity, KeysUnique, Sound
<1>2. Sound(disk.recs)' /\ (Recs' = Recs \/ Recs' = new)
  BY <1>1, JournalStep
<1>3. \A c \in Bindings : Carries(Recs, Recs', c)
  BY <1>2 DEF Carries
<1>4. spend[r] = "none"
  BY DEF SpendInv, SpendingIsDated, Unspending
<1>5. phase'[r] \in {"waiting", "done"}
  BY DEF TypeOK
<1>6. \A q \in Requests \ {r} : phase'[q] = phase[q] /\ spend'[q] = spend[q]
  BY DEF TypeOK
<1>7. ~Holds(r)' /\ ~Spent(r)' /\ ~Executing(r)' /\ ~Owning(r)'
  BY <1>4, <1>5 DEF Holds, Spent, Executing, Owning
<1>8. \A q \in Requests : Carries(Recs, Recs', bind[q])
  BY <1>3 DEF TypeOK
<1>9. phase'[r] # "marked" /\ spend'[r] = "none"
  BY <1>4, <1>5
<1> QED
  BY <1>2, <1>6, <1>7, <1>8, <1>9, HolderStep

LEMMA SoundNow ==
    ASSUME TypeOK, SpendInv
    PROVE  /\ Sound(disk.recs)
           /\ Recs \in SUBSET Records
           /\ Live(Recs, now) = Recs
           /\ Sound(Recs)
           /\ \A c \in Bindings : Carries(Recs, Recs, c)
<1>1. Sound(disk.recs)
  BY DEF SpendInv, RecordsOutliveValidity, KeysUnique, Sound
<1>2. \A c \in Bindings : Carries(Recs, Recs, c)
  BY DEF Carries
<1> QED
  BY <1>1, <1>2, RecsRead

LEMMA ClaimKeepsSpendInv ==
    ASSUME TypeOK, SpendInv, ReuseWithinGrace, NEW r \in Requests, Claim(r)
    PROVE  SpendInv'
<1>1. /\ Sound(disk.recs)
      /\ Recs \in SUBSET Records
      /\ Live(Recs, now) = Recs
      /\ Sound(Recs)
      /\ \A c \in Bindings : Carries(Recs, Recs, c)
  BY SoundNow
<1>2. bind[r] \in Bindings /\ now \in Nat
  BY DEF TypeOK
<1> DEFINE new == Reserved(Recs, bind[r], now)
<1>3. /\ new \in SUBSET Records
      /\ Live(new, now) = new
      /\ Found(Recs, bind[r]) = {} => Sound(new)
      /\ \A c \in Bindings : Carries(Recs, new, c)
      /\ \E rec \in new : rec.binding = bind[r]
  BY <1>1, <1>2, ReservedRecords
<1> HIDE DEF new
<1>4. ASSUME \/ ClaimGenerationRefused(r) \/ ClaimConflict(r)
             \/ ClaimPending(r) \/ ClaimHit(r)
             \/ ClaimExpired(r) \/ ClaimCapacity(r)
      PROVE  SpendInv'
  <2>1. Throws(Recs)
    BY <1>4 DEF ClaimGenerationRefused, ClaimConflict, ClaimPending, ClaimHit,
                ClaimExpired, ClaimCapacity, Throws
  <2>2. \E p \in {"waiting", "done"} : phase' = [phase EXCEPT ![r] = p]
    BY <1>4 DEF ClaimGenerationRefused, ClaimConflict, ClaimPending, ClaimHit,
                ClaimExpired, ClaimCapacity, Refuse, Finish, Goto
  <2>3. phase[r] = "idle" /\ UNCHANGED <<now, bind, spend>>
    BY <1>4 DEF ClaimGenerationRefused, ClaimConflict, ClaimPending, ClaimHit,
                ClaimExpired, ClaimCapacity, Claiming
  <2> QED
    BY <1>1, <2>1, <2>2, <2>3, BystanderStep
<1>5. CASE ClaimThrows(r)
  <2>1. \E p \in {"waiting", "done"} : phase' = [phase EXCEPT ![r] = p]
    BY <1>5 DEF ClaimThrows, Refuse, Finish, Goto
  <2>2. phase[r] = "idle" /\ UNCHANGED <<now, bind, spend>>
    BY <1>5 DEF ClaimThrows, Claiming
  <2>3. Throws(Recs) \/ (Found(Recs, bind[r]) = {} /\ Throws(new))
    <3>1. CASE Throws(Recs) \/ UNCHANGED disk
      BY <3>1 DEF Throws
    <3>2. CASE Reservable(bind[r]) /\ Commit(new)
      BY <3>2, CommitRecognises DEF Reservable, Throws
    <3> QED
      BY <1>5, <3>1, <3>2 DEF ClaimThrows, Throws, new
  <2> QED
    BY <1>1, <1>3, <2>1, <2>2, <2>3, BystanderStep
<1>6. CASE ClaimReserves(r)
  <2>1. /\ phase[r] = "idle"
        /\ phase' = [phase EXCEPT ![r] = "reserved"]
        /\ UNCHANGED <<now, bind, spend>>
        /\ Commit(new)
        /\ Found(Recs, bind[r]) = {}
        /\ ~Expired(bind[r])
    BY <1>6, CommitRecognises
       DEF ClaimReserves, Claiming, Goto, Reservable, new
  <2>2. Sound(disk.recs)' /\ Recs' = new
    <3>1. disk'.recs = new
      BY <2>1 DEF Commit
    <3> QED
      BY <1>1, <1>3, <2>1, <3>1 DEF Recs, Sound
  <2>3. phase'[r] = "reserved" /\ spend'[r] = "none"
    BY <2>1 DEF TypeOK, SpendInv, SpendingIsDated, Unspending
  <2>4. \A q \in Requests \ {r} : phase'[q] = phase[q] /\ spend'[q] = spend[q]
    BY <2>1 DEF TypeOK
  <2>5. \A q \in Requests \ {r} :
          Holds(q) /\ Guarded(bind[q]) => Carries(Recs, Recs', bind[q])
    BY <1>3, <2>2 DEF TypeOK
  <2>6. ASSUME NEW q \in Requests \ {r}, Holds(q), bind[q] \in Dated,
               bind[r] \in Dated
        PROVE  /\ Key[bind[q]] # Key[bind[r]]
               /\ Guarded(bind[q]) => ~Related(bind[q], bind[r])
    <3>1. Guarded(bind[q]) => \E rec \in Recs : rec.binding = bind[q]
      BY <2>6 DEF SpendInv, OwnersHold, MarkedIsQuarantined, Holds
    <3>2. \A rec \in Recs : ~Matches(bind[r], rec)
      BY <2>1 DEF Found
    <3>3. Guarded(bind[q]) =>
            Key[bind[q]] # Key[bind[r]] /\ ~Related(bind[q], bind[r])
      BY <3>1, <3>2 DEF Matches, Related
    <3>4. Key[bind[q]] = Key[bind[r]] => Guarded(bind[q])
      BY <2>1, <2>6, JournalAssumption
         DEF ReuseWithinGrace, Guarded, Expired, TypeOK
    <3> QED
      BY <3>3, <3>4
  <2>7. ~Spent(r)' /\ ~Executing(r)' /\ phase'[r] # "marked"
    BY <2>3 DEF Spent, Executing
  <2> QED
    BY <1>3, <2>1, <2>2, <2>3, <2>4, <2>5, <2>6, <2>7, HolderStep
<1> QED
  BY <1>4, <1>5, <1>6 DEF Claim

LEMMA PollKeepsSpendInv ==
    ASSUME TypeOK, SpendInv, NEW r \in Requests, Poll(r)
    PROVE  SpendInv'
<1>1. phase[r] = "waiting" /\ UNCHANGED <<now, bind, spend>>
  BY DEF Poll, PollHit, PollConflict, PollGivesUp, PollThrows, Polling
<1>2. \E p \in {"waiting", "done"} : phase' = [phase EXCEPT ![r] = p]
  BY DEF Poll, PollHit, PollConflict, PollGivesUp, PollThrows, Refuse, Finish,
         Goto
<1>3. Throws(Recs)
  BY DEF Poll, PollHit, PollConflict, PollGivesUp, PollThrows, Throws
<1> QED
  BY <1>1, <1>2, <1>3, SoundNow, BystanderStep

\* A step of a holder that leaves the file alone.
LEMMA QuietStep ==
    ASSUME TypeOK, SpendInv, NEW r \in Requests, UNCHANGED <<disk, now, bind>>,
           \A q \in Requests \ {r} : phase'[q] = phase[q] /\ spend'[q] = spend[q],
           Holds(r),
           phase'[r] \in Unspending => spend'[r] = "none",
           Spent(r)' \/ Executing(r)' => bind[r] \in Dated,
           Owning(r)' => Owning(r),
           Spent(r)' \/ phase'[r] = "marked" => Spent(r) \/ phase[r] = "marked"
    PROVE  SpendInv'
<1>1. Recs' = Recs /\ Sound(disk.recs)'
  BY SoundNow DEF Recs, Sound
<1>2. \A q \in Requests : Carries(Recs, Recs', bind[q])
  BY <1>1, SoundNow DEF TypeOK
<1>3. Owning(r)' /\ Guarded(bind[r]) =>
        \E rec \in Recs' : rec.binding = bind[r]
  BY <1>1 DEF SpendInv, OwnersHold
<1>4. (Spent(r)' \/ phase'[r] = "marked") /\ Guarded(bind[r]) =>
        \E rec \in Recs' : rec.binding = bind[r] /\ Quarantining(rec)
  BY <1>1 DEF SpendInv, MarkedIsQuarantined, Quarantining
<1> QED
  BY <1>1, <1>2, <1>3, <1>4, HolderStep

\* A step of a holder that rewrites the file without dropping a record.
LEMMA WritingStep ==
    ASSUME TypeOK, SpendInv, NEW r \in Requests, UNCHANGED <<now, bind, spend>>,
           \A q \in Requests \ {r} : phase'[q] = phase[q],
           phase[r] \in {"handled", "prepared", "verified"},
           phase'[r] \in {"prepared", "marked", "refused", "done"},
           NEW new \in SUBSET Records, Throws(new), Live(new, now) = new,
           Sound(new), \A c \in Bindings : Carries(Recs, new, c),
           phase'[r] = "marked" =>
               \E rec \in Recs' : rec.binding = bind[r] /\ Quarantining(rec)
    PROVE  SpendInv'
<1>1. Sound(disk.recs)' /\ (Recs' = Recs \/ Recs' = new)
  BY SoundNow, JournalStep
<1>2. \A q \in Requests : Carries(Recs, Recs', bind[q])
  BY <1>1, SoundNow DEF TypeOK
<1>3. spend[r] = "none" /\ bind[r] \in Dated
  BY DEF SpendInv, SpendingIsDated, Unspending, Executing
<1>4. Holds(r) /\ Owning(r)
  BY DEF Holds, Owning
<1>5. Owning(r)' /\ Guarded(bind[r]) =>
        \E rec \in Recs' : rec.binding = bind[r]
  BY <1>2, <1>4 DEF SpendInv, OwnersHold, Carries
<1>6. ~Spent(r)'
  BY <1>3 DEF Spent
<1> QED
  BY <1>1, <1>2, <1>3, <1>4, <1>5, <1>6, HolderStep

LEMMA ExecuteKeepsSpendInv ==
    ASSUME TypeOK, SpendInv, NEW r \in Requests, Execute(r)
    PROVE  SpendInv'
<1>1. /\ Recs \in SUBSET Records
      /\ Live(Recs, now) = Recs
      /\ Sound(Recs)
      /\ Sound(disk.recs)
  BY SoundNow
<1>2. bind[r] \in Bindings /\ now \in Nat
  BY DEF TypeOK
<1>3. \A p : phase' = [phase EXCEPT ![r] = p] =>
        /\ phase'[r] = p
        /\ \A q \in Requests \ {r} : phase'[q] = phase[q]
  BY DEF TypeOK
<1>4. phase[r] \in Unspending => spend[r] = "none"
  BY DEF SpendInv, SpendingIsDated
<1>5. Spent(r) \/ Executing(r) => bind[r] \in Dated
  BY DEF SpendInv, SpendingIsDated
<1>6. CASE Verify(r)
  <2>1. /\ phase[r] = "reserved"
        /\ \/ phase'[r] = "verified" /\ bind[r] \in Dated
           \/ phase'[r] = "refused"
        /\ \A q \in Requests \ {r} : phase'[q] = phase[q]
        /\ UNCHANGED <<disk, now, bind, spend>>
    BY <1>3, <1>6 DEF Verify, Goto
  <2>2. spend[r] = "none"
    BY <1>4, <2>1 DEF Unspending
  <2> QED
    BY <2>1, <2>2, QuietStep DEF Holds, Owning, Spent, Executing
<1>7. CASE HandleBeforeSettlement(r)
  <2>1. /\ phase[r] = "verified"
        /\ phase'[r] \in {"handled", "refused"}
        /\ \A q \in Requests \ {r} : phase'[q] = phase[q]
        /\ UNCHANGED <<disk, now, bind, spend>>
    BY <1>3, <1>7 DEF HandleBeforeSettlement, Goto
  <2>2. spend[r] = "none" /\ bind[r] \in Dated
    BY <1>4, <1>5, <2>1 DEF Unspending, Executing
  <2> QED
    BY <2>1, <2>2, QuietStep DEF Holds, Owning, Spent, Executing
<1>8. CASE Prepare(r) \/ PrepareFails(r)
  <2>1. /\ phase[r] = "handled"
        /\ phase'[r] \in {"prepared", "refused"}
        /\ \A q \in Requests \ {r} : phase'[q] = phase[q]
        /\ UNCHANGED <<now, bind, spend>>
        /\ Throws(Prepared(Recs, bind[r], r))
    BY <1>3, <1>8 DEF Prepare, PrepareFails, Goto, Throws
  <2> QED
    BY <1>1, <1>2, <2>1, PreparedRecords, WritingStep
<1>9. CASE Mark(r)
  <2>1. /\ phase[r] \in {"prepared", "verified"}
        /\ phase'[r] = "marked"
        /\ \A q \in Requests \ {r} : phase'[q] = phase[q]
        /\ UNCHANGED <<now, bind, spend>>
        /\ Commit(MarkedSpend(Recs, bind[r]))
        /\ PendingOf(Recs, bind[r]) # {}
    BY <1>3, <1>9 DEF Mark, ReadyToMark, Goto
  <2>2. Recs' = MarkedSpend(Recs, bind[r])
    <3>1. disk'.recs = MarkedSpend(Recs, bind[r])
      BY <2>1 DEF Commit
    <3> QED
      BY <1>1, <1>2, <2>1, <3>1, MarkedRecords DEF Recs
  <2>3. Throws(MarkedSpend(Recs, bind[r]))
    BY <2>1 DEF Throws
  <2> QED
    BY <1>1, <1>2, <2>1, <2>2, <2>3, MarkedRecords, WritingStep
<1>10. CASE MarkFails(r)
  <2>1. /\ phase[r] \in {"prepared", "verified"}
        /\ phase'[r] = "done"
        /\ \A q \in Requests \ {r} : phase'[q] = phase[q]
        /\ UNCHANGED <<now, bind, spend>>
        /\ Throws(MarkedSpend(Recs, bind[r]))
    BY <1>3, <1>10 DEF MarkFails, ReadyToMark, Refuse, Finish, Goto
  <2> QED
    BY <1>1, <1>2, <2>1, MarkedRecords, WritingStep
<1>11. CASE Dispatch(r)
  <2>1. /\ phase[r] = "marked"
        /\ phase'[r] = "settling"
        /\ \A q \in Requests \ {r} : phase'[q] = phase[q] /\ spend'[q] = spend[q]
        /\ UNCHANGED <<disk, now, bind>>
    BY <1>3, <1>11 DEF Dispatch, Goto, TypeOK
  <2> QED
    BY <1>5, <2>1, QuietStep DEF Holds, Owning, Spent, Executing, Unspending
<1>12. CASE SettlementSucceeds(r) \/ SettlementUnresolved(r)
            \/ HandleAfterSettlement(r)
  <2>1. /\ phase[r] \in {"settling", "charged"}
        /\ phase'[r] \in {"delivering", "charged", "done"}
        /\ \A q \in Requests \ {r} : phase'[q] = phase[q] /\ spend'[q] = spend[q]
        /\ UNCHANGED <<disk, now, bind, spend>>
    BY <1>3, <1>12 DEF SettlementSucceeds, SettlementUnresolved,
                       HandleAfterSettlement, Refuse, Finish, Goto
  <2> QED
    BY <1>5, <2>1, QuietStep DEF Holds, Owning, Spent, Executing, Unspending
<1>13. CASE Deliver(r)
  <2> DEFINE new == Retained(Recs, bind[r], now, r)
  <2>1. /\ phase[r] = "delivering"
        /\ phase'[r] = "done"
        /\ \A q \in Requests \ {r} : phase'[q] = phase[q]
        /\ UNCHANGED <<now, bind, spend>>
        /\ Throws(new)
    BY <1>3, <1>13 DEF Deliver, Finish, Goto, Throws
  <2>2. /\ new \in SUBSET Records
        /\ Live(new, now) = new
        /\ Sound(new)
        /\ \A c \in Bindings : Key[c] # Key[bind[r]] => Carries(Recs, new, c)
        /\ \E rec \in new : rec.binding = bind[r] /\ Quarantining(rec)
    BY <1>1, <1>2, RetainedRecords
  <2> HIDE DEF new
  <2>3. Sound(disk.recs)' /\ (Recs' = Recs \/ Recs' = new)
    BY <1>1, <2>1, <2>2, JournalStep
  <2>4. bind[r] \in Dated /\ Holds(r)
    BY <1>5, <2>1 DEF Executing, Holds, Owning
  <2>5. ASSUME NEW q \in Requests \ {r}, Holds(q), Guarded(bind[q])
        PROVE  Carries(Recs, Recs', bind[q])
    <3>1. Key[bind[q]] # Key[bind[r]]
      BY <2>4, <2>5 DEF SpendInv, SoleHolder, Guarded
    <3> QED
      BY <2>2, <2>3, <3>1, SoundNow DEF TypeOK
  <2>6. (Spent(r)' \/ phase'[r] = "marked") /\ Guarded(bind[r]) =>
          \E rec \in Recs' : rec.binding = bind[r] /\ Quarantining(rec)
    BY <2>1, <2>2, <2>3
       DEF SpendInv, MarkedIsQuarantined, Spent, Quarantining
  <2> QED
    BY <2>1, <2>3, <2>4, <2>5, <2>6, HolderStep
       DEF Owning, Executing, Unspending
<1>14. CASE Release(r) \/ EndUnreleased(r)
  <2> DEFINE new == Released(Recs, bind[r])
  <2>1. /\ phase[r] = "refused"
        /\ phase'[r] = "done"
        /\ \A q \in Requests \ {r} : phase'[q] = phase[q]
        /\ UNCHANGED <<now, bind, spend>>
        /\ Throws(new)
    BY <1>3, <1>14 DEF Release, EndUnreleased, Refuse, Finish, Goto, Throws
  <2>2. /\ new \in SUBSET Records
        /\ Live(new, now) = new
        /\ Sound(new)
        /\ \A c \in Bindings \ {bind[r]} : Carries(Recs, new, c)
    BY <1>1, <1>2, ReleasedRecords
  <2> HIDE DEF new
  <2>3. Sound(disk.recs)' /\ (Recs' = Recs \/ Recs' = new)
    BY <1>1, <2>1, <2>2, JournalStep
  <2>4. spend[r] = "none" /\ Holds(r)
    BY <1>4, <2>1 DEF Unspending, Holds, Owning
  <2>5. ASSUME NEW q \in Requests \ {r}, Holds(q), Guarded(bind[q])
        PROVE  Carries(Recs, Recs', bind[q])
    <3>1. bind[q] # bind[r]
      BY <2>4, <2>5 DEF SpendInv, SoleHolder, Guarded
    <3> QED
      BY <2>2, <2>3, <3>1, SoundNow DEF TypeOK
  <2>6. ~Spent(r)' /\ ~Executing(r)' /\ ~Owning(r)' /\ phase'[r] # "marked"
    BY <2>1, <2>4 DEF Spent, Executing, Owning
  <2> QED
    BY <2>1, <2>3, <2>4, <2>5, <2>6, HolderStep DEF Unspending
<1> QED
  BY <1>6, <1>7, <1>8, <1>9, <1>10, <1>11, <1>12, <1>13, <1>14 DEF Execute

-----------------------------------------------------------------------------
(* The invariant and what it implies.                                      *)

LEMMA InitSpendInv == Init => SpendInv
BY DEF Init, SpendInv, RecordsOutliveValidity, KeysUnique, SpendingIsDated,
       OwnersHold, MarkedIsQuarantined, SoleHolder, Owning, Spent, Executing,
       Holds

LEMMA NextSpendInv ==
    ASSUME TypeOK, SpendInv, ReuseWithinGrace, [Next]_vars
    PROVE  SpendInv'
<1>1. CASE Tick
  <2>1. now' = now + 1 /\ now \in Nat
    BY <1>1 DEF Tick, TypeOK
  <2>2. /\ disk' = disk /\ phase' = phase /\ bind' = bind /\ spend' = spend
    BY <1>1 DEF Tick
  <2>3. \A c \in Bindings : Guarded(c)' => Guarded(c)
    BY <2>1, JournalAssumption DEF Guarded
  <2>4. \A rec \in Recs : Guarded(rec.binding)' => rec \in Recs'
    BY <2>1, <2>2, JournalAssumption
       DEF SpendInv, RecordsOutliveValidity, Recs, Live, Guarded, TypeOK,
           Journals, Records
  <2>5. OwnersHold'
    BY <2>2, <2>3, <2>4 DEF SpendInv, OwnersHold, Owning, TypeOK
  <2>6. MarkedIsQuarantined'
    BY <2>2, <2>3, <2>4 DEF SpendInv, MarkedIsQuarantined, Spent, TypeOK
  <2>7. SoleHolder'
    BY <2>2, <2>3
       DEF SpendInv, SoleHolder, Holds, Owning, Spent, Related, TypeOK
  <2>8. RecordsOutliveValidity' /\ KeysUnique' /\ SpendingIsDated'
    BY <2>2 DEF SpendInv, RecordsOutliveValidity, KeysUnique, SpendingIsDated,
                Spent, Executing
  <2> QED
    BY <2>5, <2>6, <2>7, <2>8 DEF SpendInv
<1>2. CASE Crash
  <2>1. /\ UNCHANGED <<disk, now, bind, spend>>
        /\ \A r \in Requests : phase'[r] = phase[r] \/ phase'[r] = "done"
    BY <1>2 DEF Crash
  <2>2. Recs' = Recs /\ (\A c : Guarded(c)' <=> Guarded(c))
    BY <2>1 DEF Recs, Guarded
  <2>3. \A r \in Requests :
          /\ Owning(r)' => Owning(r)
          /\ Spent(r)' <=> Spent(r)
          /\ Executing(r)' => Executing(r)
          /\ phase'[r] = "marked" => phase[r] = "marked"
          /\ phase'[r] \in Unspending => phase[r] \in Unspending
    BY <2>1 DEF Owning, Spent, Executing, Unspending
  <2> QED
    BY <2>1, <2>2, <2>3
       DEF SpendInv, RecordsOutliveValidity, KeysUnique, SpendingIsDated,
           OwnersHold, MarkedIsQuarantined, SoleHolder, Holds, Related
<1>3. ASSUME NEW r \in Requests, Chain(r)
      PROVE  SpendInv'
  <2>1. /\ UNCHANGED <<disk, now, bind, phase>>
        /\ spend[r] = "dispatched"
        /\ spend' = [spend EXCEPT ![r] = "executed"]
             \/ spend' = [spend EXCEPT ![r] = "rejected"]
    BY <1>3 DEF Chain, ChainExecutes, ChainRejects
  <2>2. \A q \in Requests : spend'[q] = "none" <=> spend[q] = "none"
    BY <2>1 DEF TypeOK
  <2>3. Recs' = Recs /\ (\A c : Guarded(c)' <=> Guarded(c))
    BY <2>1 DEF Recs, Guarded
  <2> QED
    BY <2>1, <2>2, <2>3
       DEF SpendInv, RecordsOutliveValidity, KeysUnique, SpendingIsDated,
           OwnersHold, MarkedIsQuarantined, SoleHolder, Holds, Related,
           Owning, Spent, Executing
<1>4. ASSUME NEW r \in Requests, ArriveInvalid(r)
      PROVE  SpendInv'
  <2>1. \E p \in {"waiting", "done"} : phase' = [phase EXCEPT ![r] = p]
    BY <1>4 DEF ArriveInvalid, Refuse, Finish, Goto
  <2>2. /\ phase[r] \in {"idle", "waiting"}
        /\ UNCHANGED <<now, bind, spend>>
        /\ Throws(Recs)
    BY <1>4 DEF ArriveInvalid, Throws
  <2> QED
    BY <2>1, <2>2, SoundNow, BystanderStep
<1>5. CASE UNCHANGED vars
  BY <1>5 DEF vars, SpendInv, RecordsOutliveValidity, KeysUnique,
              SpendingIsDated, OwnersHold, MarkedIsQuarantined, SoleHolder,
              Holds, Related, Owning, Spent, Executing, Recs, Guarded
<1> QED
  BY <1>1, <1>2, <1>3, <1>4, <1>5, ClaimKeepsSpendInv, PollKeepsSpendInv,
     ExecuteKeepsSpendInv DEF Next, Handle

\* The invariant gives the properties.
LEMMA SpendInvImplies ==
    ASSUME TypeOK, SpendInv
    PROVE  SettledOnce /\ NoRivalSpend /\ SpendIsQuarantined
<1>1. \A r \in Requests : Spent(r) => bind[r] \in Dated /\ Holds(r)
  BY DEF SpendInv, SpendingIsDated, Holds
<1>2. SettledOnce
  BY <1>1 DEF SettledOnce, SpendInv, SoleHolder
<1>3. \A b \in Dated : ~Expired(b) => Guarded(b)
  BY JournalAssumption DEF Expired, Guarded, TypeOK
<1>4. NoRivalSpend
  BY <1>1, <1>3 DEF NoRivalSpend, LiveSpend, Spent, SpendInv, SoleHolder
<1>5. SpendIsQuarantined
  BY <1>1, <1>3 DEF SpendIsQuarantined, SpendInv, MarkedIsQuarantined
<1> QED
  BY <1>2, <1>4, <1>5

\* The inductive invariant holds as long as clients reuse a payment
\* identifier only for credentials whose validities end within Grace.
THEOREM SpendInvHolds == ReuseWithinGrace /\ Spec => []SpendInv
<1>1. ReuseWithinGrace /\ Init => TypeOK /\ SpendInv
  BY InitTyped, InitSpendInv
<1>2. ReuseWithinGrace /\ TypeOK /\ SpendInv /\ [Next]_vars
        => TypeOK' /\ SpendInv'
  BY NextTyped, NextSpendInv
<1>3. ReuseWithinGrace => ReuseWithinGrace'
  OBVIOUS
<1> QED
  BY <1>1, <1>2, <1>3, PTL DEF Spec

\* No signed credential reaches the facilitator twice: not through retries,
\* concurrent requests, crashes, a rotated secret or failing journal writes.
THEOREM SettledOnceHolds == ReuseWithinGrace /\ Spec => []SettledOnce
<1>1. TypeOK /\ SpendInv => SettledOnce
  BY SpendInvImplies
<1> QED
  BY <1>1, TypeCorrect, SpendInvHolds, PTL

\* Two credentials that share an identifier or a nonce never both have a
\* settlement that can still move money.
THEOREM NoRivalSpendHolds == ReuseWithinGrace /\ Spec => []NoRivalSpend
<1>1. TypeOK /\ SpendInv => NoRivalSpend
  BY SpendInvImplies
<1> QED
  BY <1>1, TypeCorrect, SpendInvHolds, PTL

\* While a dispatched authorization is valid, the journal refuses it to
\* every other claim, through any crash and any failing write.
THEOREM SpendIsQuarantinedHolds ==
    ReuseWithinGrace /\ Spec => []SpendIsQuarantined
<1>1. TypeOK /\ SpendInv => SpendIsQuarantined
  BY SpendInvImplies
<1> QED
  BY <1>1, TypeCorrect, SpendInvHolds, PTL

-----------------------------------------------------------------------------
(* The invariant about results and reservations.  It needs no assumption   *)
(* on how clients reuse payment identifiers.                               *)

PaidFor(q, b) == q \in Requests /\ bind[q] = b /\ spend[q] = "executed"

\* A request that owns an unmarked reservation, or may have left one.
Accountable(r) ==
    \/ phase[r] \in {"reserved", "verified", "handled", "prepared", "refused"}
    \/ answer[r] \in {"error", "unresolved", "lost"}

AnsweredIsDone ==
    \A r \in Requests : answer[r] # "none" => phase[r] = "done"

UnspentUntilDispatch ==
    \A r \in Requests : phase[r] \in Unspending => spend[r] = "none"

ChargedWasExecuted ==
    \A r \in Requests :
        phase[r] \in {"charged", "delivering"} => spend[r] = "executed"

CompletedWasPaid ==
    \A rec \in Completed(disk.recs) : PaidFor(rec.result, rec.binding)

AnswersWerePaid ==
    \A r \in Requests :
        /\ answer[r] = "replayed" => PaidFor(served[r], bind[r])
        /\ answer[r] = "paid" => spend[r] = "executed"

UnmarkedIsAccounted ==
    \A b \in Unmarked(disk.recs) :
        \E r \in Requests : bind[r] = b /\ Accountable(r)

ResultInv ==
    /\ AnsweredIsDone
    /\ UnspentUntilDispatch
    /\ ChargedWasExecuted
    /\ CompletedWasPaid
    /\ AnswersWerePaid
    /\ UnmarkedIsAccounted

\* An x402 request whose settlement may be dispatched has its bytes in every
\* live record of its binding.
Backed(r) == phase[r] \in {"prepared", "marked"} \/ Spent(r)

HoldsBytesOf(rec, r) ==
    IF rec.pending THEN rec.prepared = r ELSE rec.result = r

BytesAreKept ==
    \A r \in Requests :
        Backed(r) /\ bind[r] \in X402 =>
            \A rec \in Recs : rec.binding = bind[r] => HoldsBytesOf(rec, r)

-----------------------------------------------------------------------------
\* What the bookkeeping of one request leaves alone.
LEMMA Finishes ==
    ASSUME TypeOK, NEW r \in Requests, NEW ans, NEW res, Finish(r, ans, res)
    PROVE  /\ phase'[r] = "done" /\ answer'[r] = ans /\ served'[r] = res
           /\ \A q \in Requests \ {r} : /\ phase'[q] = phase[q]
                                        /\ answer'[q] = answer[q]
                                        /\ served'[q] = served[q]
BY DEF Finish, Goto, TypeOK

LEMMA Moves ==
    ASSUME TypeOK, NEW r \in Requests, NEW p, Goto(r, p), Silent
    PROVE  /\ phase'[r] = p /\ answer'[r] = answer[r] /\ served'[r] = served[r]
           /\ \A q \in Requests \ {r} : /\ phase'[q] = phase[q]
                                        /\ answer'[q] = answer[q]
                                        /\ served'[q] = served[q]
BY DEF Goto, Silent, TypeOK

-----------------------------------------------------------------------------
(* ResultInv is inductive.                                                 *)

\* What a step of one request owes the invariant.
LEMMA RequestStep ==
    ASSUME TypeOK, ResultInv, NEW r \in Requests, bind' = bind,
           \A q \in Requests \ {r} :
               /\ phase'[q] = phase[q] /\ spend'[q] = spend[q]
               /\ answer'[q] = answer[q] /\ served'[q] = served[q],
           answer'[r] # "none" => phase'[r] = "done",
           phase'[r] \in Unspending => spend'[r] = "none",
           phase'[r] \in {"charged", "delivering"} => spend'[r] = "executed",
           spend[r] = "executed" => spend'[r] = "executed",
           \A rec \in Completed(disk'.recs) :
               \/ rec \in Completed(disk.recs)
               \/ rec.result = r /\ rec.binding = bind[r]
                  /\ spend[r] = "executed",
           answer'[r] = "replayed" =>
               \E rec \in Completed(disk.recs) :
                   rec.binding = bind[r] /\ served'[r] = rec.result,
           answer'[r] = "paid" => spend[r] = "executed",
           Unmarked(disk'.recs) \subseteq Unmarked(disk.recs) \cup {bind[r]},
           bind[r] \in Unmarked(disk'.recs) =>
               \/ Accountable(r)'
               \/ ~Accountable(r) /\ bind[r] \in Unmarked(disk.recs)
    PROVE  ResultInv'
<1>1. \A q \in Requests : \A b : PaidFor(q, b) => PaidFor(q, b)'
  BY DEF PaidFor
<1>2. AnsweredIsDone'
  BY DEF ResultInv, AnsweredIsDone
<1>3. UnspentUntilDispatch'
  BY DEF ResultInv, UnspentUntilDispatch
<1>4. ChargedWasExecuted'
  BY DEF ResultInv, ChargedWasExecuted
<1>5. CompletedWasPaid'
  <2>1. ASSUME NEW rec \in Completed(disk'.recs)
        PROVE  PaidFor(rec.result, rec.binding)'
    <3>1. CASE rec \in Completed(disk.recs)
      BY <1>1, <3>1 DEF ResultInv, CompletedWasPaid, PaidFor
    <3>2. CASE rec.result = r /\ rec.binding = bind[r] /\ spend[r] = "executed"
      BY <3>2 DEF PaidFor
    <3> QED
      BY <3>1, <3>2
  <2> QED
    BY <2>1 DEF CompletedWasPaid, Completed
<1>6. AnswersWerePaid'
  <2>1. answer'[r] = "replayed" => PaidFor(served[r], bind[r])'
    BY <1>1 DEF ResultInv, CompletedWasPaid, PaidFor
  <2>2. ASSUME NEW q \in Requests \ {r}, answer[q] = "replayed"
        PROVE  PaidFor(served[q], bind[q])'
    BY <1>1, <2>2 DEF ResultInv, AnswersWerePaid, PaidFor
  <2>3. \A q \in Requests : answer'[q] = "paid" => spend'[q] = "executed"
    BY DEF ResultInv, AnswersWerePaid
  <2> QED
    BY <2>1, <2>2, <2>3 DEF AnswersWerePaid
<1>7. UnmarkedIsAccounted'
  <2>1. \A q \in Requests \ {r} : Accountable(q)' <=> Accountable(q)
    BY DEF Accountable
  <2>2. ASSUME NEW b \in Unmarked(disk'.recs)
        PROVE  \E q \in Requests : bind[q] = b /\ Accountable(q)'
    <3>1. CASE b # bind[r] \/ (~Accountable(r) /\ b \in Unmarked(disk.recs))
      <4>1. PICK q \in Requests : bind[q] = b /\ Accountable(q)
        BY <2>2, <3>1 DEF ResultInv, UnmarkedIsAccounted
      <4> QED
        BY <2>1, <3>1, <4>1
    <3>2. CASE b = bind[r] /\ Accountable(r)'
      BY <3>2
    <3> QED
      BY <2>2, <3>1, <3>2
  <2> QED
    BY <2>2 DEF UnmarkedIsAccounted, Unmarked
<1> QED
  BY <1>2, <1>3, <1>4, <1>5, <1>6, <1>7 DEF ResultInv

\* A request that owns nothing is answered, or goes on waiting.
LEMMA OutsiderStep ==
    ASSUME TypeOK, ResultInv, NEW r \in Requests,
           UNCHANGED <<bind, spend>>, phase[r] \in {"idle", "waiting"},
           Throws(Recs) \/ UNCHANGED disk,
           \/ Goto(r, "waiting") /\ Silent
           \/ \E a \in {"invalid", "generation", "error", "conflict",
                        "expired", "capacity", "in_flight"} : Refuse(r, a)
           \/ \E rec \in Recs : /\ rec.binding = bind[r]
                                /\ ~rec.pending
                                /\ Finish(r, "replayed", rec.result)
    PROVE  ResultInv'
<1>1. /\ Completed(disk'.recs) \subseteq Completed(disk.recs)
      /\ Unmarked(disk'.recs) \subseteq Unmarked(disk.recs)
  BY FileAfter
<1>2. answer[r] = "none" /\ spend[r] = "none"
  BY DEF ResultInv, AnsweredIsDone, UnspentUntilDispatch, Unspending
<1>3. ~Accountable(r)
  BY <1>2 DEF Accountable
<1>4. CASE Goto(r, "waiting") /\ Silent
  BY <1>1, <1>2, <1>3, <1>4, Moves, RequestStep
<1>5. ASSUME NEW a \in {"invalid", "generation", "error", "conflict",
                        "expired", "capacity", "in_flight"}, Refuse(r, a)
      PROVE  ResultInv'
  <2>1. Finish(r, a, NoRequest)
    BY <1>5 DEF Refuse
  <2> QED
    BY <1>1, <1>2, <1>3, <2>1, Finishes, RequestStep
<1>6. ASSUME NEW rec \in Recs, rec.binding = bind[r], ~rec.pending,
             Finish(r, "replayed", rec.result)
      PROVE  ResultInv'
  <2>1. rec \in Completed(disk.recs)
    BY <1>6 DEF Recs, Live, Completed
  <2> QED
    BY <1>1, <1>2, <1>3, <1>6, <2>1, Finishes, RequestStep
<1> QED
  BY <1>4, <1>5, <1>6

LEMMA ClaimKeepsResultInv ==
    ASSUME TypeOK, ResultInv, NEW r \in Requests, Claim(r)
    PROVE  ResultInv'
<1>1. phase[r] = "idle" /\ UNCHANGED <<bind, spend>>
  BY DEF Claim, ClaimGenerationRefused, ClaimConflict, ClaimPending, ClaimHit,
         ClaimExpired, ClaimCapacity, ClaimReserves, ClaimThrows, Claiming
<1>2. answer[r] = "none" /\ spend[r] = "none"
  BY <1>1 DEF ResultInv, AnsweredIsDone, UnspentUntilDispatch, Unspending
<1> DEFINE new == Reserved(Recs, bind[r], now)
<1>3. Completed(new) \subseteq Completed(Recs)
      /\ Unmarked(new) \subseteq Unmarked(Recs) \cup {bind[r]}
  BY ReservedContents
<1> HIDE DEF new
<1>4. CASE ClaimGenerationRefused(r) \/ ClaimConflict(r) \/ ClaimPending(r)
            \/ ClaimExpired(r) \/ ClaimCapacity(r)
  BY <1>1, <1>4, OutsiderStep
     DEF ClaimGenerationRefused, ClaimConflict, ClaimPending, ClaimExpired,
         ClaimCapacity, Throws
<1>5. CASE ClaimHit(r)
  BY <1>1, <1>5, OutsiderStep DEF ClaimHit, Recognised, Throws
<1>6. CASE ClaimReserves(r)
  <2>1. Throws(new) /\ Goto(r, "reserved") /\ Silent
    BY <1>6 DEF ClaimReserves, Throws, new
  <2>2. /\ Completed(disk'.recs) \subseteq Completed(disk.recs)
        /\ Unmarked(disk'.recs) \subseteq Unmarked(disk.recs) \cup {bind[r]}
    BY <1>3, <2>1, FileAfter
  <2>3. phase'[r] = "reserved" /\ answer'[r] = "none" /\ Accountable(r)'
    BY <1>2, <2>1, Moves DEF Accountable
  <2> QED
    BY <1>1, <1>2, <2>1, <2>2, <2>3, Moves, RequestStep
<1>7. CASE ClaimThrows(r)
  <2>1. (Throws(new) \/ Throws(Recs)) /\ Finish(r, "error", NoRequest)
    BY <1>7 DEF ClaimThrows, Refuse, new
  <2>2. /\ Completed(disk'.recs) \subseteq Completed(disk.recs)
        /\ Unmarked(disk'.recs) \subseteq Unmarked(disk.recs) \cup {bind[r]}
    BY <1>3, <2>1, FileAfter
  <2>3. phase'[r] = "done" /\ answer'[r] = "error" /\ Accountable(r)'
    BY <2>1, Finishes DEF Accountable
  <2> QED
    BY <1>1, <1>2, <2>1, <2>2, <2>3, Finishes, RequestStep
<1> QED
  BY <1>4, <1>5, <1>6, <1>7 DEF Claim

LEMMA PollKeepsResultInv ==
    ASSUME TypeOK, ResultInv, NEW r \in Requests, Poll(r)
    PROVE  ResultInv'
<1>1. phase[r] = "waiting" /\ UNCHANGED <<bind, spend>>
  BY DEF Poll, PollHit, PollConflict, PollGivesUp, PollThrows, Polling
<1>2. CASE PollConflict(r) \/ PollGivesUp(r) \/ PollThrows(r)
  BY <1>1, <1>2, OutsiderStep DEF PollConflict, PollGivesUp, PollThrows, Throws
<1>3. CASE PollHit(r)
  BY <1>1, <1>3, OutsiderStep DEF PollHit, Recognised, Throws
<1> QED
  BY <1>2, <1>3 DEF Poll

\* An owner moves on without an answer, and leaves no reservation it does
\* not own.
LEMMA OwnerMoves ==
    ASSUME TypeOK, ResultInv, NEW r \in Requests, bind' = bind,
           \A q \in Requests \ {r} : spend'[q] = spend[q],
           phase[r] \notin {"idle", "done"},
           NEW p \in Phases, Goto(r, p), Silent,
           p \in Unspending => spend'[r] = "none",
           p \in {"charged", "delivering"} => spend'[r] = "executed",
           spend[r] = "executed" => spend'[r] = "executed",
           Completed(disk'.recs) \subseteq Completed(disk.recs),
           Unmarked(disk'.recs) \subseteq Unmarked(disk.recs),
           Accountable(r) => \/ p \in {"verified", "handled", "prepared", "refused"}
                             \/ bind[r] \notin Unmarked(disk'.recs)
    PROVE  ResultInv'
<1>1. answer[r] = "none"
  BY DEF ResultInv, AnsweredIsDone
<1>2. phase'[r] = p /\ answer'[r] = "none"
  BY <1>1, Moves
<1>3. p \in {"verified", "handled", "prepared", "refused"} => Accountable(r)'
  BY <1>2 DEF Accountable
<1> QED
  BY <1>1, <1>2, <1>3, Moves, RequestStep

\* An owner is answered with a failure or its own result.
LEMMA OwnerAnswers ==
    ASSUME TypeOK, ResultInv, NEW r \in Requests, UNCHANGED <<bind, spend>>,
           NEW ans \in {"unresolved", "refused", "paid"}, NEW res,
           Finish(r, ans, res),
           ans = "paid" => spend[r] = "executed",
           \A rec \in Completed(disk'.recs) :
               \/ rec \in Completed(disk.recs)
               \/ rec.result = r /\ rec.binding = bind[r]
                  /\ spend[r] = "executed",
           Unmarked(disk'.recs) \subseteq Unmarked(disk.recs),
           ans # "unresolved" => \/ ~Accountable(r)
                                 \/ bind[r] \notin Unmarked(disk'.recs)
    PROVE  ResultInv'
<1>1. phase'[r] = "done" /\ answer'[r] = ans
  BY Finishes
<1>2. ans = "unresolved" => Accountable(r)'
  BY <1>1 DEF Accountable
<1>3. "done" \notin Unspending
  BY DEF Unspending
<1> QED
  BY <1>1, <1>2, <1>3, Finishes, RequestStep

LEMMA ExecuteKeepsResultInv ==
    ASSUME TypeOK, ResultInv, NEW r \in Requests, Execute(r)
    PROVE  ResultInv'
<1>1. Recs \in SUBSET Records
  BY RecsRead
<1>2. /\ phase[r] \in Unspending => spend[r] = "none"
      /\ phase[r] \in {"charged", "delivering"} => spend[r] = "executed"
      /\ phase[r] # "done" => answer[r] = "none"
  BY DEF ResultInv, UnspentUntilDispatch, ChargedWasExecuted, AnsweredIsDone
<1>3. UNCHANGED disk =>
        /\ Completed(disk'.recs) = Completed(disk.recs)
        /\ Unmarked(disk'.recs) = Unmarked(disk.recs)
  OBVIOUS
<1>4. Accountable(r) =>
        phase[r] \in {"reserved", "verified", "handled", "prepared", "refused",
                      "done"}
  BY <1>2 DEF Accountable
<1>5. CASE Verify(r) \/ HandleBeforeSettlement(r)
  <2>1. /\ phase[r] \in {"reserved", "verified"}
        /\ UNCHANGED <<disk, bind, spend>>
        /\ Silent
        /\ \E p \in {"verified", "handled", "refused"} : Goto(r, p)
    BY <1>5 DEF Verify, HandleBeforeSettlement
  <2>2. spend[r] = "none"
    BY <1>2, <2>1 DEF Unspending
  <2> QED
    BY <1>3, <2>1, <2>2, OwnerMoves DEF Phases
<1>6. CASE Prepare(r) \/ PrepareFails(r)
  <2> DEFINE new == Prepared(Recs, bind[r], r)
  <2>1. /\ phase[r] = "handled"
        /\ UNCHANGED <<bind, spend>>
        /\ Silent
        /\ Throws(new)
        /\ \E p \in {"prepared", "refused"} : Goto(r, p)
    BY <1>6 DEF Prepare, PrepareFails, Throws
  <2>2. Completed(new) \subseteq Completed(Recs)
        /\ Unmarked(new) \subseteq Unmarked(Recs)
    BY <1>1, PreparedContents
  <2> HIDE DEF new
  <2>3. /\ Completed(disk'.recs) \subseteq Completed(disk.recs)
        /\ Unmarked(disk'.recs) \subseteq Unmarked(disk.recs)
    BY <2>1, <2>2, FileAfter
  <2>4. spend[r] = "none"
    BY <1>2, <2>1 DEF Unspending
  <2> QED
    BY <2>1, <2>3, <2>4, OwnerMoves DEF Phases
<1>7. CASE Mark(r) \/ MarkFails(r)
  <2> DEFINE new == MarkedSpend(Recs, bind[r])
  <2>1. /\ phase[r] \in {"prepared", "verified"}
        /\ UNCHANGED <<bind, spend>>
        /\ Throws(new)
        /\ \/ Commit(new) /\ Goto(r, "marked") /\ Silent
           \/ Finish(r, "unresolved", NoRequest)
    BY <1>7 DEF Mark, MarkFails, ReadyToMark, Refuse, Throws
  <2>2. /\ Completed(new) \subseteq Completed(Recs)
        /\ Unmarked(new) \subseteq Unmarked(Recs) \ {bind[r]}
    BY <1>1, MarkedContents
  <2>3. Commit(new) => disk'.recs = new
    BY DEF Commit
  <2> HIDE DEF new
  <2>4. /\ Completed(disk'.recs) \subseteq Completed(disk.recs)
        /\ Unmarked(disk'.recs) \subseteq Unmarked(disk.recs)
    BY <2>1, <2>2, FileAfter
  <2>5. spend[r] = "none"
    BY <1>2, <2>1 DEF Unspending
  <2>6. CASE Commit(new) /\ Goto(r, "marked") /\ Silent
    <3>1. bind[r] \notin Unmarked(disk'.recs)
      BY <2>2, <2>3, <2>6
    <3> QED
      BY <2>1, <2>4, <2>5, <2>6, <3>1, OwnerMoves DEF Phases
  <2>7. CASE Finish(r, "unresolved", NoRequest)
    BY <2>1, <2>4, <2>7, OwnerAnswers
  <2> QED
    BY <2>1, <2>6, <2>7
<1>8. CASE Dispatch(r)
  <2>1. /\ phase[r] = "marked"
        /\ spend' = [spend EXCEPT ![r] = "dispatched"]
        /\ UNCHANGED <<disk, bind>>
        /\ Goto(r, "settling")
        /\ Silent
    BY <1>8 DEF Dispatch
  <2>2. spend[r] = "none" /\ ~Accountable(r)
    BY <1>2, <1>4, <2>1 DEF Unspending
  <2>3. \A q \in Requests \ {r} : spend'[q] = spend[q]
    BY <2>1 DEF TypeOK
  <2>4. "settling" \in Phases \ Unspending
    BY DEF Phases, Unspending
  <2> QED
    BY <1>3, <2>1, <2>2, <2>3, <2>4, OwnerMoves
<1>9. CASE SettlementSucceeds(r) \/ SettlementUnresolved(r)
            \/ HandleAfterSettlement(r)
  <2>1. /\ phase[r] \in {"settling", "charged"}
        /\ UNCHANGED <<disk, bind, spend>>
        /\ \/ /\ spend[r] = "executed"
              /\ Silent
              /\ \E p \in {"delivering", "charged"} : Goto(r, p)
           \/ Finish(r, "paid", r) /\ phase[r] = "charged"
           \/ Finish(r, "unresolved", NoRequest)
    BY <1>2, <1>9 DEF SettlementSucceeds, SettlementUnresolved,
                      HandleAfterSettlement, Refuse
  <2>2. ~Accountable(r)
    BY <1>4, <2>1
  <2>3. {"delivering", "charged"} \subseteq Phases \ Unspending
    BY DEF Phases, Unspending
  <2>4. ASSUME NEW p \in {"delivering", "charged"}, Goto(r, p), Silent,
               spend[r] = "executed"
        PROVE  ResultInv'
    BY <1>3, <2>1, <2>2, <2>3, <2>4, OwnerMoves
  <2>5. CASE Finish(r, "paid", r) /\ phase[r] = "charged"
    BY <1>2, <1>3, <2>1, <2>2, <2>5, OwnerAnswers
  <2>6. CASE Finish(r, "unresolved", NoRequest)
    BY <1>3, <2>1, <2>6, OwnerAnswers
  <2> QED
    BY <2>1, <2>4, <2>5, <2>6
<1>10. CASE Deliver(r)
  <2> DEFINE new == Retained(Recs, bind[r], now, r)
             done == CompletedOf(bind[r], now, r)
  <2>1. /\ phase[r] = "delivering"
        /\ UNCHANGED <<bind, spend>>
        /\ Throws(new)
        /\ Finish(r, "paid", r)
    BY <1>10 DEF Deliver, Throws
  <2>2. /\ Completed(new) \subseteq Completed(Recs) \cup {done}
        /\ Unmarked(new) \subseteq Unmarked(Recs)
    BY RetainedContents
  <2>3. done.result = r /\ done.binding = bind[r]
    BY DEF CompletedOf
  <2> HIDE DEF new, done
  <2>4. /\ Completed(disk'.recs) \subseteq Completed(disk.recs) \cup {done}
        /\ Unmarked(disk'.recs) \subseteq Unmarked(disk.recs)
    BY <2>1, <2>2, FileAfter
  <2>5. spend[r] = "executed" /\ ~Accountable(r)
    BY <1>2, <1>4, <2>1
  <2> QED
    BY <2>1, <2>3, <2>4, <2>5, OwnerAnswers
<1>11. CASE Release(r) \/ EndUnreleased(r)
  <2> DEFINE new == Released(Recs, bind[r])
  <2>1. /\ phase[r] = "refused"
        /\ UNCHANGED <<bind, spend>>
        /\ Throws(new)
        /\ \/ Commit(new) /\ Finish(r, "refused", NoRequest)
           \/ Finish(r, "unresolved", NoRequest)
    BY <1>11 DEF Release, EndUnreleased, Refuse, Throws
  <2>2. /\ Completed(new) \subseteq Completed(Recs)
        /\ Unmarked(new) \subseteq Unmarked(Recs) \ {bind[r]}
    BY ReleasedContents
  <2>3. Commit(new) => disk'.recs = new
    BY DEF Commit
  <2> HIDE DEF new
  <2>4. /\ Completed(disk'.recs) \subseteq Completed(disk.recs)
        /\ Unmarked(disk'.recs) \subseteq Unmarked(disk.recs)
    BY <2>1, <2>2, FileAfter
  <2> QED
    BY <2>1, <2>2, <2>3, <2>4, OwnerAnswers
<1> QED
  BY <1>5, <1>6, <1>7, <1>8, <1>9, <1>10, <1>11 DEF Execute

LEMMA NextResultInv ==
    ASSUME TypeOK, ResultInv, [Next]_vars
    PROVE  ResultInv'
<1>1. CASE Tick \/ UNCHANGED vars
  BY <1>1 DEF Tick, vars, ResultInv, AnsweredIsDone, UnspentUntilDispatch,
              ChargedWasExecuted, CompletedWasPaid, AnswersWerePaid,
              UnmarkedIsAccounted, Completed, Unmarked, PaidFor, Accountable
<1>2. CASE Crash
  <2>1. /\ UNCHANGED <<disk, bind, spend, served>>
        /\ \A r \in Requests :
             IF phase[r] \in {"idle", "done"}
               THEN phase'[r] = phase[r] /\ answer'[r] = answer[r]
               ELSE phase'[r] = "done" /\ answer'[r] = "lost"
    BY <1>2 DEF Crash
  <2>2. \A r \in Requests : Accountable(r) => Accountable(r)'
    BY <2>1 DEF Accountable, ResultInv, AnsweredIsDone
  <2>3. AnsweredIsDone' /\ ChargedWasExecuted' /\ UnspentUntilDispatch'
    BY <2>1 DEF ResultInv, AnsweredIsDone, ChargedWasExecuted,
                UnspentUntilDispatch, Unspending
  <2>4. CompletedWasPaid' /\ AnswersWerePaid'
    BY <2>1 DEF ResultInv, CompletedWasPaid, AnswersWerePaid, Completed, PaidFor
  <2>5. UnmarkedIsAccounted'
    BY <2>1, <2>2 DEF ResultInv, UnmarkedIsAccounted, Unmarked
  <2> QED
    BY <2>3, <2>4, <2>5 DEF ResultInv
<1>3. ASSUME NEW r \in Requests, Chain(r)
      PROVE  ResultInv'
  <2>1. /\ UNCHANGED <<disk, bind, phase, answer, served>>
        /\ spend[r] = "dispatched"
        /\ spend'[r] # "none"
        /\ \A q \in Requests \ {r} : spend'[q] = spend[q]
    BY <1>3 DEF Chain, ChainExecutes, ChainRejects, TypeOK
  <2>2. \A q \in Requests : spend[q] = "executed" => spend'[q] = "executed"
    BY <2>1
  <2>3. \A q \in Requests : spend[q] = "none" => spend'[q] = "none"
    BY <2>1
  <2> QED
    BY <2>1, <2>2, <2>3
       DEF ResultInv, AnsweredIsDone, UnspentUntilDispatch,
           ChargedWasExecuted, CompletedWasPaid, AnswersWerePaid,
           UnmarkedIsAccounted, Completed, Unmarked, PaidFor, Accountable
<1>4. ASSUME NEW r \in Requests, ArriveInvalid(r)
      PROVE  ResultInv'
  BY <1>4, OutsiderStep DEF ArriveInvalid
<1> QED
  BY <1>1, <1>2, <1>3, <1>4, ClaimKeepsResultInv, PollKeepsResultInv,
     ExecuteKeepsResultInv DEF Next, Handle

LEMMA InitResultInv == Init => ResultInv
BY DEF Init, ResultInv, AnsweredIsDone, UnspentUntilDispatch,
       ChargedWasExecuted, CompletedWasPaid, AnswersWerePaid,
       UnmarkedIsAccounted, Completed, Unmarked

\* Whatever clients reuse: completed records and answers stand for executed
\* settlements, and every unmarked reservation has a request behind it.
THEOREM ResultInvHolds == Spec => []ResultInv
<1>1. TypeOK /\ ResultInv /\ [Next]_vars => ResultInv'
  BY NextResultInv
<1> QED
  BY <1>1, InitResultInv, TypeCorrect, PTL DEF Spec

\* A replayed response is the response of a request with the same binding
\* whose settlement was executed; prepared bytes are never served (claim,
\* the wait for a concurrent result, persistResponse).
THEOREM ReplayedWasPaidHolds == Spec => []ReplayedWasPaid
<1>1. ResultInv => ReplayedWasPaid
  BY DEF ResultInv, AnswersWerePaid, PaidFor, ReplayedWasPaid
<1> QED
  BY <1>1, ResultInvHolds, PTL

\* No reservation without the possible-spend marker is left behind by normal
\* operation: a request owns it, or its answer says something went wrong.
THEOREM NoOrphanReservationHolds == Spec => []NoOrphanReservation
<1>1. ResultInv => NoOrphanReservation
  <2> SUFFICES ASSUME ResultInv, NEW rec \in Recs, rec.pending, ~rec.attempted
               PROVE  \E r \in Requests : bind[r] = rec.binding /\ Accountable(r)
    BY DEF NoOrphanReservation, Accountable
  <2>1. rec.binding \in Unmarked(disk.recs)
    BY DEF Unmarked, Recs, Live
  <2> QED
    BY <2>1 DEF ResultInv, UnmarkedIsAccounted
<1> QED
  BY <1>1, ResultInvHolds, PTL

-----------------------------------------------------------------------------
(* Room for results, exclusive execution, the bytes behind a settlement.   *)

LEMMA ImageIsFinite ==
    ASSUME NEW P, IsFiniteSet(P), NEW image, DOMAIN image = P
    PROVE  IsFiniteSet({image[x] : x \in P})
<1> DEFINE T == {image[x] : x \in P}
<1>1. [x \in P |-> image[x]] \in Surjection(P, T)
  BY DEF Surjection
<1> QED
  BY <1>1, FS_Surjection

LEMMA OperationsStayFinite ==
    ASSUME NEW recs, IsFiniteSet(recs), NEW b, NEW t, NEW r
    PROVE  /\ IsFiniteSet(Reserved(recs, b, t))
           /\ IsFiniteSet(Released(recs, b))
           /\ IsFiniteSet(Prepared(recs, b, r))
           /\ IsFiniteSet(MarkedSpend(recs, b))
           /\ IsFiniteSet(Retained(recs, b, t, r))
<1>1. IsFiniteSet(PendingOf(recs, b)) /\ IsFiniteSet(recs \ PendingOf(recs, b))
  BY FS_Subset DEF PendingOf
<1>2. IsFiniteSet(Prepared(recs, b, r))
  <2> DEFINE image == [rec \in PendingOf(recs, b) |-> [rec EXCEPT !.prepared = r]]
  <2>1. Prepared(recs, b, r) = (recs \ PendingOf(recs, b)) \cup {image[rec] : rec \in PendingOf(recs, b)}
    BY DEF Prepared
  <2>2. DOMAIN image = PendingOf(recs, b)
    OBVIOUS
  <2> HIDE DEF image
  <2>3. IsFiniteSet({image[rec] : rec \in PendingOf(recs, b)})
    BY <1>1, <2>2, ImageIsFinite
  <2> QED
    BY <1>1, <2>1, <2>3, FS_Union
<1>3. IsFiniteSet(MarkedSpend(recs, b))
  <2> DEFINE image == [rec \in PendingOf(recs, b) |-> [rec EXCEPT !.attempted = TRUE]]
  <2>1. MarkedSpend(recs, b) = (recs \ PendingOf(recs, b)) \cup {image[rec] : rec \in PendingOf(recs, b)}
    BY DEF MarkedSpend
  <2>2. DOMAIN image = PendingOf(recs, b)
    OBVIOUS
  <2> HIDE DEF image
  <2>3. IsFiniteSet({image[rec] : rec \in PendingOf(recs, b)})
    BY <1>1, <2>2, ImageIsFinite
  <2> QED
    BY <1>1, <2>1, <2>3, FS_Union
<1>4. IsFiniteSet(Retained(recs, b, t, r))
  <2>1. IsFiniteSet({rec \in recs : Key[rec.binding] # Key[b]})
    BY FS_Subset
  <2> QED
    BY <2>1, FS_AddElement DEF Retained
<1> QED
  BY <1>1, <1>2, <1>3, <1>4, FS_AddElement DEF Reserved, Released

\* What a request writes is a finite change of what it read.
LEMMA RequestWrites ==
    ASSUME NEW r \in Requests, Handle(r), IsFiniteSet(Recs)
    PROVE  UNCHANGED disk \/ \E new : IsFiniteSet(new) /\ Commit(new)
<1>1. CASE ArriveInvalid(r)
  BY <1>1 DEF ArriveInvalid
<1>2. CASE Claim(r)
  BY <1>2, OperationsStayFinite
     DEF Claim, ClaimGenerationRefused, ClaimConflict, ClaimPending, ClaimHit, ClaimExpired, ClaimCapacity,
         ClaimReserves, ClaimThrows, Throws
<1>3. CASE Poll(r)
  BY <1>3 DEF Poll, PollHit, PollConflict, PollGivesUp, PollThrows, Throws
<1>4. CASE Execute(r)
  BY <1>4, OperationsStayFinite
     DEF Execute, Verify, HandleBeforeSettlement, Prepare, PrepareFails, Mark, MarkFails, Dispatch,
         SettlementSucceeds, SettlementUnresolved, HandleAfterSettlement, Deliver, Release, EndUnreleased, Throws
<1> QED
  BY <1>1, <1>2, <1>3, <1>4 DEF Handle

\* The file is finite and never outgrows its capacity: what each write checks.
WithinCapacity == IsFiniteSet(disk.recs) /\ Cardinality(disk.recs) <= MaxEntries

LEMMA WithinCapacityHolds == Spec => []WithinCapacity
<1>1. Init => WithinCapacity
  <2>1. Init => disk.recs = {}
    BY DEF Init
  <2>2. IsFiniteSet({}) /\ Cardinality({}) = 0 /\ 0 <= MaxEntries
    BY FS_EmptySet, JournalAssumption
  <2> QED
    BY <2>1, <2>2 DEF WithinCapacity
<1>2. WithinCapacity /\ [Next]_vars => WithinCapacity'
  <2> SUFFICES ASSUME WithinCapacity, [Next]_vars
               PROVE  WithinCapacity'
    OBVIOUS
  <2>1. IsFiniteSet(Recs)
    BY FS_Subset DEF WithinCapacity, Recs, Live
  <2>2. UNCHANGED disk \/ \E new : IsFiniteSet(new) /\ Commit(new)
    BY <2>1, RequestWrites
       DEF Next, vars, Tick, Crash, Chain, ChainExecutes, ChainRejects
  <2> QED
    BY <2>2 DEF WithinCapacity, Commit, Fits
<1> QED
  BY <1>1, <1>2, PTL DEF Spec

\* A dispatched request keeps its place in the journal for as long as its
\* charge may be reported, and a minute longer: its result takes the place of
\* its own record and of no other, for any capacity and any other clients.
THEOREM ResultHasRoomHolds == ReuseWithinGrace /\ Spec => []ResultHasRoom
<1>1. SpendInv /\ WithinCapacity => ResultHasRoom
  <2> SUFFICES ASSUME SpendInv, WithinCapacity, NEW r \in Requests,
                      phase[r] \in {"settling", "charged", "delivering"}, Guarded(bind[r])
               PROVE  /\ Cardinality(Retained(Recs, bind[r], now, r)) <= MaxEntries
                      /\ \A rec \in Recs : rec.binding # bind[r] => rec \in Retained(Recs, bind[r], now, r)
    BY DEF ResultHasRoom
  <2>1. PICK own \in Recs : own.binding = bind[r]
    BY DEF SpendInv, OwnersHold, Owning
  <2>2. Recs \subseteq disk.recs
    BY DEF Recs, Live
  <2>3. {rec \in Recs : Key[rec.binding] # Key[bind[r]]} = Recs \ {own}
    BY <2>1, <2>2 DEF SpendInv, KeysUnique
  <2> DEFINE others == Recs \ {own}
             completed == CompletedOf(bind[r], now, r)
  <2>4. Retained(Recs, bind[r], now, r) = others \cup {completed}
    BY <2>3 DEF Retained
  <2>5. /\ IsFiniteSet(Recs) /\ Cardinality(Recs) <= Cardinality(disk.recs)
        /\ Cardinality(Recs) \in Nat /\ Cardinality(disk.recs) \in Nat
    BY <2>2, FS_Subset, FS_CardinalityType DEF WithinCapacity
  <2>6. IsFiniteSet(others) /\ Cardinality(others) = Cardinality(Recs) - 1
    BY <2>1, <2>5, FS_RemoveElement
  <2> HIDE DEF others, completed
  <2>7. Cardinality(others \cup {completed}) <= Cardinality(others) + 1
    <3>1. Cardinality(others) \in Nat
      BY <2>6, FS_CardinalityType
    <3> QED
      BY <2>6, <3>1, FS_AddElement
  <2>8. Cardinality(Retained(Recs, bind[r], now, r)) <= MaxEntries
    <3>1. Cardinality(others \cup {completed}) \in Nat /\ Cardinality(others) \in Nat
      BY <2>6, FS_AddElement, FS_CardinalityType
    <3>2. MaxEntries \in Nat
      BY JournalAssumption
    <3>3. Cardinality(disk.recs) <= MaxEntries
      BY DEF WithinCapacity
    <3> QED
      BY <2>4, <2>5, <2>6, <2>7, <3>1, <3>2, <3>3
  <2> QED
    BY <2>1, <2>4, <2>8 DEF others
<1> QED
  BY <1>1, SpendInvHolds, WithinCapacityHolds, PTL

\* The handler of one binding never runs for two requests at a time, through
\* retries, restarts and expiry of the reservation it runs under.
THEOREM OneExecutionHolds == ReuseWithinGrace /\ Spec => []OneExecution
<1>1. SpendInv => OneExecution
  BY DEF SpendInv, SpendingIsDated, SoleHolder, Holds, Owning, Executing,
         OneExecution
<1> QED
  BY <1>1, SpendInvHolds, PTL

\* Within its guarded time, the record of a holder keeps a rival request from
\* reserving the same binding.
LEMMA HeldIsNotReservable ==
    ASSUME TypeOK, SpendInv, NEW r \in Requests, Holds(r), bind[r] \in Dated,
           Recognised = Recs
    PROVE  ~Reservable(bind[r])
<1>1. ~Expired(bind[r]) => Guarded(bind[r])
  BY JournalAssumption DEF Expired, Guarded, TypeOK
<1>2. Guarded(bind[r]) => \E rec \in Recs : rec.binding = bind[r]
  BY DEF SpendInv, OwnersHold, MarkedIsQuarantined, Holds
<1> QED
  BY <1>1, <1>2 DEF Reservable, Found, Matches

\* A backed x402 request holds its reservation or has been settled.
LEMMA BackedHolds ==
    ASSUME SpendInv, NEW r \in Requests, Backed(r)
    PROVE  Holds(r) /\ bind[r] \in Dated
BY DEF Backed, SpendInv, SpendingIsDated, Executing, Holds, Owning, Spent

\* A step keeps the bytes of every request it does not newly back, when what
\* it writes about a backed binding was there before or carries its bytes.
LEMMA BytesStep ==
    ASSUME BytesAreKept, bind' = bind,
           \A r \in Requests : bind[r] \in X402 /\ Backed(r)' =>
             \/ /\ Backed(r)
                /\ \A rec \in Recs' : rec.binding = bind[r] =>
                     \/ HoldsBytesOf(rec, r)
                     \/ \E old \in Recs : /\ old.binding = bind[r]
                                          /\ old.pending = rec.pending
                                          /\ old.prepared = rec.prepared
                                          /\ old.result = rec.result
             \/ \A rec \in Recs' : rec.binding = bind[r] => HoldsBytesOf(rec, r)
    PROVE  BytesAreKept'
<1> SUFFICES ASSUME NEW r \in Requests, Backed(r)', bind[r] \in X402,
                    NEW rec \in Recs', rec.binding = bind[r]
             PROVE  HoldsBytesOf(rec, r)
  BY DEF BytesAreKept, HoldsBytesOf
<1>1. ASSUME Backed(r), NEW old \in Recs, old.binding = bind[r],
             old.pending = rec.pending, old.prepared = rec.prepared,
             old.result = rec.result
      PROVE  HoldsBytesOf(rec, r)
  BY <1>1 DEF BytesAreKept, HoldsBytesOf
<1> QED
  BY <1>1

LEMMA ClaimKeepsBytes ==
    ASSUME TypeOK, SpendInv, BytesAreKept, NEW r \in Requests,
           Claim(r) \/ Poll(r) \/ ArriveInvalid(r)
    PROVE  BytesAreKept'
<1>1. /\ phase[r] \in {"idle", "waiting"}
      /\ UNCHANGED <<now, bind, spend>>
      /\ \E p \in {"waiting", "reserved", "done"} : Goto(r, p)
  BY DEF Claim, ClaimGenerationRefused, ClaimConflict, ClaimPending, ClaimHit,
         ClaimExpired, ClaimCapacity, ClaimReserves, ClaimThrows, Claiming,
         Poll, PollHit, PollConflict, PollGivesUp, PollThrows, Polling,
         ArriveInvalid, Refuse, Finish
<1>2. \A q \in Requests : Backed(q)' => Backed(q)
  BY <1>1 DEF Backed, Spent, Goto, TypeOK
<1>3. Recs' = Recs \/ (Reservable(bind[r]) /\ Commit(Reserved(Recs, bind[r], now)))
  <2>1. UNCHANGED disk \/ Commit(Recs)
          \/ (Reservable(bind[r]) /\ Commit(Reserved(Recs, bind[r], now)))
    BY DEF Claim, ClaimGenerationRefused, ClaimConflict, ClaimPending, ClaimHit,
           ClaimExpired, ClaimCapacity, ClaimReserves, ClaimThrows, Throws,
           Poll, PollHit, PollConflict, PollGivesUp, PollThrows, ArriveInvalid
  <2>2. UNCHANGED disk \/ Commit(Recs) => Recs' = Recs
    BY <1>1 DEF Recs, Live, Commit
  <2> QED
    BY <2>1, <2>2
<1>4. CASE Recs' = Recs
  BY <1>1, <1>2, <1>4, BytesStep
<1>5. CASE Reservable(bind[r]) /\ Commit(Reserved(Recs, bind[r], now))
  <2>1. Recs' \subseteq Recs \cup {ReservationOf(bind[r], now)}
    BY <1>1, <1>5 DEF Commit, Recs, Live, Reserved
  <2>2. ASSUME NEW q \in Requests, Backed(q)
        PROVE  bind[q] # bind[r]
    BY <1>5, <2>2, BackedHolds, HeldIsNotReservable, CommitRecognises
  <2>3. \A q \in Requests, rec \in Recs' :
          Backed(q) /\ rec.binding = bind[q] => rec \in Recs
    BY <2>1, <2>2 DEF ReservationOf
  <2> QED
    BY <1>1, <1>2, <2>3, BytesStep
<1> QED
  BY <1>3, <1>4, <1>5

\* The records of a binding after prepareHttp hold the bytes of its request.
LEMMA PreparedBytes ==
    ASSUME NEW recs \in SUBSET Records, NEW b, NEW r,
           \A rec, other \in recs :
             Key[rec.binding] = Key[other.binding] => rec = other
    PROVE  /\ \A rec \in Prepared(recs, b, r) :
                rec.binding # b => rec \in recs
           /\ PendingOf(recs, b) # {} =>
                \A rec \in Prepared(recs, b, r) :
                    rec.binding = b => HoldsBytesOf(rec, r)
<1> DEFINE image(rec) == [rec EXCEPT !.prepared = r]
<1>1. \A rec \in Records : /\ image(rec).binding = rec.binding
                           /\ image(rec).pending = rec.pending
                           /\ image(rec).prepared = r
  BY DEF Records
<1>2. Prepared(recs, b, r) =
        (recs \ PendingOf(recs, b)) \cup {image(rec) : rec \in PendingOf(recs, b)}
  BY DEF Prepared
<1>3. \A rec \in PendingOf(recs, b) : rec \in recs /\ rec.binding = b /\ rec.pending
  BY DEF PendingOf
<1> HIDE DEF image
<1>4. \A rec \in Prepared(recs, b, r) : rec.binding # b => rec \in recs
  BY <1>1, <1>2, <1>3
<1>5. ASSUME PendingOf(recs, b) # {}, NEW rec \in Prepared(recs, b, r),
             rec.binding = b
      PROVE  HoldsBytesOf(rec, r)
  <2>1. rec \in recs => rec \in PendingOf(recs, b)
    BY <1>3, <1>5
  <2>2. \E old \in PendingOf(recs, b) : rec = image(old)
    BY <1>2, <1>5, <2>1
  <2> QED
    BY <1>1, <1>3, <2>2 DEF HoldsBytesOf
<1> QED
  BY <1>4, <1>5

\* The marker changes no bytes.
LEMMA MarkedBytes ==
    ASSUME NEW recs \in SUBSET Records, NEW b, NEW rec \in MarkedSpend(recs, b)
    PROVE  \E old \in recs : /\ old.binding = rec.binding
                             /\ old.pending = rec.pending
                             /\ old.prepared = rec.prepared
                             /\ old.result = rec.result
<1> DEFINE image(old) == [old EXCEPT !.attempted = TRUE]
<1>1. \A old \in Records : /\ image(old).binding = old.binding
                           /\ image(old).pending = old.pending
                           /\ image(old).prepared = old.prepared
                           /\ image(old).result = old.result
  BY DEF Records
<1>2. rec \in recs \/ \E old \in PendingOf(recs, b) : rec = image(old)
  BY DEF MarkedSpend
<1>3. PendingOf(recs, b) \subseteq recs
  BY DEF PendingOf
<1> HIDE DEF image
<1> QED
  BY <1>1, <1>2, <1>3

LEMMA ExecuteKeepsBytes ==
    ASSUME TypeOK, SpendInv, BytesAreKept, NEW r \in Requests, Execute(r)
    PROVE  BytesAreKept'
<1>1. /\ Recs \in SUBSET Records
      /\ Live(Recs, now) = Recs
      /\ Sound(Recs)
  BY SoundNow
<1>2. UNCHANGED <<now, bind>>
  BY DEF Execute, Verify, HandleBeforeSettlement, Prepare, PrepareFails,
         Mark, MarkFails, Dispatch, SettlementSucceeds, SettlementUnresolved,
         HandleAfterSettlement, Deliver, Release, EndUnreleased
<1>3. \A new : Throws(new) => Recs' = Recs \/ (Recs' \subseteq new)
  BY <1>2 DEF Throws, Commit, Recs, Live
<1>4. \A new : Commit(new) => Recs' \subseteq new
  BY <1>2 DEF Commit, Recs, Live
<1>5. \A q \in Requests \ {r} : phase'[q] = phase[q] /\ spend'[q] = spend[q]
  BY DEF Execute, Verify, HandleBeforeSettlement, Prepare, PrepareFails,
         Mark, MarkFails, Dispatch, SettlementSucceeds, SettlementUnresolved,
         HandleAfterSettlement, Deliver, Release, EndUnreleased, Refuse,
         Finish, Goto, TypeOK
<1>6. \A q \in Requests \ {r} : Backed(q)' => Backed(q)
  BY <1>5 DEF Backed, Spent
<1>7. \A q \in Requests \ {r} :
        Backed(q) /\ Holds(r) /\ bind[r] \in Dated => bind[q] # bind[r]
  BY BackedHolds DEF SpendInv, SoleHolder
<1>8. CASE Verify(r) \/ HandleBeforeSettlement(r)
  <2>1. Recs' = Recs /\ (Backed(r)' => Backed(r))
    BY <1>2, <1>8 DEF Verify, HandleBeforeSettlement, Recs, Live, Goto, Backed,
                      Spent, TypeOK
  <2> QED
    BY <1>2, <1>6, <2>1, BytesStep
<1>9. CASE Prepare(r) \/ PrepareFails(r)
  <2> DEFINE new == Prepared(Recs, bind[r], r)
  <2>1. /\ phase[r] = "handled" /\ spend' = spend /\ Throws(new)
        /\ \/ Commit(new) /\ PendingOf(Recs, bind[r]) # {}
           \/ phase'[r] = "refused"
    BY <1>9 DEF Prepare, PrepareFails, Throws, Goto, TypeOK
  <2>2. spend[r] = "none" /\ Holds(r) /\ bind[r] \in Dated
    BY <2>1 DEF SpendInv, SpendingIsDated, Unspending, Executing, Holds, Owning
  <2>3. /\ \A rec \in new : rec.binding # bind[r] => rec \in Recs
        /\ PendingOf(Recs, bind[r]) # {} =>
             \A rec \in new : rec.binding = bind[r] => HoldsBytesOf(rec, r)
    BY <1>1, PreparedBytes DEF Sound
  <2> HIDE DEF new
  <2>4. \A q \in Requests \ {r}, rec \in Recs' :
          Backed(q) /\ rec.binding = bind[q] => rec \in Recs
    BY <1>3, <1>7, <2>1, <2>2, <2>3
  <2>5. Backed(r)' => Commit(new) /\ PendingOf(Recs, bind[r]) # {}
    BY <2>1, <2>2 DEF Backed, Spent
  <2>6. Backed(r)' =>
          \A rec \in Recs' : rec.binding = bind[r] => HoldsBytesOf(rec, r)
    BY <1>4, <2>3, <2>5
  <2> QED
    BY <1>2, <1>6, <2>4, <2>6, BytesStep
<1>10. CASE Mark(r) \/ MarkFails(r)
  <2> DEFINE new == MarkedSpend(Recs, bind[r])
  <2>1. /\ ReadyToMark(r) /\ spend' = spend /\ Throws(new)
        /\ phase'[r] \in {"marked", "done"}
    BY <1>10 DEF Mark, MarkFails, Throws, Refuse, Finish, Goto, TypeOK
  <2>2. spend[r] = "none"
    BY <2>1 DEF ReadyToMark, SpendInv, SpendingIsDated, Unspending
  <2>3. Backed(r)' /\ bind[r] \in X402 => Backed(r)
    BY <2>1, <2>2 DEF ReadyToMark, Backed, Spent
  <2>4. \A rec \in new : \E old \in Recs : /\ old.binding = rec.binding
                                           /\ old.pending = rec.pending
                                           /\ old.prepared = rec.prepared
                                           /\ old.result = rec.result
    BY <1>1, MarkedBytes
  <2> HIDE DEF new
  <2>5. \A rec \in Recs' : \E old \in Recs : /\ old.binding = rec.binding
                                             /\ old.pending = rec.pending
                                             /\ old.prepared = rec.prepared
                                             /\ old.result = rec.result
    BY <1>3, <2>1, <2>4
  <2> QED
    BY <1>2, <1>6, <2>3, <2>5, BytesStep
<1>11. CASE Dispatch(r) \/ SettlementSucceeds(r) \/ SettlementUnresolved(r)
             \/ HandleAfterSettlement(r)
  <2>1. Recs' = Recs
    BY <1>2, <1>11 DEF Dispatch, SettlementSucceeds, SettlementUnresolved,
                       HandleAfterSettlement, Recs, Live
  <2>2. Backed(r)' => Backed(r)
    BY <1>11 DEF Dispatch, SettlementSucceeds, SettlementUnresolved,
                 HandleAfterSettlement, Refuse, Finish, Goto, Backed, Spent,
                 TypeOK
  <2> QED
    BY <1>2, <1>6, <2>1, <2>2, BytesStep
<1>12. CASE Deliver(r)
  <2> DEFINE new == Retained(Recs, bind[r], now, r)
  <2>1. phase[r] = "delivering" /\ spend' = spend /\ Throws(new)
        /\ phase'[r] = "done"
    BY <1>12 DEF Deliver, Throws, Finish, Goto, TypeOK
  <2>2. Holds(r) /\ bind[r] \in Dated
    BY <2>1 DEF SpendInv, SpendingIsDated, Executing, Holds, Owning
  <2>3. \A rec \in new : \/ rec \in Recs /\ Key[rec.binding] # Key[bind[r]]
                         \/ rec.binding = bind[r] /\ HoldsBytesOf(rec, r)
    BY DEF Retained, CompletedOf, HoldsBytesOf
  <2> HIDE DEF new
  <2>4. \A q \in Requests \ {r}, rec \in Recs' :
          Backed(q) /\ rec.binding = bind[q] => rec \in Recs
    BY <1>3, <1>7, <2>1, <2>2, <2>3
  <2>5. Backed(r)' => Backed(r)
    BY <2>1 DEF Backed, Spent
  <2>6. \A rec \in Recs' :
          rec.binding = bind[r] => rec \in Recs \/ HoldsBytesOf(rec, r)
    BY <1>3, <2>1, <2>3
  <2> QED
    BY <1>2, <1>6, <2>4, <2>5, <2>6, BytesStep
<1>13. CASE Release(r) \/ EndUnreleased(r)
  <2>1. Recs' \subseteq Recs
    BY <1>3, <1>13 DEF Release, EndUnreleased, Throws, Released
  <2>2. Backed(r)' => Backed(r)
    BY <1>13 DEF Release, EndUnreleased, Refuse, Finish, Goto, Backed, Spent,
                 TypeOK
  <2> QED
    BY <1>2, <1>6, <2>1, <2>2, BytesStep
<1> QED
  BY <1>8, <1>9, <1>10, <1>11, <1>12, <1>13 DEF Execute

LEMMA NextBytes ==
    ASSUME TypeOK, SpendInv, BytesAreKept, [Next]_vars
    PROVE  BytesAreKept'
<1>1. CASE Tick \/ Crash \/ UNCHANGED vars \/ \E r \in Requests : Chain(r)
  <2>1. disk' = disk /\ bind' = bind
    BY <1>1 DEF Tick, Crash, vars, Chain, ChainExecutes, ChainRejects
  <2>2. now' >= now /\ now \in Nat
    BY <1>1 DEF Tick, Crash, vars, Chain, ChainExecutes, ChainRejects, TypeOK
  <2>3. Recs' \subseteq Recs
    BY <1>1, <2>1, <2>2
       DEF Recs, Live, TypeOK, Journals, Records, Tick, Crash, vars, Chain,
           ChainExecutes, ChainRejects
  <2>4. \A q \in Requests : Backed(q)' => Backed(q)
    BY <1>1 DEF Tick, Crash, vars, Chain, ChainExecutes, ChainRejects, Backed,
                Spent, TypeOK
  <2> QED
    BY <2>1, <2>3, <2>4, BytesStep
<1> QED
  BY <1>1, ClaimKeepsBytes, ExecuteKeepsBytes DEF Next, Handle

\* An x402 settlement is dispatched only when the bytes it pays for are
\* durable, and they stay with the record: neither another request nor a
\* failing write puts other bytes in their place (prepareHttp,
\* persistResponse).
THEOREM PreparedBeforeSpendHolds ==
    ReuseWithinGrace /\ Spec => []PreparedBeforeSpend
<1>1. Init => BytesAreKept
  BY DEF Init, BytesAreKept, Backed, Spent
<1>2. TypeOK /\ SpendInv /\ BytesAreKept /\ [Next]_vars => BytesAreKept'
  BY NextBytes
<1>3. BytesAreKept => PreparedBeforeSpend
  BY DEF BytesAreKept, Backed, HoldsBytesOf, PreparedBeforeSpend
<1> QED
  BY <1>1, <1>2, <1>3, TypeCorrect, SpendInvHolds, PTL DEF Spec

-----------------------------------------------------------------------------
(* The HTTP path implements the promise of PaidOperation: every step is a   *)
(* step of it or changes nothing it speaks of.                              *)

Attempts == [b \in Bindings |-> Cardinality(CallsFor(b))]
Charged == {b \in Bindings : \E r \in CallsFor(b) : spend[r] = "executed"}
Delivered == {bind[r] : r \in {q \in Requests :
                                  answer[q] \in {"paid", "replayed"}}}

LEMMA InitImplements == Init => Operation!Init
<1> SUFFICES ASSUME Init
             PROVE  /\ Attempts = [b \in Bindings |-> 0]
                    /\ Charged = {}
                    /\ Delivered = {}
  BY DEF Operation!Init, Attempts, Charged, Delivered
<1>1. \A b \in Bindings : CallsFor(b) = {}
  BY DEF Init, CallsFor, Spent
<1> QED
  BY <1>1, FS_EmptySet DEF Init, Attempts, Charged, Delivered

\* What the promise sees is what the steps change: the settle calls, ...
LEMMA SameSpends ==
    ASSUME bind' = bind, spend' = spend
    PROVE  Attempts' = Attempts /\ Charged' = Charged
BY DEF Attempts, Charged, CallsFor, Spent

\* ... and the answers that carry a result.
LEMMA SameResults ==
    ASSUME bind' = bind,
           \A r \in Requests : answer[r] \in {"paid", "replayed"}
                                 <=> answer'[r] \in {"paid", "replayed"}
    PROVE  Delivered' = Delivered
BY DEF Delivered

\* Handing a credential to the facilitator is its only attempt.
LEMMA DispatchImplements ==
    ASSUME TypeOK, UnspentUntilDispatch, SettledOnce', NEW r \in Requests,
           Dispatch(r)
    PROVE  /\ Attempts[bind[r]] = 0
           /\ Attempts' = [Attempts EXCEPT ![bind[r]] = 1]
           /\ Charged' = Charged
           /\ Delivered' = Delivered
<1>1. /\ bind' = bind /\ answer' = answer
      /\ spend[r] = "none" /\ spend'[r] = "dispatched"
      /\ \A q \in Requests \ {r} : spend'[q] = spend[q]
      /\ bind[r] \in Bindings
  BY DEF Dispatch, Silent, UnspentUntilDispatch, Unspending, TypeOK
<1>2. CallsFor(bind[r]) = {} /\ CallsFor(bind[r])' = {r}
  BY <1>1 DEF CallsFor, Spent, SettledOnce
<1>3. \A b \in Bindings \ {bind[r]} : CallsFor(b)' = CallsFor(b)
  BY <1>1 DEF CallsFor, Spent
<1>4. Attempts[bind[r]] = 0 /\ Cardinality(CallsFor(bind[r])') = 1
  BY <1>1, <1>2, FS_EmptySet, FS_Singleton DEF Attempts
<1>5. Attempts' = [b \in Bindings |-> IF b = bind[r] THEN 1 ELSE Attempts[b]]
  <2> DEFINE calls(b) == Cardinality(CallsFor(b))'
  <2>1. \A b \in Bindings : calls(b) = IF b = bind[r] THEN 1 ELSE Attempts[b]
    BY <1>1, <1>3, <1>4 DEF Attempts
  <2>2. Attempts' = [b \in Bindings |-> calls(b)]
    BY DEF Attempts
  <2> HIDE DEF calls
  <2> QED
    BY <2>1, <2>2
<1>6. Charged' = Charged
  BY <1>1 DEF Charged, CallsFor, Spent
<1>7. Delivered' = Delivered
  BY <1>1, SameResults
<1> QED
  BY <1>1, <1>4, <1>5, <1>6, <1>7 DEF Attempts

\* The chain charges through that attempt, once.
LEMMA ChainImplements ==
    ASSUME TypeOK, SettledOnce, NEW r \in Requests, Chain(r)
    PROVE  /\ Attempts' = Attempts
           /\ Delivered' = Delivered
           /\ \/ Charged' = Charged
              \/ /\ bind[r] \in Bindings
                 /\ Attempts[bind[r]] = 1
                 /\ bind[r] \notin Charged
                 /\ Charged' = Charged \cup {bind[r]}
<1>1. /\ bind' = bind /\ answer' = answer
      /\ spend[r] = "dispatched" /\ spend'[r] \in {"executed", "rejected"}
      /\ \A q \in Requests \ {r} : spend'[q] = spend[q]
      /\ bind[r] \in Bindings
  BY DEF Chain, ChainExecutes, ChainRejects, TypeOK
<1>2. \A q \in Requests : Spent(q)' <=> Spent(q)
  BY <1>1 DEF Spent
<1>3. \A b \in Bindings : CallsFor(b)' = CallsFor(b)
  BY <1>1, <1>2 DEF CallsFor
<1>4. CallsFor(bind[r]) = {r}
  BY <1>1 DEF CallsFor, Spent, SettledOnce
<1>5. Attempts' = Attempts
  BY <1>3 DEF Attempts
<1>6. Attempts[bind[r]] = 1 /\ bind[r] \notin Charged
  BY <1>1, <1>4, FS_Singleton DEF Attempts, Charged
<1>7. Charged' = IF spend'[r] = "executed" THEN Charged \cup {bind[r]}
                 ELSE Charged
  <2>1. \A b \in Bindings, q \in Requests :
          q \in CallsFor(b)' /\ spend'[q] = "executed" <=>
            \/ q \in CallsFor(b) /\ spend[q] = "executed"
            \/ q = r /\ b = bind[r] /\ spend'[r] = "executed"
    BY <1>1 DEF CallsFor, Spent
  <2>2. \A b : CallsFor(b) \subseteq Requests /\ CallsFor(b)' \subseteq Requests
    BY DEF CallsFor
  <2> QED
    BY <1>1, <2>1, <2>2 DEF Charged
<1> QED
  BY <1>1, <1>5, <1>6, <1>7, SameResults

\* An answer carries a result only of a charged credential.
LEMMA AnswerImplements ==
    ASSUME TypeOK, ResultInv, ResultInv', NEW r \in Requests,
           bind' = bind, spend' = spend,
           \A q \in Requests \ {r} : answer'[q] = answer[q],
           answer[r] = "none" \/ answer'[r] = answer[r]
    PROVE  \/ Delivered' = Delivered
           \/ /\ bind[r] \in Charged
              /\ Delivered' = Delivered \cup {bind[r]}
<1>1. CASE answer'[r] \notin {"paid", "replayed"} \/ answer'[r] = answer[r]
  BY <1>1, SameResults
<1>2. CASE answer'[r] \in {"paid", "replayed"} /\ answer[r] = "none"
  <2>1. \E q \in Requests : bind[q] = bind[r] /\ spend[q] = "executed"
    BY <1>2 DEF ResultInv, AnswersWerePaid, PaidFor
  <2>2. bind[r] \in Charged
    BY <2>1 DEF Charged, CallsFor, Spent, TypeOK
  <2>3. Delivered' = Delivered \cup {bind[r]}
    BY <1>2 DEF Delivered
  <2> QED
    BY <2>2, <2>3
<1> QED
  BY <1>1, <1>2

LEMMA HandleAnswers ==
    ASSUME TypeOK, ResultInv, NEW r \in Requests, Handle(r)
    PROVE  /\ bind' = bind
           /\ spend' = spend \/ Dispatch(r)
           /\ \A q \in Requests \ {r} : answer'[q] = answer[q]
           /\ answer[r] = "none" \/ answer'[r] = answer[r]
<1>1. phase[r] # "done" => answer[r] = "none"
  BY DEF ResultInv, AnsweredIsDone
<1>2. CASE ArriveInvalid(r)
  BY <1>1, <1>2 DEF ArriveInvalid, Refuse, Finish, TypeOK
<1>3. CASE Claim(r)
  BY <1>1, <1>3
     DEF Claim, ClaimGenerationRefused, ClaimConflict, ClaimPending, ClaimHit,
         ClaimExpired, ClaimCapacity, ClaimReserves, ClaimThrows, Claiming,
         Refuse, Finish, Silent, TypeOK
<1>4. CASE Poll(r)
  BY <1>1, <1>4
     DEF Poll, PollHit, PollConflict, PollGivesUp, PollThrows, Polling,
         Refuse, Finish, TypeOK
<1>5. CASE Execute(r)
  BY <1>1, <1>5
     DEF Execute, Verify, HandleBeforeSettlement, Prepare, PrepareFails, Mark,
         MarkFails, ReadyToMark, Dispatch, SettlementSucceeds,
         SettlementUnresolved, HandleAfterSettlement, Deliver, Release,
         EndUnreleased, Refuse, Finish, Silent, TypeOK
<1> QED
  BY <1>2, <1>3, <1>4, <1>5 DEF Handle

LEMMA NextImplements ==
    ASSUME TypeOK, ResultInv, ResultInv', SettledOnce, SettledOnce',
           [Next]_vars
    PROVE  [Operation!Next]_(Operation!vars)
<1> SUFFICES \/ UNCHANGED <<Attempts, Charged, Delivered>>
             \/ \E b \in Bindings :
                  \/ /\ Attempts[b] = 0
                     /\ Attempts' = [Attempts EXCEPT ![b] = 1]
                     /\ UNCHANGED <<Charged, Delivered>>
                  \/ /\ Attempts[b] = 1
                     /\ b \notin Charged
                     /\ Charged' = Charged \cup {b}
                     /\ UNCHANGED <<Attempts, Delivered>>
                  \/ /\ b \in Charged
                     /\ Delivered' = Delivered \cup {b}
                     /\ UNCHANGED <<Attempts, Charged>>
  BY DEF Operation!Next, Operation!vars, Operation!Attempt, Operation!Charge,
         Operation!Deliver, Attempts, Charged, Delivered
<1>1. CASE Tick \/ Crash \/ UNCHANGED vars
  <2>1. bind' = bind /\ spend' = spend
    BY <1>1 DEF Tick, Crash, vars
  <2>2. \A r \in Requests : answer[r] \in {"paid", "replayed"}
                              <=> answer'[r] \in {"paid", "replayed"}
    BY <1>1 DEF Tick, Crash, vars, ResultInv, AnsweredIsDone
  <2> QED
    BY <2>1, <2>2, SameSpends, SameResults
<1>2. ASSUME NEW r \in Requests, Chain(r)
      PROVE  \/ UNCHANGED <<Attempts, Charged, Delivered>>
             \/ \E b \in Bindings : /\ Attempts[b] = 1
                                    /\ b \notin Charged
                                    /\ Charged' = Charged \cup {b}
                                    /\ UNCHANGED <<Attempts, Delivered>>
  BY <1>2, ChainImplements
<1>3. ASSUME NEW r \in Requests, Dispatch(r)
      PROVE  \E b \in Bindings : /\ Attempts[b] = 0
                                 /\ Attempts' = [Attempts EXCEPT ![b] = 1]
                                 /\ UNCHANGED <<Charged, Delivered>>
  BY <1>3, DispatchImplements DEF ResultInv, TypeOK
<1>4. ASSUME NEW r \in Requests, Handle(r), ~Dispatch(r)
      PROVE  \/ UNCHANGED <<Attempts, Charged, Delivered>>
             \/ \E b \in Bindings : /\ b \in Charged
                                    /\ Delivered' = Delivered \cup {b}
                                    /\ UNCHANGED <<Attempts, Charged>>
  <2>1. Attempts' = Attempts /\ Charged' = Charged
    BY <1>4, HandleAnswers, SameSpends
  <2> QED
    BY <1>4, <2>1, HandleAnswers, AnswerImplements DEF TypeOK
<1> QED
  BY <1>1, <1>2, <1>3, <1>4 DEF Next

\* The whole HTTP path, with its journal, crashes, expiry and faults, does
\* nothing to a credential that PaidOperation does not allow: one attempt, a
\* charge through it, then results (the safety of the refinement).
THEOREM PaidOperationImplemented ==
    ReuseWithinGrace /\ Spec => ImplementsPaidOperation
<1>1. TypeOK /\ ResultInv /\ ResultInv' /\ SettledOnce /\ SettledOnce'
        /\ [Next]_vars => [Operation!Next]_(Operation!vars)
  BY NextImplements
<1> QED
  BY <1>1, InitImplements, TypeCorrect, ResultInvHolds, SettledOnceHolds, PTL
     DEF Spec, ImplementsPaidOperation, Operation!Spec
==============================================================================
