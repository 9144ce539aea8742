--------------------------- MODULE ReplayStoreProofs ---------------------------
(***************************************************************************)
(* What the operations on the replay journal do, for every number of       *)
(* bindings, key epochs and every clock: the lemmas that the proofs about  *)
(* the HTTP requests and about the tool calls share.                       *)
(***************************************************************************)
EXTENDS ReplayStore, TLAPS

-----------------------------------------------------------------------------
(* The journal operations, as functions of the records they read.          *)

\* The parts of the invariant that speak of the file alone.
Sound(recs) ==
    /\ \A rec \in recs :
         rec.binding \in Dated => rec.expiresAt >= Until[rec.binding] + Grace
    /\ \A rec, other \in recs :
         Key[rec.binding] = Key[other.binding] => rec = other

Quarantining(rec) == rec.pending => rec.attempted

\* A record of binding c stays, and keeps refusing claims if it did.
Carries(old, new, c) ==
    \A rec \in old : rec.binding = c =>
        \E kept \in new : /\ kept.binding = c
                          /\ Quarantining(rec) => Quarantining(kept)

\* A reservation outlives the claim, and the validity of its binding.
LEMMA ExpiresAtBounds ==
    ASSUME NEW b \in Bindings, NEW t \in Nat
    PROVE  /\ ExpiresAt(b, t) \in Nat
           /\ ExpiresAt(b, t) > t
           /\ b \in Dated => ExpiresAt(b, t) >= Until[b] + Grace
BY JournalAssumption DEF ExpiresAt

\* Dropping the expired records keeps a sound journal sound.
LEMMA LiveRecords ==
    ASSUME NEW recs \in SUBSET Records, NEW t \in Nat
    PROVE  /\ Live(recs, t) \in SUBSET Records
           /\ Live(Live(recs, t), t) = Live(recs, t)
           /\ Sound(recs) => Sound(Live(recs, t))
BY DEF Live, Sound

\* claim's write: a new reservation for a binding nothing matches.
LEMMA ReservedRecords ==
    ASSUME NEW recs \in SUBSET Records, NEW t \in Nat, NEW b \in Bindings,
           Live(recs, t) = recs
    PROVE  /\ Reserved(recs, b, t) \in SUBSET Records
           /\ Live(Reserved(recs, b, t), t) = Reserved(recs, b, t)
           /\ Sound(recs) /\ Found(recs, b) = {} => Sound(Reserved(recs, b, t))
           /\ \A c \in Bindings : Carries(recs, Reserved(recs, b, t), c)
           /\ \E rec \in Reserved(recs, b, t) : rec.binding = b
<1> DEFINE new == ReservationOf(b, t)
<1>1. new \in Records /\ new.binding = b /\ new.expiresAt = ExpiresAt(b, t)
  BY ExpiresAtBounds DEF ReservationOf, Records
<1>2. Live(Reserved(recs, b, t), t) = Reserved(recs, b, t)
  BY <1>1, ExpiresAtBounds DEF Live, Reserved
<1>3. ASSUME Sound(recs), Found(recs, b) = {}
      PROVE  Sound(Reserved(recs, b, t))
  <2>1. \A rec \in recs : Key[rec.binding] # Key[b]
    BY <1>3 DEF Found, Matches
  <2> QED
    BY <1>1, <1>3, <2>1, ExpiresAtBounds DEF Sound, Reserved
<1>4. \A c \in Bindings : Carries(recs, Reserved(recs, b, t), c)
  BY DEF Carries, Reserved
<1> QED
  BY <1>1, <1>2, <1>3, <1>4 DEF Reserved

\* prepareHttp's write: only the bytes of b's reservation change.
LEMMA PreparedRecords ==
    ASSUME NEW recs \in SUBSET Records, NEW t \in Nat, NEW b \in Bindings,
           NEW r \in Requests, Live(recs, t) = recs
    PROVE  /\ Prepared(recs, b, r) \in SUBSET Records
           /\ Live(Prepared(recs, b, r), t) = Prepared(recs, b, r)
           /\ Sound(recs) => Sound(Prepared(recs, b, r))
           /\ \A c \in Bindings : Carries(recs, Prepared(recs, b, r), c)
<1> DEFINE image(rec) == [rec EXCEPT !.prepared = r]
<1>1. \A rec \in Records :
        /\ image(rec) \in Records
        /\ image(rec).binding = rec.binding
        /\ image(rec).expiresAt = rec.expiresAt
        /\ image(rec).pending = rec.pending
        /\ image(rec).attempted = rec.attempted
  BY DEF Records
<1>2. Prepared(recs, b, r) =
        (recs \ PendingOf(recs, b)) \cup {image(rec) : rec \in PendingOf(recs, b)}
  BY DEF Prepared
<1>3. PendingOf(recs, b) \subseteq recs
  BY DEF PendingOf
<1> HIDE DEF image
<1>4. Prepared(recs, b, r) \in SUBSET Records
  BY <1>1, <1>2, <1>3
<1>5. Live(Prepared(recs, b, r), t) = Prepared(recs, b, r)
  BY <1>1, <1>2, <1>3 DEF Live
<1>6. Sound(recs) => Sound(Prepared(recs, b, r))
  BY <1>1, <1>2, <1>3 DEF Sound
<1>7. \A c \in Bindings : Carries(recs, Prepared(recs, b, r), c)
  BY <1>1, <1>2, <1>3 DEF Carries, Quarantining
<1> QED
  BY <1>4, <1>5, <1>6, <1>7

\* markSettlementAttempt's write: b's reservation, if it is there, is in
\* quarantine afterwards, and nothing leaves quarantine.
LEMMA MarkedRecords ==
    ASSUME NEW recs \in SUBSET Records, NEW t \in Nat, NEW b \in Bindings,
           Live(recs, t) = recs
    PROVE  /\ MarkedSpend(recs, b) \in SUBSET Records
           /\ Live(MarkedSpend(recs, b), t) = MarkedSpend(recs, b)
           /\ Sound(recs) => Sound(MarkedSpend(recs, b))
           /\ \A c \in Bindings : Carries(recs, MarkedSpend(recs, b), c)
           /\ PendingOf(recs, b) # {} =>
                \E rec \in MarkedSpend(recs, b) :
                    rec.binding = b /\ Quarantining(rec)
<1> DEFINE image(rec) == [rec EXCEPT !.attempted = TRUE]
<1>1. \A rec \in Records :
        /\ image(rec) \in Records
        /\ image(rec).binding = rec.binding
        /\ image(rec).expiresAt = rec.expiresAt
        /\ image(rec).attempted
  BY DEF Records
<1>2. MarkedSpend(recs, b) =
        (recs \ PendingOf(recs, b)) \cup {image(rec) : rec \in PendingOf(recs, b)}
  BY DEF MarkedSpend
<1>3. \A rec \in PendingOf(recs, b) : rec \in recs /\ rec.binding = b
  BY DEF PendingOf
<1> HIDE DEF image
<1>4. MarkedSpend(recs, b) \in SUBSET Records
  BY <1>1, <1>2, <1>3
<1>5. Live(MarkedSpend(recs, b), t) = MarkedSpend(recs, b)
  BY <1>1, <1>2, <1>3 DEF Live
<1>6. Sound(recs) => Sound(MarkedSpend(recs, b))
  BY <1>1, <1>2, <1>3 DEF Sound
<1>7. \A c \in Bindings : Carries(recs, MarkedSpend(recs, b), c)
  BY <1>1, <1>2, <1>3 DEF Carries, Quarantining
<1>8. PendingOf(recs, b) # {} =>
        \E rec \in MarkedSpend(recs, b) : rec.binding = b /\ Quarantining(rec)
  BY <1>1, <1>2, <1>3 DEF Quarantining
<1> QED
  BY <1>4, <1>5, <1>6, <1>7, <1>8

\* release's write: only the reservation of b itself is removed.
LEMMA ReleasedRecords ==
    ASSUME NEW recs \in SUBSET Records, NEW t \in Nat, NEW b \in Bindings,
           Live(recs, t) = recs
    PROVE  /\ Released(recs, b) \in SUBSET Records
           /\ Live(Released(recs, b), t) = Released(recs, b)
           /\ Sound(recs) => Sound(Released(recs, b))
           /\ \A c \in Bindings \ {b} : Carries(recs, Released(recs, b), c)
<1>1. Released(recs, b) \subseteq recs
  BY DEF Released
<1>2. Live(Released(recs, b), t) = Released(recs, b)
  BY <1>1 DEF Live
<1>3. Sound(recs) => Sound(Released(recs, b))
  BY <1>1 DEF Sound
<1>4. \A c \in Bindings \ {b} : Carries(recs, Released(recs, b), c)
  BY DEF Carries, Released, PendingOf
<1> QED
  BY <1>1, <1>2, <1>3, <1>4

\* persistResponse's write: records under another key stay, and b's record
\* is the completed result.
LEMMA RetainedRecords ==
    ASSUME NEW recs \in SUBSET Records, NEW t \in Nat, NEW b \in Bindings,
           NEW r \in Requests \cup {NoRequest}, Live(recs, t) = recs
    PROVE  /\ Retained(recs, b, t, r) \in SUBSET Records
           /\ Live(Retained(recs, b, t, r), t) = Retained(recs, b, t, r)
           /\ Sound(recs) => Sound(Retained(recs, b, t, r))
           /\ \A c \in Bindings :
                Key[c] # Key[b] => Carries(recs, Retained(recs, b, t, r), c)
           /\ \E rec \in Retained(recs, b, t, r) :
                rec.binding = b /\ Quarantining(rec)
<1> DEFINE new == CompletedOf(b, t, r)
<1>1. /\ new \in Records
      /\ new.binding = b
      /\ new.expiresAt = ExpiresAt(b, t)
      /\ ~new.pending
  BY ExpiresAtBounds DEF CompletedOf, Records
<1> HIDE DEF new
<1>2. Retained(recs, b, t, r) =
        {rec \in recs : Key[rec.binding] # Key[b]} \cup {new}
  BY DEF Retained, new
<1>3. Retained(recs, b, t, r) \in SUBSET Records
  BY <1>1, <1>2
<1>4. Live(Retained(recs, b, t, r), t) = Retained(recs, b, t, r)
  BY <1>1, <1>2, ExpiresAtBounds DEF Live
<1>5. Sound(recs) => Sound(Retained(recs, b, t, r))
  BY <1>1, <1>2, ExpiresAtBounds DEF Sound
<1>6. \A c \in Bindings :
        Key[c] # Key[b] => Carries(recs, Retained(recs, b, t, r), c)
  BY <1>2 DEF Carries
<1>7. \E rec \in Retained(recs, b, t, r) : rec.binding = b /\ Quarantining(rec)
  BY <1>1, <1>2 DEF Quarantining
<1> QED
  BY <1>3, <1>4, <1>5, <1>6, <1>7

-----------------------------------------------------------------------------
(* One operation on the file, whether it succeeds or throws.               *)

StoreOK == disk \in Journals /\ now \in Nat /\ epoch \in Epochs

\* The file stays well typed and sound, and readers see either the records
\* of before or the ones the operation made of them.
LEMMA StoreStep ==
    ASSUME StoreOK, Sound(disk.recs), now' = now, NEW new \in SUBSET Records,
           Live(new, now) = new, Sound(new), Throws(new)
    PROVE  /\ disk' \in Journals
           /\ Sound(disk.recs)'
           /\ Recs' = Recs \/ Recs' = new
<1>1. CASE UNCHANGED disk
  BY <1>1 DEF StoreOK, Recs
<1>2. CASE Commit(new)
  <2>1. disk' = [epoch |-> epoch, recs |-> new]
    BY <1>2 DEF Commit
  <2>2. disk' \in Journals /\ disk'.recs = new
    BY <2>1 DEF StoreOK, Journals
  <2> QED
    BY <2>2 DEF Recs, Sound, Live
<1> QED
  BY <1>1, <1>2 DEF Throws

\* What an operation reads is typed, live, and as sound as the file.
LEMMA StoreRead ==
    ASSUME StoreOK
    PROVE  /\ Recs \in SUBSET Records
           /\ Live(Recs, now) = Recs
           /\ Sound(disk.recs) => Sound(Recs)
BY LiveRecords DEF StoreOK, Journals, Recs

\* An operation that writes recognises every record it read.
LEMMA CommitRecognises ==
    ASSUME NEW new, Commit(new)
    PROVE  Recognised = Recs
BY DEF Commit, ReadableNow, Readable, Recognised, Recs

\* The file stays well typed through any operation.
LEMMA StoreTyped ==
    ASSUME StoreOK, NEW new \in SUBSET Records, Throws(new)
    PROVE  disk' \in Journals
BY DEF StoreOK, Journals, Throws, Commit

-----------------------------------------------------------------------------
(* What each operation makes of the completed and the unmarked records.    *)

Completed(recs) == {rec \in recs : ~rec.pending}

\* The bindings with a reservation that carries no possible-spend marker.
Unmarked(recs) == {rec.binding : rec \in {x \in recs : x.pending /\ ~x.attempted}}

LEMMA ReservedContents ==
    ASSUME NEW recs, NEW b, NEW t
    PROVE  /\ Completed(Reserved(recs, b, t)) \subseteq Completed(recs)
           /\ Unmarked(Reserved(recs, b, t)) \subseteq Unmarked(recs) \cup {b}
BY DEF Completed, Unmarked, Reserved, ReservationOf

LEMMA PreparedContents ==
    ASSUME NEW recs \in SUBSET Records, NEW b, NEW r
    PROVE  /\ Completed(Prepared(recs, b, r)) \subseteq Completed(recs)
           /\ Unmarked(Prepared(recs, b, r)) \subseteq Unmarked(recs)
<1> DEFINE image(rec) == [rec EXCEPT !.prepared = r]
<1>1. \A rec \in Records : /\ image(rec).binding = rec.binding
                           /\ image(rec).pending = rec.pending
                           /\ image(rec).attempted = rec.attempted
  BY DEF Records
<1>2. Prepared(recs, b, r) =
        (recs \ PendingOf(recs, b)) \cup {image(rec) : rec \in PendingOf(recs, b)}
  BY DEF Prepared
<1>3. \A rec \in PendingOf(recs, b) : rec \in recs /\ rec.pending
  BY DEF PendingOf
<1> HIDE DEF image
<1> QED
  BY <1>1, <1>2, <1>3 DEF Completed, Unmarked

LEMMA MarkedContents ==
    ASSUME NEW recs \in SUBSET Records, NEW b
    PROVE  /\ Completed(MarkedSpend(recs, b)) \subseteq Completed(recs)
           /\ Unmarked(MarkedSpend(recs, b)) \subseteq Unmarked(recs) \ {b}
<1> DEFINE image(rec) == [rec EXCEPT !.attempted = TRUE]
<1>1. \A rec \in Records : /\ image(rec).binding = rec.binding
                           /\ image(rec).pending = rec.pending
                           /\ image(rec).attempted
  BY DEF Records
<1>2. MarkedSpend(recs, b) =
        (recs \ PendingOf(recs, b)) \cup {image(rec) : rec \in PendingOf(recs, b)}
  BY DEF MarkedSpend
<1>3. \A rec \in recs : rec \in PendingOf(recs, b)
                          <=> rec.binding = b /\ rec.pending
  BY DEF PendingOf
<1>4. PendingOf(recs, b) \subseteq recs
  BY DEF PendingOf
<1> HIDE DEF image
<1> QED
  BY <1>1, <1>2, <1>3, <1>4 DEF Completed, Unmarked

LEMMA ReleasedContents ==
    ASSUME NEW recs, NEW b
    PROVE  /\ Completed(Released(recs, b)) \subseteq Completed(recs)
           /\ Unmarked(Released(recs, b)) \subseteq Unmarked(recs) \ {b}
BY DEF Completed, Unmarked, Released, PendingOf

LEMMA RetainedContents ==
    ASSUME NEW recs, NEW b, NEW t, NEW r
    PROVE  /\ Completed(Retained(recs, b, t, r))
                \subseteq Completed(recs) \cup {CompletedOf(b, t, r)}
           /\ Unmarked(Retained(recs, b, t, r)) \subseteq Unmarked(recs)
BY DEF Completed, Unmarked, Retained, CompletedOf

\* A write replaces the file by what the operation made of the live records.
LEMMA FileAfter ==
    ASSUME NEW new, Throws(new)
    PROVE  /\ disk'.recs = disk.recs \/ disk'.recs = new
           /\ Recs \subseteq disk.recs
           /\ Completed(Recs) \subseteq Completed(disk.recs)
           /\ Unmarked(Recs) \subseteq Unmarked(disk.recs)
BY DEF Throws, Commit, Recs, Live, Completed, Unmarked
==============================================================================
