---------------------------- MODULE ReplayMcpProofs ----------------------------
(***************************************************************************)
(* Proofs about ReplayMcp for every number of tool calls, bindings and key *)
(* epochs, every clock and every bound of the memory.                      *)
(***************************************************************************)
EXTENDS ReplayMcp, ReplayStoreProofs, FiniteSetTheorems, WellFoundedInduction,
        SequenceTheorems

-----------------------------------------------------------------------------
(* The inductive invariants.                                               *)

\* The calls that keep a result until it is on disk.
Retaining(r) == phase[r] \in {"sweeping_to_retain", "storing", "dooming"}

\* What a step assumes of the call that takes it, besides the types.
TypeInv ==
    /\ TypeOK
    /\ \A r \in Requests : Sweeping(r) => todo[r] # <<>>
    /\ \A r \in Requests : Retaining(r) => held[r] \in Requests

\* The calls that own the reservation of their binding.
Running(r) ==
    phase[r] \in {"executing", "verified", "marking", "releasing", "settling"}
Claims(r) == Running(r) \/ Spent(r)

\* The bindings whose outcome the process still has in hand.
Names(mem) == {e.binding : e \in Range(mem.kept)} \cup Range(mem.doomed)
Known(b) ==
    \/ b \in Names(memory)
    \/ \E r \in Requests : b \in Range(todo[r]) \/ (Retaining(r) /\ bind[r] = b)

\* The bindings some call owns or will still write a record for.
Holds(b) == Known(b) \/ \E r \in Requests : Claims(r) /\ bind[r] = b

Guarded(b) == now < Until[b] + Grace
HasRecord(b) == \E rec \in Recs : rec.binding = b

HeldIsDated == 
    /\ \A b \in Bindings : Holds(b) => b \in Dated
    /\ \A r \in Requests : phase[r] = "claiming" => bind[r] \in Dated
HeldHasRecord == \A b \in Bindings : Holds(b) /\ Guarded(b) => HasRecord(b)
RunningHasNoOutcome == \A r \in Requests : Running(r) => ~Known(bind[r])
SoleClaimant ==
    \A r, q \in Requests : Claims(r) /\ Claims(q) /\ bind[r] = bind[q] => r = q
KeysApart ==
    \A b, c \in Bindings :
        Holds(b) /\ Holds(c) /\ b # c =>
            /\ Key[b] # Key[c]
            /\ Guarded(b) /\ Guarded(c) => ~Related(b, c)

SpendInv ==
    /\ Sound(disk.recs)
    /\ HeldIsDated
    /\ HeldHasRecord
    /\ RunningHasNoOutcome
    /\ SoleClaimant
    /\ KeysApart

\* The calls before their settlement have spent nothing.
Early == {"idle", "claiming", "executing", "verified", "marking", "releasing"}
UnspentInv == \A r \in Requests : phase[r] \in Early => ~Spent(r)

\* A result belongs to b when the call that produced it was for b, and is
\* past its settlement or was never settled.
Late == {"sweeping_to_retain", "storing", "dooming", "done"}
Final(q) == phase[q] \in Late /\ spend[q] \in {"none", "executed"}
Belongs(q, b) == q # NoRequest => q \in Requests /\ bind[q] = b /\ Final(q)

ResultInv ==
    /\ \A rec \in disk.recs : Belongs(rec.result, rec.binding)
    /\ \A e \in Range(memory.kept) : Belongs(e.result, e.binding)
    /\ \A r \in Requests : Retaining(r) => Belongs(held[r], bind[r])
    /\ \A r \in Requests : Belongs(served[r], bind[r])

-----------------------------------------------------------------------------
(* Sequences without some of their elements.                               *)

LEMMA NatMin ==
    ASSUME NEW T \in SUBSET Nat, T # {}
    PROVE  \E x \in T : \A y \in T : x <= y
<1> DEFINE R == {ss \in Nat \X Nat : ss[1] < ss[2]}
<1>1. IsWellFoundedOn(R, Nat)
  <2>1. R = OpToRel(<, Nat)
    BY DEF OpToRel
  <2> QED  BY <2>1, NatLessThanWellFounded
<1>2. \E x \in T : \A y \in T : <<y, x>> \notin R
  BY <1>1, WFMin
<1>3. \A x, y \in T : <<y, x>> \notin R => x <= y
  OBVIOUS
<1> QED  BY <1>2, <1>3

\* The elements of P up to i.
UpTo(P, i) == {j \in P : j <= i}

LEMMA UpToMembers ==
    ASSUME NEW P \in SUBSET Nat
    PROVE  \A i, j : j \in UpTo(P, i) <=> j \in P /\ j <= i
BY DEF UpTo

LEMMA PlacesExist ==
    ASSUME NEW P \in SUBSET Nat, IsFiniteSet(P), NEW n \in 1..Cardinality(P)
    PROVE  \E i \in P : Cardinality(UpTo(P, i)) = n
<1>1. Cardinality(P) \in Nat
  BY FS_CardinalityType
<1>2. \A i : IsFiniteSet(UpTo(P, i)) /\ UpTo(P, i) \subseteq P
  BY FS_Subset DEF UpTo
<1> DEFINE Bad == {m \in 1..Cardinality(P) : \A i \in P : Cardinality(UpTo(P, i)) # m}
<1>3. CASE Bad = {}
  BY <1>3
<1>4. CASE Bad # {}
  <2>1. Bad \in SUBSET Nat
    BY <1>1
  <2>2. PICK m \in Bad : \A k \in Bad : m <= k
    <3> HIDE DEF Bad
    <3> QED  BY <1>4, <2>1, NatMin
  <2>3. m \in 1..Cardinality(P) /\ \A i \in P : Cardinality(UpTo(P, i)) # m
    BY <2>2
  <2>4. \A k \in 1..Cardinality(P) : k < m => \E i \in P : Cardinality(UpTo(P, i)) = k
    BY <1>1, <2>2, <2>3
  <2> HIDE DEF Bad
  <2>5. CASE m = 1
    <3>1. P # {}
      BY <1>1, <2>3, FS_EmptySet
    <3>2. PICK i \in P : \A j \in P : i <= j
      BY <3>1, NatMin
    <3>3. UpTo(P, i) = {i}
      <4>1. \A j \in P : j \in Nat
        OBVIOUS
      <4>2. \A j \in P : j <= i <=> j = i
        BY <3>2, <4>1
      <4>3. \A j : j \in UpTo(P, i) <=> j = i
        BY <3>2, <4>2, UpToMembers
      <4> QED  BY <4>3
    <3> QED  BY <2>3, <2>5, <3>2, <3>3, FS_Singleton
  <2>6. CASE m # 1
    <3>1. m - 1 \in 1..Cardinality(P) /\ m - 1 < m
      BY <1>1, <2>3, <2>6
    <3>2. PICK i \in P : Cardinality(UpTo(P, i)) = m - 1
      BY <2>4, <3>1
    <3> DEFINE Above == {j \in P : j > i}
    <3>3. Above # {}
      <4>1. SUFFICES ASSUME Above = {} PROVE FALSE
        OBVIOUS
      <4>2. \A j \in P : j \in Nat /\ ~(j > i)
        BY <4>1
      <4>3. \A j \in P : j <= i
        BY <4>2
      <4>4. \A j : j \in UpTo(P, i) <=> j \in P
        BY <4>3, UpToMembers
      <4>5. UpTo(P, i) = P
        BY <4>4
      <4> QED  BY <1>1, <2>3, <3>2, <4>5
    <3>4. PICK k \in Above : \A j \in Above : k <= j
      <4>1. Above \in SUBSET Nat
        OBVIOUS
      <4> HIDE DEF Above
      <4> QED  BY <3>3, <4>1, NatMin
    <3>5. k \in P /\ k > i /\ \A j \in P : j > i => k <= j
      BY <3>4
    <3>6. UpTo(P, k) = UpTo(P, i) \cup {k} /\ k \notin UpTo(P, i)
      <4>1. \A j \in P : j \in Nat
        OBVIOUS
      <4>2. \A j \in P : j <= k <=> j <= i \/ j = k
        BY <3>5, <4>1
      <4>3. \A j : j \in UpTo(P, k) <=> j \in UpTo(P, i) \/ j = k
        BY <3>5, <4>2, UpToMembers
      <4>4. ~(k <= i)
        BY <3>5, <4>1
      <4> QED  BY <4>3, <4>4, UpToMembers
    <3>7. Cardinality(UpTo(P, k)) = Cardinality(UpTo(P, i)) + 1
      BY <1>2, <3>6, FS_AddElement
    <3> QED  BY <2>3, <3>1, <3>2, <3>5, <3>7
  <2> QED  BY <2>5, <2>6
<1> QED  BY <1>3, <1>4

\* Place is a bijection of the numbers and P.
LEMMA PlaceFacts ==
    ASSUME NEW P \in SUBSET Nat, IsFiniteSet(P)
    PROVE  /\ \A n \in 1..Cardinality(P) : Place(P, n) \in P
           /\ \A i \in P : \E n \in 1..Cardinality(P) : Place(P, n) = i
<1>1. \A i : IsFiniteSet(UpTo(P, i)) /\ UpTo(P, i) \subseteq P
  BY FS_Subset DEF UpTo
<1>2. ASSUME NEW n \in 1..Cardinality(P)
      PROVE  Place(P, n) \in P /\ Cardinality(UpTo(P, Place(P, n))) = n
  <2>1. \E i \in P : Cardinality({j \in P : j <= i}) = n
    BY PlacesExist DEF UpTo
  <2> QED  BY <2>1 DEF Place, UpTo
<1>3. ASSUME NEW i \in P PROVE Cardinality(UpTo(P, i)) \in 1..Cardinality(P)
  <2>1. i \in UpTo(P, i)
    BY DEF UpTo
  <2>2. Cardinality(UpTo(P, i)) # 0
    BY <1>1, <2>1, FS_EmptySet
  <2>3. Cardinality(UpTo(P, i)) \in Nat /\ Cardinality(P) \in Nat /\ Cardinality(UpTo(P, i)) <= Cardinality(P)
    BY <1>1, FS_Subset, FS_CardinalityType
  <2> QED  BY <2>2, <2>3
<1>4. ASSUME NEW i \in P, NEW k \in P, i < k PROVE Cardinality(UpTo(P, i)) # Cardinality(UpTo(P, k))
  <2>1. UpTo(P, i) \subseteq UpTo(P, k) /\ k \in UpTo(P, k) /\ k \notin UpTo(P, i)
    <3>1. \A j \in P : j \in Nat
      OBVIOUS
    <3>2. ~(k <= i) /\ k <= k /\ \A j \in P : j <= i => j <= k
      BY <1>4, <3>1
    <3> QED  BY <3>2, UpToMembers
  <2>2. UpTo(P, i) # UpTo(P, k)
    BY <2>1
  <2> QED  BY <1>1, <2>1, <2>2, FS_Subset
<1>5. ASSUME NEW i \in P PROVE Place(P, Cardinality(UpTo(P, i))) = i
  <2> DEFINE k == Place(P, Cardinality(UpTo(P, i)))
  <2>1. k \in P /\ Cardinality(UpTo(P, k)) = Cardinality(UpTo(P, i))
    BY <1>2, <1>3
  <2>2. i \in Nat /\ k \in Nat
    BY <2>1
  <2> QED  BY <1>4, <2>1, <2>2
<1> QED  BY <1>2, <1>3, <1>5

\* What is selected are the elements at the places.
LEMMA SelectedFacts ==
    ASSUME NEW T, NEW s \in Seq(T), NEW P \in SUBSET DOMAIN s
    PROVE  /\ Selected(s, P) \in Seq(T)
           /\ Len(Selected(s, P)) \in Nat /\ Len(Selected(s, P)) <= Len(s)
           /\ P # DOMAIN s => Len(Selected(s, P)) < Len(s)
           /\ Range(Selected(s, P)) = {s[i] : i \in P}
<1>1. DOMAIN s = 1..Len(s) /\ Len(s) \in Nat /\ P \in SUBSET Nat
  OBVIOUS
<1>2. /\ IsFiniteSet(P) /\ Cardinality(P) \in Nat /\ Cardinality(P) <= Len(s)
      /\ P # DOMAIN s => Cardinality(P) < Len(s)
  <2>1. IsFiniteSet(1..Len(s)) /\ Cardinality(1..Len(s)) = Len(s)
    BY <1>1, FS_Interval
  <2> QED  BY <1>1, <2>1, FS_Subset, FS_CardinalityType
<1>3. \A n \in 1..Cardinality(P) : Place(P, n) \in P
  BY <1>1, <1>2, PlaceFacts
<1>4. Selected(s, P) = [n \in 1..Cardinality(P) |-> s[Place(P, n)]]
  BY DEF Selected
<1>5. Selected(s, P) \in Seq(T) /\ Len(Selected(s, P)) = Cardinality(P)
  <2>1. \A n \in 1..Cardinality(P) : s[Place(P, n)] \in T
    BY <1>1, <1>3
  <2> QED  BY <1>2, <1>4, <2>1
<1>6. Range(Selected(s, P)) = {s[i] : i \in P}
  <2>1. \A i \in P : \E n \in 1..Cardinality(P) : Place(P, n) = i
    BY <1>1, <1>2, PlaceFacts
  <2>2. DOMAIN Selected(s, P) = 1..Cardinality(P)
    BY <1>4
  <2>3. Range(Selected(s, P)) = {s[Place(P, n)] : n \in 1..Cardinality(P)}
    BY <1>4, <2>2 DEF Range
  <2> QED  BY <1>3, <2>1, <2>3
<1> QED  BY <1>2, <1>5, <1>6

LEMMA RangeMembers ==
    ASSUME NEW T, NEW s \in Seq(T)
    PROVE  /\ Range(s) \subseteq T
           /\ \A x : x \in Range(s) <=> \E i \in 1..Len(s) : s[i] = x
           /\ s = <<>> => Range(s) = {}
           /\ s # <<>> => Head(s) \in Range(s)
BY DEF Range

LEMMA RangeWithin ==
    ASSUME NEW T, NEW s \in Seq(T), NEW S, \A i \in 1..Len(s) : s[i] \in S
    PROVE  Range(s) \subseteq S
BY RangeMembers

LEMMA TailFacts ==
    ASSUME NEW T, NEW s \in Seq(T), s # <<>>
    PROVE  /\ Head(s) \in T /\ Tail(s) \in Seq(T)
           /\ Range(Tail(s)) \subseteq Range(s)
           /\ Len(s) > 1 => Tail(s) # <<>>
<1>1. /\ Head(s) \in T /\ Tail(s) \in Seq(T) /\ Len(Tail(s)) = Len(s) - 1
      /\ \A i \in 1..Len(Tail(s)) : Tail(s)[i] = s[i + 1]
  BY HeadTailProperties
<1>2. \A i \in 1..Len(Tail(s)) : i + 1 \in 1..Len(s)
  BY <1>1
<1>3. Range(Tail(s)) \subseteq Range(s)
  <2>1. \A i \in 1..Len(s) : s[i] \in Range(s)
    BY RangeMembers
  <2>2. \A i \in 1..Len(Tail(s)) : Tail(s)[i] \in Range(s)
    BY <1>1, <1>2, <2>1
  <2> QED  BY <1>1, <2>2, RangeWithin
<1>4. Len(s) > 1 => Tail(s) # <<>>
  <2>1. Len(s) > 1 => Len(Tail(s)) # 0
    BY <1>1
  <2>2. Len(<<>>) = 0
    OBVIOUS
  <2> QED  BY <2>1, <2>2
<1> QED  BY <1>1, <1>3, <1>4

LEMMA ConcatFacts ==
    ASSUME NEW T, NEW s \in Seq(T), NEW t \in Seq(T)
    PROVE  /\ s \o t \in Seq(T)
           /\ Len(s \o t) = Len(s) + Len(t)
           /\ Range(s \o t) = Range(s) \cup Range(t)
BY ConcatProperties, RangeConcatenation

LEMMA AppendFacts ==
    ASSUME NEW T, NEW s \in Seq(T), NEW x \in T
    PROVE  /\ Append(s, x) \in Seq(T)
           /\ Len(Append(s, x)) = Len(s) + 1
           /\ Range(Append(s, x)) = Range(s) \cup {x}
<1>1. Append(s, x) = s \o <<x>> /\ <<x>> \in Seq(T)
  BY AppendIsConcat
<1>2. Range(<<x>>) = {x} /\ Len(<<x>>) = 1
  BY DEF Range
<1>3. /\ s \o <<x>> \in Seq(T)
      /\ Len(s \o <<x>>) = Len(s) + Len(<<x>>)
      /\ Range(s \o <<x>>) = Range(s) \cup Range(<<x>>)
  BY <1>1, ConcatFacts
<1> QED  BY <1>1, <1>2, <1>3

\* A sequence is its first n elements and the others.
LEMMA SplitFacts ==
    ASSUME NEW T, NEW s \in Seq(T), NEW n \in 0..Len(s)
    PROVE  /\ SubSeq(s, 1, n) \in Seq(T) /\ Len(SubSeq(s, 1, n)) = n
           /\ SubSeq(s, n + 1, Len(s)) \in Seq(T)
           /\ Len(SubSeq(s, n + 1, Len(s))) = Len(s) - n
           /\ Range(s) = Range(SubSeq(s, 1, n)) \cup Range(SubSeq(s, n + 1, Len(s)))
<1> DEFINE u == SubSeq(s, 1, n)
           v == SubSeq(s, n + 1, Len(s))
<1>1. /\ u \in Seq(T) /\ Len(u) = n
      /\ \A i \in 1..n : u[i] = s[i]
  BY SubSeqProperties
<1>2. /\ v \in Seq(T) /\ Len(v) = Len(s) - n
      /\ \A i \in 1..(Len(s) - n) : v[i] = s[n + i]
  BY SubSeqProperties
<1> HIDE DEF u, v
<1>3. \A i \in 1..n : i \in 1..Len(s)
  OBVIOUS
<1>4. \A i \in 1..(Len(s) - n) : n + i \in 1..Len(s)
  OBVIOUS
<1>5. Range(u) \subseteq Range(s) /\ Range(v) \subseteq Range(s)
  <2>1. \A i \in 1..Len(s) : s[i] \in Range(s)
    BY RangeMembers
  <2>2. \A i \in 1..Len(u) : u[i] \in Range(s)
    BY <1>1, <1>3, <2>1
  <2>3. \A i \in 1..Len(v) : v[i] \in Range(s)
    BY <1>2, <1>4, <2>1
  <2> QED  BY <1>1, <1>2, <2>2, <2>3, RangeWithin
<1>6. ASSUME NEW i \in 1..Len(s) PROVE s[i] \in Range(u) \cup Range(v)
  <2>1. CASE i <= n
    BY <1>1, <2>1, RangeMembers
  <2>2. CASE i > n
    <3>1. i - n \in 1..(Len(s) - n) /\ n + (i - n) = i
      BY <2>2
    <3> QED  BY <1>2, <3>1, RangeMembers
  <2> QED  BY <2>1, <2>2
<1>7. Range(s) \subseteq Range(u) \cup Range(v)
  BY <1>6, RangeMembers
<1> QED  BY <1>1, <1>2, <1>5, <1>7 DEF u, v

-----------------------------------------------------------------------------
(* The memory: what its operations keep, add and lose.                     *)

MemOK(mem, n) ==
    /\ mem \in [kept : Seq(Kept), doomed : Seq(Bindings)]
    /\ Len(mem.kept) <= n
    /\ Len(mem.doomed) <= MaxEntries

\* The doomed map is at its cap without b.
Crowds(mem, b) == b \notin Range(mem.doomed) /\ Len(mem.doomed) = MaxEntries

LEMMA OtherKeptFacts ==
    ASSUME NEW kept \in Seq(Kept), NEW b
    PROVE  /\ OtherKept(kept, b) \in Seq(Kept)
           /\ Len(OtherKept(kept, b)) <= Len(kept)
           /\ Range(OtherKept(kept, b)) = {e \in Range(kept) : Key[e.binding] # Key[b]}
<1> DEFINE P == {i \in DOMAIN kept : Key[kept[i].binding] # Key[b]}
<1>1. /\ Selected(kept, P) \in Seq(Kept)
      /\ Len(Selected(kept, P)) <= Len(kept)
      /\ Range(Selected(kept, P)) = {kept[i] : i \in P}
  BY SelectedFacts
<1>2. {kept[i] : i \in P} = {e \in Range(kept) : Key[e.binding] # Key[b]}
  BY DEF Range
<1> QED  BY <1>1, <1>2 DEF OtherKept

LEMMA OtherDoomedFacts ==
    ASSUME NEW doomed \in Seq(Bindings), NEW b
    PROVE  /\ OtherDoomed(doomed, b) \in Seq(Bindings)
           /\ Len(OtherDoomed(doomed, b)) <= Len(doomed)
           /\ Range(OtherDoomed(doomed, b)) = {c \in Range(doomed) : Key[c] # Key[b]}
<1> DEFINE P == {i \in DOMAIN doomed : Key[doomed[i]] # Key[b]}
<1>1. /\ Selected(doomed, P) \in Seq(Bindings)
      /\ Len(Selected(doomed, P)) <= Len(doomed)
      /\ Range(Selected(doomed, P)) = {doomed[i] : i \in P}
  BY SelectedFacts
<1>2. {doomed[i] : i \in P} = {c \in Range(doomed) : Key[c] # Key[b]}
  BY DEF Range
<1> QED  BY <1>1, <1>2 DEF OtherDoomed

LEMMA NewestFacts ==
    ASSUME NEW doomed \in Seq(Bindings)
    PROVE  /\ Newest(doomed) \in Seq(Bindings)
           /\ Len(Newest(doomed)) <= MaxEntries
           /\ Range(Newest(doomed)) \subseteq Range(doomed)
           /\ Newest(doomed) = doomed \/ Len(Newest(doomed)) = MaxEntries
<1>1. MaxEntries \in Nat /\ Len(doomed) \in Nat
  BY JournalAssumption
<1>2. CASE Len(doomed) > MaxEntries
  <2>1. Len(doomed) - MaxEntries \in 0..Len(doomed)
    BY <1>1, <1>2
  <2>2. Newest(doomed) = SubSeq(doomed, (Len(doomed) - MaxEntries) + 1, Len(doomed))
    BY <1>2 DEF Newest
  <2>3. /\ Newest(doomed) \in Seq(Bindings)
        /\ Len(Newest(doomed)) = Len(doomed) - (Len(doomed) - MaxEntries)
        /\ Range(Newest(doomed)) \subseteq Range(doomed)
    BY <2>1, <2>2, SplitFacts
  <2> QED  BY <1>1, <2>3
<1>3. CASE ~(Len(doomed) > MaxEntries)
  BY <1>1, <1>3 DEF Newest
<1> QED  BY <1>2, <1>3

\* What is lost is remembered, and so is what was, unless it shares the key
\* of something lost now or falls out at the cap.
LEMMA RememberFacts ==
    ASSUME NEW doomed \in Seq(Bindings), NEW lost \in Seq(Bindings)
    PROVE  /\ Remember(doomed, lost) \in Seq(Bindings)
           /\ Len(Remember(doomed, lost)) <= MaxEntries
           /\ Range(Remember(doomed, lost)) \subseteq Range(doomed) \cup Range(lost)
           /\ \A b \in Range(doomed) \cup Range(lost) :
                \/ b \in Range(Remember(doomed, lost))
                \/ Len(Remember(doomed, lost)) = MaxEntries
                \/ \E c \in Range(lost) : c # b /\ Key[c] = Key[b]
<1> DEFINE P == {i \in DOMAIN doomed : \A n \in DOMAIN lost : Key[lost[n]] # Key[doomed[i]]}
           others == Selected(doomed, P)
           full == others \o lost
<1>1. others \in Seq(Bindings) /\ Range(others) = {doomed[i] : i \in P}
  BY SelectedFacts
<1>2. full \in Seq(Bindings) /\ Range(full) = {doomed[i] : i \in P} \cup Range(lost)
  <2> HIDE DEF others, P
  <2> QED  BY <1>1, ConcatFacts
<1>3. {doomed[i] : i \in P} \subseteq Range(doomed)
  BY DEF Range
<1>4. \A b \in Range(doomed) :
        \/ b \in {doomed[i] : i \in P} \cup Range(lost)
        \/ \E c \in Range(lost) : c # b /\ Key[c] = Key[b]
  BY DEF Range
<1>5. Remember(doomed, lost) = Newest(full)
  BY DEF Remember
<1> HIDE DEF full, others, P
<1>6. /\ Newest(full) \in Seq(Bindings)
      /\ Len(Newest(full)) <= MaxEntries
      /\ Range(Newest(full)) \subseteq Range(full)
      /\ Newest(full) = full \/ Len(Newest(full)) = MaxEntries
  BY <1>2, NewestFacts
<1> QED  BY <1>2, <1>3, <1>4, <1>5, <1>6

LEMMA HoldFacts ==
    ASSUME NEW mem, MemOK(mem, MaxKept), NEW b \in Bindings, NEW q \in Requests,
           now \in Nat
    PROVE  /\ MemOK(Hold(mem, b, q), MaxKept + 1)
           /\ Range(Hold(mem, b, q).kept) \subseteq Range(mem.kept) \cup {KeptEntry(b, q)}
           /\ Names(Hold(mem, b, q)) \subseteq Names(mem) \cup {b}
           /\ b \in Names(Hold(mem, b, q))
           /\ \A c \in Names(mem) : Key[c] # Key[b] => c \in Names(Hold(mem, b, q))
<1> DEFINE entry == KeptEntry(b, q)
           others == OtherKept(mem.kept, b)
           doomed == OtherDoomed(mem.doomed, b)
<1>1. mem.kept \in Seq(Kept) /\ mem.doomed \in Seq(Bindings)
  BY DEF MemOK
<1>2. entry \in Kept /\ entry.binding = b
  BY ExpiresAtBounds DEF KeptEntry, Kept
<1>3. /\ others \in Seq(Kept) /\ Len(others) <= Len(mem.kept)
      /\ Range(others) = {e \in Range(mem.kept) : Key[e.binding] # Key[b]}
  BY <1>1, OtherKeptFacts
<1>4. /\ doomed \in Seq(Bindings) /\ Len(doomed) <= Len(mem.doomed)
      /\ Range(doomed) = {c \in Range(mem.doomed) : Key[c] # Key[b]}
  BY <1>1, OtherDoomedFacts
<1>5. Hold(mem, b, q) = [kept |-> Append(others, entry), doomed |-> doomed]
  BY DEF Hold
<1> HIDE DEF entry, others, doomed
<1>6. /\ Append(others, entry) \in Seq(Kept)
      /\ Len(Append(others, entry)) = Len(others) + 1
      /\ Range(Append(others, entry)) = Range(others) \cup {entry}
  BY <1>2, <1>3, AppendFacts
<1>7. Hold(mem, b, q).kept = Append(others, entry) /\ Hold(mem, b, q).doomed = doomed
  BY <1>5
<1>8. MemOK(Hold(mem, b, q), MaxKept + 1)
  <2>1. /\ MaxKept \in Nat /\ MaxEntries \in Nat
        /\ Len(others) \in Nat /\ Len(mem.kept) \in Nat /\ Len(mem.kept) <= MaxKept
        /\ Len(doomed) \in Nat /\ Len(mem.doomed) \in Nat /\ Len(mem.doomed) <= MaxEntries
    BY <1>1, <1>3, <1>4, MemoryAssumption, JournalAssumption DEF MemOK
  <2>2. Hold(mem, b, q) \in [kept : Seq(Kept), doomed : Seq(Bindings)]
    BY <1>4, <1>5, <1>6
  <2> QED  BY <1>3, <1>4, <1>6, <1>7, <2>1, <2>2 DEF MemOK
<1>9. Range(Hold(mem, b, q).kept) \subseteq Range(mem.kept) \cup {entry}
  BY <1>3, <1>6, <1>7
<1>10. Names(Hold(mem, b, q)) =
         {e.binding : e \in Range(others) \cup {entry}} \cup Range(doomed)
  BY <1>6, <1>7 DEF Names
<1>11. /\ Names(Hold(mem, b, q)) \subseteq Names(mem) \cup {b}
       /\ b \in Names(Hold(mem, b, q))
       /\ \A c \in Names(mem) : Key[c] # Key[b] => c \in Names(Hold(mem, b, q))
  BY <1>2, <1>3, <1>4, <1>10 DEF Names
<1> QED  BY <1>8, <1>9, <1>11 DEF entry

\* Nothing is lost but what falls out of the doomed map at its cap.
LEMMA PruneFacts ==
    ASSUME NEW mem, MemOK(mem, MaxKept + 1), now \in Nat
    PROVE  /\ MemOK(Prune(mem), MaxKept)
           /\ Range(Prune(mem).kept) \subseteq Range(mem.kept)
           /\ Names(Prune(mem)) \subseteq Names(mem)
           /\ \A b \in Names(mem) :
                \/ b \in Names(Prune(mem))
                \/ Crowds(Prune(mem), b)
                \/ \E c \in Names(mem) : c # b /\ Key[c] = Key[b]
<1> DEFINE dead == {i \in DOMAIN mem.kept : mem.kept[i].expiresAt <= now}
           alive == {i \in DOMAIN mem.kept : mem.kept[i].expiresAt > now}
           gone == Selected(mem.kept, dead)
           rest == Selected(mem.kept, alive)
           over == Excess(rest)
           first == SubSeq(rest, 1, over)
           last == SubSeq(rest, over + 1, Len(rest))
           lost == gone \o first
           names == [n \in DOMAIN lost |-> lost[n].binding]
           doomed == Remember(mem.doomed, names)
<1>1. mem.kept \in Seq(Kept) /\ mem.doomed \in Seq(Bindings) /\ Len(mem.kept) <= MaxKept + 1
  BY DEF MemOK
<1>2. Prune(mem) = [kept |-> last, doomed |-> doomed]
  BY DEF Prune
<1>3. /\ gone \in Seq(Kept) /\ Range(gone) = {mem.kept[i] : i \in dead}
      /\ rest \in Seq(Kept) /\ Range(rest) = {mem.kept[i] : i \in alive}
      /\ Len(rest) <= Len(mem.kept)
  BY <1>1, SelectedFacts
<1>4. Range(mem.kept) = Range(gone) \cup Range(rest)
  <2>1. \A i \in DOMAIN mem.kept : mem.kept[i] \in Kept
    BY <1>1
  <2>2. \A i \in DOMAIN mem.kept : mem.kept[i].expiresAt \in Nat
    BY <2>1 DEF Kept
  <2>3. \A i \in DOMAIN mem.kept : i \in dead \/ i \in alive
    BY <2>2
  <2> HIDE DEF dead, alive
  <2>4. dead \subseteq DOMAIN mem.kept /\ alive \subseteq DOMAIN mem.kept
    BY DEF dead, alive
  <2>5. Range(mem.kept) = {mem.kept[i] : i \in DOMAIN mem.kept}
    BY DEF Range
  <2> QED  BY <1>3, <2>3, <2>4, <2>5
<1> HIDE DEF dead, alive, gone, rest
<1>5. over \in 0..Len(rest) /\ Len(rest) - over <= MaxKept
  <2>1. MaxKept \in Nat /\ Len(rest) \in Nat
    BY <1>3, MemoryAssumption, JournalAssumption
  <2> QED  BY <2>1 DEF Excess
<1> HIDE DEF over
<1>6. /\ first \in Seq(Kept) /\ last \in Seq(Kept) /\ Len(last) <= MaxKept
      /\ Range(rest) = Range(first) \cup Range(last)
  BY <1>3, <1>5, SplitFacts
<1> HIDE DEF first, last
<1>7. lost \in Seq(Kept) /\ Range(lost) = Range(gone) \cup Range(first)
  BY <1>3, <1>6, ConcatFacts
<1> HIDE DEF lost
<1>8. names \in Seq(Bindings) /\ Range(names) = {e.binding : e \in Range(lost)}
  <2>1. DOMAIN lost = 1..Len(lost) /\ \A n \in DOMAIN lost : lost[n] \in Kept
    BY <1>7
  <2>2. \A n \in DOMAIN lost : lost[n].binding \in Bindings
    BY <2>1 DEF Kept
  <2>3. names \in Seq(Bindings)
    BY <1>7, <2>1, <2>2
  <2>4. DOMAIN names = DOMAIN lost /\ \A n \in DOMAIN lost : names[n] = lost[n].binding
    OBVIOUS
  <2> HIDE DEF names
  <2>5. Range(names) = {e.binding : e \in Range(lost)}
    BY <2>4 DEF Range
  <2> QED  BY <2>3, <2>5
<1> HIDE DEF names
<1>9. /\ doomed \in Seq(Bindings)
      /\ Len(doomed) <= MaxEntries
      /\ Range(doomed) \subseteq Range(mem.doomed) \cup Range(names)
      /\ \A b \in Range(mem.doomed) \cup Range(names) :
           \/ b \in Range(doomed)
           \/ Len(doomed) = MaxEntries
           \/ \E c \in Range(names) : c # b /\ Key[c] = Key[b]
  BY <1>1, <1>8, RememberFacts
<1> HIDE DEF doomed
<1>10. Prune(mem).kept = last /\ Prune(mem).doomed = doomed
  BY <1>2
<1>11. MemOK(Prune(mem), MaxKept)
  BY <1>2, <1>6, <1>9 DEF MemOK
<1>12. Range(Prune(mem).kept) \subseteq Range(mem.kept)
  BY <1>4, <1>6, <1>10
<1>13. Range(mem.kept) = Range(lost) \cup Range(last)
  BY <1>4, <1>6, <1>7
<1>14. Names(mem) = {e.binding : e \in Range(last)} \cup Range(names) \cup Range(mem.doomed)
  BY <1>8, <1>13 DEF Names
<1>15. Names(Prune(mem)) = {e.binding : e \in Range(last)} \cup Range(doomed)
  BY <1>10 DEF Names
<1>16. Names(Prune(mem)) \subseteq Names(mem)
  BY <1>9, <1>14, <1>15
<1>17. \A b \in Names(mem) :
         \/ b \in Names(Prune(mem))
         \/ Crowds(Prune(mem), b)
         \/ \E c \in Names(mem) : c # b /\ Key[c] = Key[b]
  BY <1>9, <1>10, <1>14, <1>15 DEF Crowds
<1> QED  BY <1>11, <1>12, <1>16, <1>17

LEMMA RetainFacts ==
    ASSUME NEW mem, MemOK(mem, MaxKept), NEW b \in Bindings, NEW q \in Requests,
           now \in Nat
    PROVE  LET new == Prune(Hold(mem, b, q)) IN
           /\ MemOK(new, MaxKept)
           /\ Range(new.kept) \subseteq Range(mem.kept) \cup {KeptEntry(b, q)}
           /\ Names(new) \subseteq Names(mem) \cup {b}
           /\ \A c \in Names(mem) \cup {b} :
                \/ c \in Names(new)
                \/ Crowds(new, c)
                \/ \E d \in Names(mem) \cup {b} : d # c /\ Key[d] = Key[c]
<1> DEFINE old == Hold(mem, b, q)
           new == Prune(old)
<1>1. /\ MemOK(old, MaxKept + 1)
      /\ Range(old.kept) \subseteq Range(mem.kept) \cup {KeptEntry(b, q)}
      /\ Names(old) \subseteq Names(mem) \cup {b}
      /\ b \in Names(old)
      /\ \A c \in Names(mem) : Key[c] # Key[b] => c \in Names(old)
  BY HoldFacts
<1> HIDE DEF old
<1>2. /\ MemOK(new, MaxKept)
      /\ Range(new.kept) \subseteq Range(old.kept)
      /\ Names(new) \subseteq Names(old)
      /\ \A c \in Names(old) :
           \/ c \in Names(new)
           \/ Crowds(new, c)
           \/ \E d \in Names(old) : d # c /\ Key[d] = Key[c]
  BY <1>1, PruneFacts
<1> HIDE DEF new
<1>3. \A c \in Names(mem) \cup {b} : c \in Names(old) \/ (c # b /\ Key[c] = Key[b])
  BY <1>1
<1>4. \A c \in Names(mem) \cup {b} :
        \/ c \in Names(new)
        \/ Crowds(new, c)
        \/ \E d \in Names(mem) \cup {b} : d # c /\ Key[d] = Key[c]
  BY <1>1, <1>2, <1>3
<1>5. /\ Range(new.kept) \subseteq Range(mem.kept) \cup {KeptEntry(b, q)}
      /\ Names(new) \subseteq Names(mem) \cup {b}
  BY <1>1, <1>2
<1> QED  BY <1>2, <1>4, <1>5 DEF new, old

-----------------------------------------------------------------------------
(* What a step of a call may do, whatever its action.                      *)

NoneOrCall == Requests \cup {NoRequest}

\* Only the entries of r change, and they keep their types.
OwnStep(r) ==
    /\ queue' \in Seq(Requests)
    /\ phase' \in [Requests -> Phases]
    /\ held' \in [Requests -> NoneOrCall]
    /\ todo' \in [Requests -> Seq(Bindings)]
    /\ answer' \in [Requests -> Answers]
    /\ served' \in [Requests -> NoneOrCall]
    /\ \A q \in Requests \ {r} :
         /\ phase'[q] = phase[q] /\ held'[q] = held[q] /\ todo'[q] = todo[q]
         /\ served'[q] = served[q] /\ answer'[q] = answer[q]

\* The execution is over, and its outcome is kept from now on.
Ends(r) == phase[r] = "verified" \/ (phase[r] = "settling" /\ spend[r] = "executed")
Concludes(r) == Ends(r) /\ phase'[r] \in Late

\* The bindings whose outcome r learned, keeps or is about to write.
Mine(r) == IF Retaining(r) \/ Concludes(r) THEN {bind[r]} ELSE {}
Knew(r) == Names(memory) \cup Range(todo[r]) \cup Mine(r)
Knows(r) == Names(memory') \cup Range(todo'[r]) \cup (IF Retaining(r)' THEN {bind[r]} ELSE {})

\* Where r has the result q from.
Source(r, q) ==
    \/ q = NoRequest
    \/ Concludes(r) /\ q = r
    \/ Retaining(r) /\ q = held[r]
    \/ \E e \in Range(memory.kept) : e.binding = bind[r] /\ e.result = q
    \/ \E rec \in Recs : rec.binding = bind[r] /\ rec.result = q

\* The results r handles come from somewhere, and only one at a time.
Passes(r, q) ==
    /\ Source(r, q)
    /\ \A e \in Range(memory'.kept) :
         e \in Range(memory.kept) \/ (e.binding = bind[r] /\ e.result = q)
    /\ Retaining(r)' => held'[r] = q
    /\ served'[r] \in {served[r], NoRequest, q}

\* The journal got a completed record under the key of b.
Overwrites(b) ==
    \E c \in Bindings, q \in NoneOrCall :
        Key[c] = Key[b] /\ Commit(Retained(Recs, c, now, q))

\* What was in memory is still there, or on disk, or was crowded out.
Preserves(r) ==
    \A b \in Names(memory) :
        \/ b \in Names(memory')
        \/ Crowds(memory', b)
        \/ Overwrites(b)
        \/ \E c \in Knew(r) : c # b /\ Key[c] = Key[b]

Turn(r) ==
    /\ now' = now /\ epoch' = epoch /\ bind' = bind
    /\ OwnStep(r)
    /\ MemOK(memory', MaxKept)
    /\ Sweeping(r)' => todo'[r] # <<>>
    /\ Retaining(r)' => held'[r] \in Requests
    /\ Knows(r) \subseteq Knew(r)
    /\ Preserves(r)
    /\ \E q \in NoneOrCall : Passes(r, q)

LEMMA OthersTyped ==
    ASSUME TypeOK, NEW r \in Requests
    PROVE  Others(r) \in Seq(Requests) /\ Append(Others(r), r) \in Seq(Requests)
<1>1. Others(r) \in Seq(Requests)
  BY HeadTailProperties DEF TypeOK, Others, Serving
<1> QED  BY <1>1, AppendProperties

\* The end of a call.
LEMMA FinishStep ==
    ASSUME TypeOK, NEW r \in Requests, NEW a \in Answers, NEW q \in NoneOrCall,
           Finish(r, a, q)
    PROVE  /\ OwnStep(r)
           /\ phase'[r] = "done" /\ served'[r] = q /\ answer'[r] = a
           /\ todo' = todo /\ held' = held
<1>1. queue' \in Seq(Requests)
  BY OthersTyped DEF Finish, Leave
<1>2. "done" \in Phases
  BY DEF Phases
<1>3. /\ phase' = [phase EXCEPT ![r] = "done"]
      /\ answer' = [answer EXCEPT ![r] = a]
      /\ served' = [served EXCEPT ![r] = q]
      /\ held' = held /\ todo' = todo
  BY DEF Finish
<1>4. /\ phase \in [Requests -> Phases] /\ answer \in [Requests -> Answers]
      /\ served \in [Requests -> NoneOrCall]
      /\ held \in [Requests -> NoneOrCall] /\ todo \in [Requests -> Seq(Bindings)]
  BY DEF TypeOK, NoneOrCall
<1> QED  BY <1>1, <1>2, <1>3, <1>4 DEF OwnStep

\* A call goes on, and waits for its next operation.
LEMMA AwaitStep ==
    ASSUME TypeOK, NEW r \in Requests, NEW p \in Phases, Await(r, p), Silent,
           \/ held' = held
           \/ \E q \in NoneOrCall : held' = [held EXCEPT ![r] = q],
           \/ todo' = todo
           \/ \E s \in Seq(Bindings) : todo' = [todo EXCEPT ![r] = s]
    PROVE  OwnStep(r) /\ phase'[r] = p /\ served' = served
<1>1. queue' \in Seq(Requests)
  BY OthersTyped DEF Await
<1>2. /\ phase' = [phase EXCEPT ![r] = p]
      /\ answer' = answer /\ served' = served
  BY DEF Await, Silent
<1>3. /\ phase \in [Requests -> Phases] /\ answer \in [Requests -> Answers]
      /\ served \in [Requests -> NoneOrCall]
      /\ held \in [Requests -> NoneOrCall] /\ todo \in [Requests -> Seq(Bindings)]
  BY DEF TypeOK, NoneOrCall
<1>4. held' \in [Requests -> NoneOrCall] /\ \A q \in Requests \ {r} : held'[q] = held[q]
  BY <1>3
<1>5. todo' \in [Requests -> Seq(Bindings)] /\ \A q \in Requests \ {r} : todo'[q] = todo[q]
  BY <1>3
<1> QED  BY <1>1, <1>2, <1>3, <1>4, <1>5 DEF OwnStep

\* The typed entries of the call that takes a step.
LEMMA CallTyped ==
    ASSUME TypeInv, NEW r \in Requests
    PROVE  /\ StoreOK
           /\ MemOK(memory, MaxKept)
           /\ Range(memory.kept) \subseteq Kept /\ Names(memory) \subseteq Bindings
           /\ phase[r] \in Phases /\ bind[r] \in Bindings
           /\ held[r] \in NoneOrCall /\ served[r] \in NoneOrCall
           /\ todo[r] \in Seq(Bindings)
           /\ NoRequest \notin Requests /\ MaxEntries # 0
<1>1. /\ StoreOK /\ MemOK(memory, MaxKept)
      /\ phase[r] \in Phases /\ bind[r] \in Bindings
      /\ held[r] \in NoneOrCall /\ served[r] \in NoneOrCall
      /\ todo[r] \in Seq(Bindings)
  BY DEF TypeInv, TypeOK, StoreOK, MemOK, NoneOrCall
<1>2. memory.kept \in Seq(Kept) /\ memory.doomed \in Seq(Bindings)
  BY DEF TypeInv, TypeOK
<1>3. Range(memory.kept) \subseteq Kept /\ Range(memory.doomed) \subseteq Bindings
  BY <1>2, RangeMembers
<1>4. Names(memory) \subseteq Bindings
  BY <1>3 DEF Names, Kept
<1> QED  BY <1>1, <1>3, <1>4, JournalAssumption

\* A step that leaves the memory alone and keeps nothing.
LEMMA PlainTurn ==
    ASSUME TypeInv, NEW r \in Requests, NEW q \in NoneOrCall,
           now' = now, epoch' = epoch, bind' = bind, memory' = memory,
           OwnStep(r), todo'[r] = todo[r], ~Retaining(r)', ~Sweeping(r)',
           Source(r, q), served'[r] \in {served[r], NoRequest, q}
    PROVE  Turn(r)
<1>1. MemOK(memory', MaxKept)
  BY CallTyped
<1>2. Knows(r) \subseteq Knew(r)
  BY DEF Knows, Knew
<1>3. Preserves(r)
  BY DEF Preserves
<1>4. Passes(r, q)
  BY DEF Passes
<1> QED  BY <1>1, <1>2, <1>3, <1>4 DEF Turn

LEMMA RefuseTurn ==
    ASSUME TypeInv, NEW r \in Requests, NEW a \in Answers, Refuse(r, a),
           UNCHANGED memory, Quiet
    PROVE  Turn(r) /\ phase'[r] = "done"
<1>1. /\ OwnStep(r) /\ phase'[r] = "done" /\ served'[r] = NoRequest
      /\ todo' = todo
  BY FinishStep DEF Refuse, NoneOrCall, TypeInv
<1>2. ~Retaining(r)' /\ ~Sweeping(r)'
  BY <1>1 DEF Retaining, Sweeping
<1>3. Source(r, NoRequest) /\ NoRequest \in NoneOrCall
  BY DEF Source, NoneOrCall
<1> QED  BY <1>1, <1>2, <1>3, PlainTurn DEF Quiet

LEMMA AwaitTurn ==
    ASSUME TypeInv, NEW r \in Requests, NEW p \in {"claiming", "marking", "releasing"},
           Await(r, p), Silent, UNCHANGED <<memory, held, todo>>, Quiet
    PROVE  Turn(r) /\ phase'[r] = p
<1>1. p \in Phases
  BY DEF Phases
<1>2. OwnStep(r) /\ phase'[r] = p /\ served' = served
  BY <1>1, AwaitStep DEF TypeInv
<1>3. ~Retaining(r)' /\ ~Sweeping(r)'
  BY <1>2 DEF Retaining, Sweeping
<1>4. Source(r, NoRequest) /\ NoRequest \in NoneOrCall
  BY DEF Source, NoneOrCall
<1> QED  BY <1>2, <1>3, <1>4, PlainTurn DEF Quiet

\* What a sweep, or the pruning before it, has left of the memory.
Partial(r, mem) ==
    /\ MemOK(mem, MaxKept)
    /\ Range(mem.kept) \subseteq Range(memory.kept)
    /\ Names(mem) \subseteq Names(memory)
    /\ \A b \in Names(memory) :
         \/ b \in Names(mem)
         \/ Overwrites(b)
         \/ \E c \in Names(memory) : c # b /\ Key[c] = Key[b]

LEMMA StoreOrGiveUpStep ==
    ASSUME TypeOK, NEW r \in Requests, NEW q \in Requests, NEW mem,
           StoreOrGiveUp(r, q, mem)
    PROVE  /\ OwnStep(r)
           /\ \/ phase'[r] = "done" /\ served'[r] = q /\ todo' = todo
              \/ /\ phase'[r] = "storing" /\ served' = served
                 /\ held'[r] = q /\ todo'[r] = <<>>
<1>1. /\ q \in NoneOrCall /\ "unrecoverable" \in Answers /\ "storing" \in Phases
      /\ <<>> \in Seq(Bindings)
  BY DEF NoneOrCall, Answers, Phases
<1>2. CASE KeptFor(mem.kept, bind[r]) = {}
  <2>1. Finish(r, "unrecoverable", q)
    BY <1>2 DEF StoreOrGiveUp
  <2> QED  BY <1>1, <2>1, FinishStep
<1>3. CASE KeptFor(mem.kept, bind[r]) # {}
  <2>1. /\ Await(r, "storing") /\ Silent
        /\ held' = [held EXCEPT ![r] = q] /\ todo' = [todo EXCEPT ![r] = <<>>]
    BY <1>3 DEF StoreOrGiveUp
  <2>2. OwnStep(r) /\ phase'[r] = "storing" /\ served' = served
    BY <1>1, <2>1, AwaitStep
  <2>3. held'[r] = q /\ todo'[r] = <<>>
    BY <2>1 DEF TypeOK
  <2> QED  BY <2>2, <2>3
<1> QED  BY <1>2, <1>3

LEMMA SweepStep ==
    ASSUME TypeOK, NEW r \in Requests, NEW q \in NoneOrCall, NEW mem,
           MemOK(mem, MaxKept), NEW p \in {"sweeping_to_retain", "sweeping_to_recover"},
           Sweep(r, q, mem, p)
    PROVE  /\ OwnStep(r) /\ phase'[r] = p /\ served' = served
           /\ held'[r] = q /\ todo'[r] = mem.doomed
<1>1. p \in Phases
  BY DEF Phases
<1>2. /\ Await(r, p) /\ Silent
      /\ held' = [held EXCEPT ![r] = q] /\ todo' = [todo EXCEPT ![r] = mem.doomed]
  BY DEF Sweep
<1>3. mem.doomed \in Seq(Bindings)
  BY DEF MemOK
<1>4. OwnStep(r) /\ phase'[r] = p /\ served' = served
  BY <1>1, <1>2, <1>3, AwaitStep
<1>5. held'[r] = q /\ todo'[r] = mem.doomed
  BY <1>2 DEF TypeOK
<1> QED  BY <1>4, <1>5

\* retainMcpResult, of the call's own result or of one found in memory.
LEMMA RetainTurn ==
    ASSUME TypeInv, NEW r \in Requests, NEW q \in Requests, NEW before,
           now' = now, epoch' = epoch, bind' = bind,
           Partial(r, before), Retain(r, q, before),
           \/ Ends(r) /\ q = r
           \/ \E e \in Range(before.kept) : e.binding = bind[r] /\ e.result = q
    PROVE  Turn(r) /\ phase'[r] \in Late
<1> DEFINE mem == Prune(Hold(before, bind[r], q))
<1>1. /\ memory' = mem
      /\ IF mem.doomed = <<>> THEN StoreOrGiveUp(r, q, mem)
                              ELSE Sweep(r, q, mem, "sweeping_to_retain")
  BY DEF Retain
<1>2. /\ now \in Nat /\ bind[r] \in Bindings
      /\ MemOK(before, MaxKept) /\ Names(before) \subseteq Names(memory)
      /\ Range(before.kept) \subseteq Range(memory.kept)
  BY CallTyped DEF Partial, StoreOK
<1>3. /\ MemOK(mem, MaxKept)
      /\ Range(mem.kept) \subseteq Range(before.kept) \cup {KeptEntry(bind[r], q)}
      /\ Names(mem) \subseteq Names(before) \cup {bind[r]}
      /\ \A c \in Names(before) \cup {bind[r]} :
           \/ c \in Names(mem)
           \/ Crowds(mem, c)
           \/ \E d \in Names(before) \cup {bind[r]} : d # c /\ Key[d] = Key[c]
  BY <1>2, RetainFacts
<1> HIDE DEF mem
<1>4. /\ OwnStep(r)
      /\ \/ phase'[r] = "done" /\ served'[r] = q /\ todo'[r] = todo[r]
         \/ /\ phase'[r] = "storing" /\ served' = served
            /\ held'[r] = q /\ todo'[r] = <<>>
         \/ /\ phase'[r] = "sweeping_to_retain" /\ served' = served
            /\ held'[r] = q /\ todo'[r] = mem.doomed /\ mem.doomed # <<>>
  <2>1. CASE mem.doomed = <<>>
    BY <1>1, <2>1, StoreOrGiveUpStep DEF TypeInv
  <2>2. CASE mem.doomed # <<>>
    <3>1. Sweep(r, q, mem, "sweeping_to_retain") /\ q \in NoneOrCall
      BY <1>1, <2>2 DEF NoneOrCall
    <3> QED  BY <1>3, <2>2, <3>1, SweepStep DEF TypeInv
  <2> QED  BY <2>1, <2>2
<1>5. phase'[r] \in Late
  BY <1>4 DEF Late
<1>6. Source(r, q) /\ bind[r] \in Names(memory) \cup Mine(r)
  <2>1. CASE Ends(r) /\ q = r
    BY <1>5, <2>1 DEF Source, Mine, Concludes
  <2>2. CASE \E e \in Range(before.kept) : e.binding = bind[r] /\ e.result = q
    BY <1>2, <2>2 DEF Source, Names
  <2> QED  BY <2>1, <2>2
<1>7. Knows(r) \subseteq Knew(r)
  <2>1. Range(todo'[r]) \subseteq Range(todo[r]) \cup Names(mem)
    <3>1. Range(<<>>) = {}
      BY DEF Range
    <3> QED  BY <1>4, <3>1 DEF Names
  <2> QED  BY <1>1, <1>2, <1>3, <1>6, <2>1 DEF Knows, Knew
<1>8. Preserves(r)
  <2>1. Names(before) \cup {bind[r]} \subseteq Knew(r) /\ Names(memory) \subseteq Knew(r)
    BY <1>2, <1>6 DEF Knew
  <2> QED  BY <1>1, <1>3, <2>1 DEF Preserves, Partial
<1>9. q \in NoneOrCall /\ Passes(r, q)
  <2>1. /\ KeptEntry(bind[r], q).binding = bind[r]
        /\ KeptEntry(bind[r], q).result = q
    BY DEF KeptEntry
  <2>2. \A e \in Range(memory'.kept) :
          e \in Range(memory.kept) \/ (e.binding = bind[r] /\ e.result = q)
    BY <1>1, <1>2, <1>3, <2>1
  <2>3. (Retaining(r)' => held'[r] = q) /\ served'[r] \in {served[r], NoRequest, q}
    BY <1>4 DEF Retaining
  <2> QED  BY <1>6, <2>2, <2>3 DEF Passes, NoneOrCall
<1>10. (Sweeping(r)' => todo'[r] # <<>>) /\ (Retaining(r)' => held'[r] \in Requests)
  BY <1>4 DEF Sweeping, Retaining
<1> QED
  BY <1>1, <1>3, <1>4, <1>5, <1>7, <1>8, <1>9, <1>10 DEF Turn

\* A step that only takes over what is left of the memory.
LEMMA PartialTurn ==
    ASSUME TypeInv, NEW r \in Requests, NEW mem, NEW q \in NoneOrCall,
           now' = now, epoch' = epoch, bind' = bind,
           Partial(r, mem), memory' = mem, OwnStep(r),
           Range(todo'[r]) \subseteq Range(todo[r]) \cup Names(memory),
           Sweeping(r)' => todo'[r] # <<>>,
           Retaining(r)' => Retaining(r) /\ held'[r] = q /\ q \in Requests,
           Source(r, q), served'[r] \in {served[r], NoRequest, q}
    PROVE  Turn(r)
<1>1. Knows(r) \subseteq Knew(r)
  BY DEF Knows, Knew, Partial, Mine
<1>2. Preserves(r)
  BY DEF Preserves, Partial, Knew
<1>3. Passes(r, q)
  BY DEF Passes, Partial
<1> QED  BY <1>1, <1>2, <1>3 DEF Turn, Partial

\* recoverMcpResult once nothing is left to sweep.
LEMMA AnsweredTurn ==
    ASSUME TypeInv, NEW r \in Requests, NEW mem,
           now' = now, epoch' = epoch, bind' = bind,
           Partial(r, mem), Answered(r, mem)
    PROVE  Turn(r) /\ phase'[r] \notin Early \cup {"settling"}
<1>1. Source(r, NoRequest) /\ NoRequest \in NoneOrCall
  BY DEF Source, NoneOrCall
<1>2. ASSUME NEW a \in Answers, Refuse(r, a), memory' = mem
      PROVE  Turn(r) /\ phase'[r] \notin Early \cup {"settling"}
  <2>1. /\ OwnStep(r) /\ phase'[r] = "done" /\ served'[r] = NoRequest
        /\ todo' = todo
    BY <1>1, <1>2, FinishStep DEF Refuse, TypeInv
  <2>2. ~Retaining(r)' /\ ~Sweeping(r)' /\ phase'[r] \notin Early \cup {"settling"}
    BY <2>1 DEF Early, Retaining, Sweeping
  <2> QED  BY <1>1, <1>2, <2>1, <2>2, PartialTurn
<1>3. "unrecoverable" \in Answers /\ "conflict" \in Answers
  BY DEF Answers
<1>4. CASE /\ memory' = mem
           /\ Refuse(r, IF bind[r] \in DoomedFor(mem.doomed, bind[r])
                          THEN "unrecoverable" ELSE "conflict")
  BY <1>2, <1>3, <1>4
<1>5. CASE \E e \in KeptFor(mem.kept, bind[r]) :
             IF SameRequest(e, bind[r])
               THEN Retain(r, e.result, mem)
               ELSE memory' = mem /\ Refuse(r, "conflict")
  <2>1. PICK e \in KeptFor(mem.kept, bind[r]) :
          IF SameRequest(e, bind[r])
            THEN Retain(r, e.result, mem)
            ELSE memory' = mem /\ Refuse(r, "conflict")
    BY <1>5
  <2>2. e \in Range(mem.kept)
    BY DEF KeptFor
  <2>3. e.result \in Requests
    BY <2>2, CallTyped DEF Partial, Kept
  <2>4. CASE SameRequest(e, bind[r])
    <3>1. Retain(r, e.result, mem) /\ e.binding = bind[r]
      BY <2>1, <2>4 DEF SameRequest
    <3>2. Turn(r) /\ phase'[r] \in Late
      BY <2>2, <2>3, <3>1, RetainTurn
    <3> QED  BY <3>2 DEF Late, Early
  <2>5. CASE ~SameRequest(e, bind[r])
    BY <1>2, <1>3, <2>1, <2>5
  <2> QED  BY <2>4, <2>5
<1>6. CASE /\ memory' = mem /\ Await(r, "looking")
           /\ todo' = [todo EXCEPT ![r] = <<>>] /\ Silent /\ UNCHANGED held
  <2>1. "looking" \in Phases /\ <<>> \in Seq(Bindings) /\ Range(<<>>) = {}
    BY DEF Phases, Range
  <2>2. OwnStep(r) /\ phase'[r] = "looking" /\ served' = served
    BY <1>6, <2>1, AwaitStep DEF TypeInv
  <2>3. todo'[r] = <<>>
    BY <1>6 DEF TypeInv, TypeOK
  <2>4. ~Retaining(r)' /\ ~Sweeping(r)' /\ phase'[r] \notin Early \cup {"settling"}
    BY <2>2 DEF Early, Retaining, Sweeping
  <2> QED  BY <1>1, <1>6, <2>1, <2>2, <2>3, <2>4, PartialTurn
<1> QED  BY <1>4, <1>5, <1>6 DEF Answered

\* recoverMcpResult from its start.
LEMMA RecoverTurn ==
    ASSUME TypeInv, NEW r \in Requests,
           now' = now, epoch' = epoch, bind' = bind, Recover(r)
    PROVE  Turn(r) /\ phase'[r] \notin Early \cup {"settling"}
<1> DEFINE mem == Prune(memory)
<1>1. MaxKept \in Nat /\ MemOK(memory, MaxKept + 1)
  <2>1. MemOK(memory, MaxKept) /\ MaxKept \in Nat /\ Len(memory.kept) \in Nat
    BY CallTyped, MemoryAssumption, JournalAssumption DEF MemOK
  <2> QED  BY <2>1 DEF MemOK
<1>2. /\ MemOK(mem, MaxKept)
      /\ Range(mem.kept) \subseteq Range(memory.kept)
      /\ Names(mem) \subseteq Names(memory)
      /\ \A b \in Names(memory) :
           \/ b \in Names(mem)
           \/ Crowds(mem, b)
           \/ \E c \in Names(memory) : c # b /\ Key[c] = Key[b]
  BY <1>1, CallTyped, PruneFacts DEF StoreOK
<1>3. IF mem.doomed = <<>>
        THEN Answered(r, mem)
        ELSE memory' = mem /\ Sweep(r, NoRequest, mem, "sweeping_to_recover")
  BY DEF Recover
<1> HIDE DEF mem
<1>4. CASE mem.doomed = <<>>
  <2>1. \A b : ~Crowds(mem, b)
    <3>1. Len(<<>>) = 0
      OBVIOUS
    <3> QED  BY <1>4, <3>1, CallTyped DEF Crowds
  <2>2. Partial(r, mem)
    BY <1>2, <2>1 DEF Partial
  <2> QED  BY <1>3, <1>4, <2>2, AnsweredTurn
<1>5. CASE mem.doomed # <<>>
  <2>1. memory' = mem /\ Sweep(r, NoRequest, mem, "sweeping_to_recover")
    BY <1>3, <1>5
  <2>2. Source(r, NoRequest) /\ NoRequest \in NoneOrCall
    BY DEF Source, NoneOrCall
  <2>3. /\ OwnStep(r) /\ phase'[r] = "sweeping_to_recover" /\ served' = served
        /\ todo'[r] = mem.doomed
    BY <1>2, <2>1, <2>2, SweepStep DEF TypeInv
  <2>4. ~Retaining(r)' /\ phase'[r] \notin Early \cup {"settling"}
    BY <2>3 DEF Early, Retaining
  <2>5. Knows(r) \subseteq Knew(r)
    BY <1>2, <2>1, <2>3, <2>4 DEF Knows, Knew, Names
  <2>6. Preserves(r)
    BY <1>2, <2>1 DEF Preserves, Knew
  <2>7. Passes(r, NoRequest)
    BY <1>2, <2>1, <2>2, <2>3, <2>4 DEF Passes
  <2> QED
    BY <1>2, <1>5, <2>1, <2>2, <2>3, <2>4, <2>5, <2>6, <2>7 DEF Turn
<1> QED  BY <1>4, <1>5

-----------------------------------------------------------------------------
(* Each action of a call is such a step.                                   *)

\* The bindings r may write an unrecoverable record for.
GivesUp(r) ==
    {b \in Range(todo[r]) : Sweeping(r)} \cup {b \in {bind[r]} : phase[r] = "dooming"}

\* What a call may write to the journal.
Writes(r, new) ==
    \/ new = Recs
    \/ /\ phase[r] = "claiming" /\ Reservable(bind[r])
       /\ new = Reserved(Recs, bind[r], now)
    \/ new = MarkedSpend(Recs, bind[r])
    \/ phase[r] = "releasing" /\ phase'[r] = "done" /\ new = Released(Recs, bind[r])
    \/ \E c \in GivesUp(r) : new = Retained(Recs, c, now, NoRequest)
    \/ phase[r] = "storing" /\ new = Retained(Recs, bind[r], now, held[r])

\* A reservation is only made for a binding no record matches.
WritesOnce(r) ==
    \/ UNCHANGED disk
    \/ \E new : Writes(r, new) /\ Commit(new)

\* How a call moves through its phases, and when it spends.
Moves(r) ==
    /\ Running(r)' => Running(r) \/ ClaimReserves(r)
    /\ phase'[r] = "claiming" => bind[r] \in Dated
    /\ phase'[r] \in Early => phase[r] \in Early /\ UNCHANGED spend
    /\ phase[r] \in Late => phase'[r] \in Late
    /\ \/ UNCHANGED spend
       \/ phase[r] = "marking" /\ spend' = [spend EXCEPT ![r] = "dispatched"]

CallStep(r) == Turn(r) /\ WritesOnce(r) /\ Moves(r)

\* Every read-only operation, and every one that throws, writes at most what
\* it read or what it was about to write.
LEMMA ThrowsWrites ==
    ASSUME NEW r, NEW new, Writes(r, new), Throws(new)
    PROVE  WritesOnce(r)
BY DEF Throws, WritesOnce

LEMMA ReadWrites ==
    ASSUME NEW r, Commit(Recs)
    PROVE  WritesOnce(r)
BY DEF Writes, WritesOnce

\* The end of a call that was not running.
LEMMA RefuseMoves ==
    ASSUME NEW r, phase'[r] = "done", Quiet
    PROVE  Moves(r)
BY DEF Moves, Quiet, Running, Early, Late

LEMMA StartStep ==
    ASSUME TypeInv, NEW r \in Requests, Start(r)
    PROVE  CallStep(r)
<1>1. CASE StartRecovery(r)
  <2>1. Recover(r) /\ UNCHANGED disk /\ Quiet /\ phase[r] = "idle"
    BY <1>1 DEF StartRecovery
  <2>2. Turn(r) /\ phase'[r] \notin Early \cup {"settling"}
    BY <2>1, RecoverTurn DEF Quiet
  <2>3. Moves(r)
    BY <2>1, <2>2 DEF Moves, Quiet, Running, Early, Late
  <2> QED  BY <2>1, <2>2, <2>3 DEF CallStep, WritesOnce
<1>2. CASE RefuseUnbounded(r)
  <2>1. Refuse(r, "invalid") /\ UNCHANGED <<disk, memory>> /\ Quiet /\ "invalid" \in Answers
    BY <1>2 DEF RefuseUnbounded, Answers
  <2>2. Turn(r) /\ phase'[r] = "done"
    BY <2>1, RefuseTurn
  <2> QED  BY <2>1, <2>2, RefuseMoves DEF CallStep, WritesOnce
<1>3. CASE StartRun(r)
  <2>1. /\ Await(r, "claiming") /\ Silent /\ UNCHANGED <<disk, memory, held, todo>>
        /\ Quiet /\ phase[r] = "idle" /\ bind[r] \in Dated
    BY <1>3 DEF StartRun, Bounded
  <2>2. Turn(r) /\ phase'[r] = "claiming"
    BY <2>1, AwaitTurn
  <2>3. Moves(r)
    BY <2>1, <2>2 DEF Moves, Quiet, Running, Early, Late
  <2> QED  BY <2>1, <2>2, <2>3 DEF CallStep, WritesOnce
<1> QED  BY <1>1, <1>2, <1>3 DEF Start

\* A completed record found for the call's own request is its answer.
LEMMA DecodedTurn ==
    ASSUME TypeInv, NEW r \in Requests, NEW rec \in Recs, rec.binding = bind[r],
           Decoded(r, rec), UNCHANGED memory, Quiet
    PROVE  Turn(r) /\ phase'[r] = "done"
<1>1. Recs \in SUBSET Records
  BY CallTyped, StoreRead
<1>2. rec.result \in NoneOrCall
  BY <1>1 DEF Records, NoneOrCall
<1>3. CASE rec.result = NoRequest
  <2>1. Refuse(r, "unrecoverable") /\ "unrecoverable" \in Answers
    BY <1>3 DEF Decoded, Answers
  <2> QED  BY <2>1, RefuseTurn
<1>4. CASE rec.result # NoRequest
  <2>1. Finish(r, "recovered", rec.result) /\ "recovered" \in Answers
    BY <1>4 DEF Decoded, Answers
  <2>2. /\ OwnStep(r) /\ phase'[r] = "done" /\ served'[r] = rec.result
        /\ todo' = todo
    BY <1>2, <2>1, FinishStep DEF TypeInv
  <2>3. ~Retaining(r)' /\ ~Sweeping(r)'
    BY <2>2 DEF Retaining, Sweeping
  <2>4. Source(r, rec.result)
    BY DEF Source
  <2> QED  BY <1>2, <2>2, <2>3, <2>4, PlainTurn DEF Quiet
<1> QED  BY <1>3, <1>4

LEMMA ClaimStep ==
    ASSUME TypeInv, NEW r \in Requests, Claim(r)
    PROVE  CallStep(r)
<1>1. \A a \in {"storage", "conflict", "expired", "capacity"} : a \in Answers
  BY DEF Answers
<1>2. ASSUME NEW a \in {"storage", "conflict", "expired", "capacity"},
             Refuse(r, a), UNCHANGED memory, Quiet
      PROVE  Turn(r) /\ Moves(r)
  BY <1>1, <1>2, RefuseTurn, RefuseMoves
<1>3. CASE ClaimThrows(r)
  <2>1. /\ Refuse(r, "storage") /\ UNCHANGED memory /\ Quiet /\ phase[r] = "claiming"
        /\ \/ Throws(Recs)
           \/ Reservable(bind[r]) /\ Throws(Reserved(Recs, bind[r], now))
    BY <1>3 DEF ClaimThrows, Claiming
  <2>2. WritesOnce(r)
    BY <2>1, ThrowsWrites DEF Writes
  <2> QED  BY <1>2, <2>1, <2>2 DEF CallStep
<1>4. CASE ClaimConflict(r)
  <2>1. Refuse(r, "conflict") /\ UNCHANGED memory /\ Quiet /\ Commit(Recs)
    BY <1>4 DEF ClaimConflict, Claiming
  <2> QED  BY <1>2, <2>1, ReadWrites DEF CallStep
<1>5. CASE ClaimHit(r)
  <2>1. UNCHANGED memory /\ Quiet /\ Commit(Recs)
    BY <1>5 DEF ClaimHit, Claiming
  <2>2. PICK rec \in Recs : rec.binding = bind[r] /\ Decoded(r, rec)
    BY <1>5, <2>1, CommitRecognises DEF ClaimHit
  <2>3. Turn(r) /\ phase'[r] = "done"
    BY <2>1, <2>2, DecodedTurn
  <2> QED  BY <2>1, <2>3, RefuseMoves, ReadWrites DEF CallStep
<1>6. CASE ClaimPending(r)
  <2>1. Recover(r) /\ Commit(Recs) /\ Quiet /\ phase[r] = "claiming"
    BY <1>6 DEF ClaimPending, Claiming
  <2>2. Turn(r) /\ phase'[r] \notin Early \cup {"settling"}
    BY <2>1, RecoverTurn DEF Quiet
  <2>3. Moves(r)
    BY <2>1, <2>2 DEF Moves, Quiet, Running, Early, Late
  <2> QED  BY <2>1, <2>2, <2>3, ReadWrites DEF CallStep
<1>7. CASE ClaimRefused(r)
  <2>1. /\ Refuse(r, "expired") \/ Refuse(r, "capacity")
        /\ UNCHANGED memory /\ Quiet /\ Commit(Recs)
    BY <1>7 DEF ClaimRefused, Claiming
  <2> QED  BY <1>2, <2>1, ReadWrites DEF CallStep
<1>8. CASE ClaimReserves(r)
  <2>1. /\ Commit(Reserved(Recs, bind[r], now)) /\ Leave(r) /\ Silent /\ Quiet
        /\ phase[r] = "claiming" /\ phase' = [phase EXCEPT ![r] = "executing"]
        /\ UNCHANGED <<memory, held, todo>> /\ Reservable(bind[r])
    BY <1>8 DEF ClaimReserves, Claiming
  <2>2. queue' \in Seq(Requests) /\ "executing" \in Phases
    BY <2>1, OthersTyped DEF Leave, TypeInv, Phases
  <2>3. OwnStep(r) /\ phase'[r] = "executing"
    BY <2>1, <2>2 DEF OwnStep, TypeInv, TypeOK, Silent, NoneOrCall
  <2>4. ~Retaining(r)' /\ ~Sweeping(r)'
    BY <2>3 DEF Retaining, Sweeping
  <2>5. Source(r, NoRequest) /\ NoRequest \in NoneOrCall
    BY DEF Source, NoneOrCall
  <2>6. Turn(r)
    BY <2>1, <2>3, <2>4, <2>5, PlainTurn DEF Quiet, Silent
  <2>7. Moves(r)
    BY <1>8, <2>1, <2>3 DEF Moves, Quiet, Running, Early, Late
  <2>8. WritesOnce(r)
    BY <2>1 DEF Writes, WritesOnce
  <2> QED  BY <2>6, <2>7, <2>8 DEF CallStep
<1> QED  BY <1>3, <1>4, <1>5, <1>6, <1>7, <1>8 DEF Claim

LEMMA NothingLost ==
    ASSUME TypeInv, NEW r \in Requests
    PROVE  Partial(r, memory)
BY CallTyped DEF Partial

\* A call moves on without a journal operation, or is called back by one.
LEMMA AdvanceTurn ==
    ASSUME TypeInv, NEW r \in Requests, NEW p \in {"verified", "settling"},
           phase' = [phase EXCEPT ![r] = p], queue' = queue \/ Leave(r), Silent,
           UNCHANGED <<now, epoch, memory, bind, held, todo>>
    PROVE  Turn(r) /\ phase'[r] = p
<1>1. queue' \in Seq(Requests)
  BY OthersTyped DEF Leave, TypeInv, TypeOK
<1>2. p \in Phases
  BY DEF Phases
<1>3. OwnStep(r) /\ phase'[r] = p
  BY <1>1, <1>2 DEF OwnStep, TypeInv, TypeOK, Silent, NoneOrCall
<1>4. ~Retaining(r)' /\ ~Sweeping(r)'
  BY <1>3 DEF Retaining, Sweeping
<1>5. Source(r, NoRequest) /\ NoRequest \in NoneOrCall
  BY DEF Source, NoneOrCall
<1> QED  BY <1>3, <1>4, <1>5, PlainTurn DEF Silent

LEMMA ExecuteStep ==
    ASSUME TypeInv, NEW r \in Requests, Execute(r)
    PROVE  CallStep(r)
<1>1. CASE VerifyAndRun(r)
  <2>1. /\ phase[r] = "executing" /\ phase' = [phase EXCEPT ![r] = "verified"]
        /\ Silent /\ Quiet /\ UNCHANGED <<disk, memory, queue, held, todo>>
    BY <1>1 DEF VerifyAndRun
  <2>2. Turn(r) /\ phase'[r] = "verified"
    BY <2>1, AdvanceTurn DEF Quiet
  <2>3. Moves(r)
    BY <2>1, <2>2 DEF Moves, Quiet, Running, Early, Late
  <2> QED  BY <2>1, <2>2, <2>3 DEF CallStep, WritesOnce
<1>2. CASE EndUnpaid(r)
  <2>1. /\ phase[r] \in {"executing", "verified"} /\ Await(r, "releasing")
        /\ Silent /\ Quiet /\ UNCHANGED <<disk, memory, held, todo>>
    BY <1>2 DEF EndUnpaid
  <2>2. Turn(r) /\ phase'[r] = "releasing"
    BY <2>1, AwaitTurn
  <2>3. Moves(r)
    BY <2>1, <2>2 DEF Moves, Quiet, Running, Early, Late
  <2> QED  BY <2>1, <2>2, <2>3 DEF CallStep, WritesOnce
<1>3. CASE EndInToolError(r)
  <2>1. phase[r] = "verified" /\ Retain(r, r, memory) /\ UNCHANGED disk /\ Quiet
    BY <1>3 DEF EndInToolError
  <2>2. Turn(r) /\ phase'[r] \in Late
    BY <2>1, NothingLost, RetainTurn DEF Quiet, Ends
  <2>3. Moves(r)
    BY <2>1, <2>2 DEF Moves, Quiet, Running, Early, Late
  <2> QED  BY <2>1, <2>2, <2>3 DEF CallStep, WritesOnce
<1>4. CASE StartMark(r)
  <2>1. /\ phase[r] = "verified" /\ Await(r, "marking")
        /\ Silent /\ Quiet /\ UNCHANGED <<disk, memory, held, todo>>
    BY <1>4 DEF StartMark
  <2>2. Turn(r) /\ phase'[r] = "marking"
    BY <2>1, AwaitTurn
  <2>3. Moves(r)
    BY <2>1, <2>2 DEF Moves, Quiet, Running, Early, Late
  <2> QED  BY <2>1, <2>2, <2>3 DEF CallStep, WritesOnce
<1>5. CASE MarkAndDispatch(r)
  <2>1. /\ phase[r] = "marking" /\ Commit(MarkedSpend(Recs, bind[r])) /\ Leave(r)
        /\ phase' = [phase EXCEPT ![r] = "settling"]
        /\ spend' = [spend EXCEPT ![r] = "dispatched"] /\ Silent
        /\ UNCHANGED <<now, epoch, memory, bind, held, todo>>
    BY <1>5 DEF MarkAndDispatch
  <2>2. Turn(r) /\ phase'[r] = "settling"
    BY <2>1, AdvanceTurn
  <2>3. Moves(r)
    BY <2>1, <2>2 DEF Moves, Running, Early, Late
  <2>4. WritesOnce(r)
    BY <2>1 DEF Writes, WritesOnce
  <2> QED  BY <2>2, <2>3, <2>4 DEF CallStep
<1>6. CASE MarkFails(r)
  <2>1. /\ phase[r] = "marking" /\ Throws(MarkedSpend(Recs, bind[r]))
        /\ Await(r, "releasing") /\ Silent /\ Quiet /\ UNCHANGED <<memory, held, todo>>
    BY <1>6 DEF MarkFails
  <2>2. Turn(r) /\ phase'[r] = "releasing"
    BY <2>1, AwaitTurn
  <2>3. Moves(r)
    BY <2>1, <2>2 DEF Moves, Quiet, Running, Early, Late
  <2>4. WritesOnce(r)
    BY <2>1, ThrowsWrites DEF Writes
  <2> QED  BY <2>2, <2>3, <2>4 DEF CallStep
<1>7. CASE ReleaseUnpaid(r)
  <2>1. /\ phase[r] = "releasing"
        /\ Commit(Released(Recs, bind[r])) \/ Throws(Released(Recs, bind[r]))
        /\ Refuse(r, "refused") /\ UNCHANGED memory /\ Quiet /\ "refused" \in Answers
    BY <1>7 DEF ReleaseUnpaid, Answers
  <2>2. Turn(r) /\ phase'[r] = "done"
    BY <2>1, RefuseTurn
  <2>3. WritesOnce(r)
    BY <2>1, <2>2, ThrowsWrites DEF Writes, Throws
  <2> QED  BY <2>1, <2>2, <2>3, RefuseMoves DEF CallStep
<1>8. CASE SettlementSucceeds(r)
  <2>1. /\ phase[r] = "settling" /\ spend[r] = "executed"
        /\ Retain(r, r, memory) \/ GiveUpOversized(r, r)
        /\ UNCHANGED disk /\ Quiet
    BY <1>8 DEF SettlementSucceeds
  <2>2. Turn(r) /\ phase'[r] \in Late
    <3>1. CASE Retain(r, r, memory)
      BY <2>1, <3>1, NothingLost, RetainTurn DEF Quiet, Ends
    <3>2. CASE GiveUpOversized(r, r)
      <4>1. /\ Await(r, "dooming") /\ Silent /\ held' = [held EXCEPT ![r] = r]
            /\ memory' = memory /\ todo' = todo
        BY <3>2 DEF GiveUpOversized
      <4>2. "dooming" \in Phases /\ r \in NoneOrCall
        BY DEF Phases, NoneOrCall
      <4>3. OwnStep(r) /\ phase'[r] = "dooming" /\ served' = served
        BY <4>1, <4>2, AwaitStep DEF TypeInv
      <4>4. held'[r] = r
        BY <4>1 DEF TypeInv, TypeOK
      <4>5. Concludes(r) /\ ~Sweeping(r)'
        BY <2>1, <4>3 DEF Concludes, Ends, Late, Sweeping
      <4>6. Knows(r) \subseteq Knew(r)
        BY <4>1, <4>5 DEF Knows, Knew, Mine
      <4>7. Preserves(r)
        BY <4>1 DEF Preserves
      <4>8. Passes(r, r)
        BY <4>1, <4>3, <4>4, <4>5 DEF Passes, Source
      <4>9. Turn(r)
        BY <2>1, <4>1, <4>2, <4>3, <4>4, <4>5, <4>6, <4>7, <4>8, CallTyped DEF Turn, Quiet
      <4> QED  BY <4>3, <4>9 DEF Late
    <3> QED  BY <2>1, <3>1, <3>2
  <2>3. Moves(r)
    BY <2>1, <2>2 DEF Moves, Quiet, Running, Early, Late
  <2> QED  BY <2>1, <2>2, <2>3 DEF CallStep, WritesOnce
<1>9. CASE SettlementUnresolved(r)
  <2>1. Refuse(r, "unresolved") /\ UNCHANGED <<disk, memory>> /\ Quiet /\ "unresolved" \in Answers
    BY <1>9 DEF SettlementUnresolved, Answers
  <2>2. Turn(r) /\ phase'[r] = "done"
    BY <2>1, RefuseTurn
  <2> QED  BY <2>1, <2>2, RefuseMoves DEF CallStep, WritesOnce
<1> QED
  BY <1>1, <1>2, <1>3, <1>4, <1>5, <1>6, <1>7, <1>8, <1>9 DEF Execute

\* After a completed record was written under the key of c, what memory had
\* under that key need not be kept.
LEMMA WithoutDoomed ==
    ASSUME TypeInv, NEW r \in Requests, NEW c \in Bindings, NEW q \in NoneOrCall,
           Commit(Retained(Recs, c, now, q))
    PROVE  Partial(r, [memory EXCEPT !.doomed = OtherDoomed(@, c)])
<1> DEFINE doomed == OtherDoomed(memory.doomed, c)
           mem == [memory EXCEPT !.doomed = doomed]
<1>1. memory \in [kept : Seq(Kept), doomed : Seq(Bindings)] /\ MemOK(memory, MaxKept)
  BY CallTyped DEF TypeInv, TypeOK
<1>2. /\ doomed \in Seq(Bindings) /\ Len(doomed) <= Len(memory.doomed)
      /\ Range(doomed) = {b \in Range(memory.doomed) : Key[b] # Key[c]}
  BY <1>1, OtherDoomedFacts
<1> HIDE DEF doomed
<1>3. /\ mem \in [kept : Seq(Kept), doomed : Seq(Bindings)]
      /\ mem.kept = memory.kept /\ mem.doomed = doomed
  BY <1>1, <1>2
<1>4. /\ Len(doomed) \in Nat /\ Len(memory.doomed) \in Nat /\ MaxEntries \in Nat
      /\ Len(memory.doomed) <= MaxEntries
  BY <1>1, <1>2, JournalAssumption DEF MemOK
<1>5. MemOK(mem, MaxKept)
  BY <1>1, <1>2, <1>3, <1>4 DEF MemOK
<1>6. \A b \in Bindings : Key[b] = Key[c] => Overwrites(b)
  BY DEF Overwrites
<1>7. /\ Names(mem) \subseteq Names(memory)
      /\ \A b \in Names(memory) : b \in Names(mem) \/ Overwrites(b)
  BY <1>2, <1>3, <1>6, CallTyped DEF Names
<1> QED  BY <1>3, <1>5, <1>7 DEF Partial, doomed

LEMMA WithoutKept ==
    ASSUME TypeInv, NEW r \in Requests, NEW c \in Bindings, NEW q \in NoneOrCall,
           Commit(Retained(Recs, c, now, q))
    PROVE  Partial(r, [memory EXCEPT !.kept = OtherKept(@, c)])
<1> DEFINE kept == OtherKept(memory.kept, c)
           mem == [memory EXCEPT !.kept = kept]
<1>1. memory \in [kept : Seq(Kept), doomed : Seq(Bindings)] /\ MemOK(memory, MaxKept)
  BY CallTyped DEF TypeInv, TypeOK
<1>2. /\ kept \in Seq(Kept) /\ Len(kept) <= Len(memory.kept)
      /\ Range(kept) = {e \in Range(memory.kept) : Key[e.binding] # Key[c]}
  BY <1>1, OtherKeptFacts
<1> HIDE DEF kept
<1>3. /\ mem \in [kept : Seq(Kept), doomed : Seq(Bindings)]
      /\ mem.kept = kept /\ mem.doomed = memory.doomed
  BY <1>1, <1>2
<1>4. /\ Len(kept) \in Nat /\ Len(memory.kept) \in Nat /\ MaxKept \in Nat
      /\ Len(memory.kept) <= MaxKept
  BY <1>1, <1>2, MemoryAssumption, JournalAssumption DEF MemOK
<1>5. MemOK(mem, MaxKept)
  BY <1>1, <1>2, <1>3, <1>4 DEF MemOK
<1>6. \A b \in Bindings : Key[b] = Key[c] => Overwrites(b)
  BY DEF Overwrites
<1>7. /\ Names(mem) \subseteq Names(memory)
      /\ \A b \in Names(memory) : b \in Names(mem) \/ Overwrites(b)
  BY <1>2, <1>3, <1>6, CallTyped DEF Names
<1> QED  BY <1>2, <1>3, <1>5, <1>7 DEF Partial, kept

LEMMA SweepOneStep ==
    ASSUME TypeInv, NEW r \in Requests, SweepOne(r)
    PROVE  CallStep(r)
<1> DEFINE b == Head(todo[r])
           gone == Retained(Recs, b, now, NoRequest)
<1>1. todo[r] \in Seq(Bindings) /\ todo[r] # <<>> /\ Sweeping(r) /\ Quiet
  BY CallTyped DEF SweepOne, TypeInv
<1>2. /\ b \in Bindings /\ b \in Range(todo[r])
      /\ Tail(todo[r]) \in Seq(Bindings)
      /\ Range(Tail(todo[r])) \subseteq Range(todo[r])
      /\ Len(todo[r]) > 1 => Tail(todo[r]) # <<>>
  BY <1>1, TailFacts, RangeMembers
<1>3. PICK mem \in {[memory EXCEPT !.doomed = OtherDoomed(@, b)], memory} :
        /\ IF mem = memory THEN Throws(gone) ELSE Commit(gone)
        /\ IF Len(todo[r]) > 1
             THEN /\ memory' = mem
                  /\ Await(r, phase[r])
                  /\ todo' = [todo EXCEPT ![r] = Tail(@)]
                  /\ Silent
                  /\ UNCHANGED held
             ELSE IF phase[r] = "sweeping_to_retain"
                    THEN memory' = mem /\ StoreOrGiveUp(r, held[r], mem)
                    ELSE Answered(r, mem)
  BY DEF SweepOne
<1>4. NoRequest \in NoneOrCall /\ now' = now /\ epoch' = epoch /\ bind' = bind
  BY <1>1 DEF NoneOrCall, Quiet
<1> HIDE DEF b
<1>5. WritesOnce(r)
  <2>1. Writes(r, gone)
    BY <1>1, <1>2 DEF Writes, GivesUp
  <2>2. UNCHANGED disk \/ Commit(gone)
    BY <1>3 DEF Throws
  <2> QED  BY <2>1, <2>2 DEF WritesOnce
<1>6. Partial(r, mem)
  <2>1. CASE mem = memory
    BY <2>1, NothingLost
  <2>2. CASE mem # memory
    <3>1. Commit(gone) /\ mem = [memory EXCEPT !.doomed = OtherDoomed(@, b)]
      BY <1>3, <2>2
    <3> QED  BY <1>2, <1>4, <3>1, WithoutDoomed
  <2> QED  BY <2>1, <2>2
<1> HIDE DEF gone
<1>7. phase[r] \in {"sweeping_to_retain", "sweeping_to_recover"}
  BY <1>1 DEF Sweeping
<1>8. CASE Len(todo[r]) > 1
  <2>1. /\ memory' = mem /\ Await(r, phase[r]) /\ Silent /\ held' = held
        /\ todo' = [todo EXCEPT ![r] = Tail(todo[r])]
    BY <1>3, <1>8
  <2>2. OwnStep(r) /\ phase'[r] = phase[r] /\ served' = served
    BY <1>2, <2>1, CallTyped, AwaitStep DEF TypeInv
  <2>3. todo'[r] = Tail(todo[r])
    BY <2>1 DEF TypeInv, TypeOK
  <2>4. Turn(r)
    <3>1. CASE phase[r] = "sweeping_to_retain"
      <4>1. Retaining(r) /\ held[r] \in Requests
        BY <3>1 DEF Retaining, TypeInv
      <4>2. Source(r, held[r]) /\ held[r] \in NoneOrCall
        BY <4>1 DEF Source, NoneOrCall
      <4> QED  BY <1>2, <1>4, <1>6, <1>8, <2>1, <2>2, <2>3, <4>1, <4>2, PartialTurn
    <3>2. CASE phase[r] = "sweeping_to_recover"
      <4>1. ~Retaining(r)' /\ Source(r, NoRequest)
        BY <2>2, <3>2 DEF Retaining, Source
      <4> QED  BY <1>2, <1>4, <1>6, <1>8, <2>1, <2>2, <2>3, <4>1, PartialTurn
    <3> QED  BY <1>7, <3>1, <3>2
  <2>5. Moves(r)
    BY <1>1, <1>7, <2>2 DEF Moves, Quiet, Running, Early, Late
  <2> QED  BY <1>5, <2>4, <2>5 DEF CallStep
<1>9. CASE ~(Len(todo[r]) > 1) /\ phase[r] = "sweeping_to_retain"
  <2>1. memory' = mem /\ StoreOrGiveUp(r, held[r], mem)
    BY <1>3, <1>9
  <2>2. Retaining(r) /\ held[r] \in Requests
    BY <1>9 DEF Retaining, TypeInv
  <2>3. /\ OwnStep(r)
        /\ \/ phase'[r] = "done" /\ served'[r] = held[r] /\ todo' = todo
           \/ /\ phase'[r] = "storing" /\ served' = served
              /\ held'[r] = held[r] /\ todo'[r] = <<>>
    BY <2>1, <2>2, StoreOrGiveUpStep DEF TypeInv
  <2>4. Source(r, held[r]) /\ held[r] \in NoneOrCall
    BY <2>2 DEF Source, NoneOrCall
  <2>5. Range(<<>>) = {}
    BY DEF Range
  <2>6. ~Sweeping(r)' /\ (Retaining(r)' => held'[r] = held[r])
    BY <2>3 DEF Sweeping, Retaining
  <2>7. Turn(r)
    BY <1>4, <1>6, <2>1, <2>2, <2>3, <2>4, <2>5, <2>6, PartialTurn
  <2>8. Moves(r)
    BY <1>1, <1>9, <2>3 DEF Moves, Quiet, Running, Early, Late
  <2> QED  BY <1>5, <2>7, <2>8 DEF CallStep
<1>10. CASE ~(Len(todo[r]) > 1) /\ phase[r] # "sweeping_to_retain"
  <2>1. Answered(r, mem) /\ phase[r] = "sweeping_to_recover"
    BY <1>3, <1>7, <1>10
  <2>2. Turn(r) /\ phase'[r] \notin Early \cup {"settling"}
    BY <1>4, <1>6, <2>1, AnsweredTurn
  <2>3. Moves(r)
    BY <1>1, <2>1, <2>2 DEF Moves, Quiet, Running, Early, Late
  <2> QED  BY <1>5, <2>2, <2>3 DEF CallStep
<1> QED  BY <1>8, <1>9, <1>10

LEMMA KeepStep ==
    ASSUME TypeInv, NEW r \in Requests, Keep(r)
    PROVE  CallStep(r)
<1>1. /\ bind[r] \in Bindings /\ held[r] \in NoneOrCall /\ NoRequest \in NoneOrCall
      /\ \A a \in {"stored", "retryable", "unrecoverable", "storage", "conflict",
                   "in_flight", "not_found"} : a \in Answers
  BY CallTyped DEF Answers, NoneOrCall
<1>2. CASE SweepOne(r)
  BY <1>2, SweepOneStep
<1>3. CASE Store(r)
  <2>1. /\ phase[r] = "storing" /\ Commit(Retained(Recs, bind[r], now, held[r]))
        /\ memory' = [memory EXCEPT !.kept = OtherKept(@, bind[r])]
        /\ Finish(r, "stored", held[r]) /\ Quiet
    BY <1>3 DEF Store
  <2>2. Partial(r, [memory EXCEPT !.kept = OtherKept(@, bind[r])])
    BY <1>1, <2>1, WithoutKept
  <2>3. OwnStep(r) /\ phase'[r] = "done" /\ served'[r] = held[r] /\ todo' = todo
    BY <1>1, <2>1, FinishStep DEF TypeInv
  <2>4. ~Sweeping(r)' /\ ~Retaining(r)' /\ Retaining(r)
    BY <2>1, <2>3 DEF Sweeping, Retaining
  <2>5. Source(r, held[r])
    BY <2>4 DEF Source
  <2>6. Turn(r)
    BY <1>1, <2>1, <2>2, <2>3, <2>4, <2>5, PartialTurn DEF Quiet
  <2>7. WritesOnce(r)
    BY <2>1, <2>4 DEF WritesOnce, Writes
  <2> QED  BY <2>1, <2>3, <2>6, <2>7, RefuseMoves DEF CallStep
<1>4. CASE StoreFails(r)
  <2>1. /\ phase[r] = "storing" /\ Throws(Retained(Recs, bind[r], now, held[r]))
        /\ memory' = memory /\ Finish(r, "retryable", held[r]) /\ Quiet
    BY <1>4 DEF StoreFails
  <2>2. OwnStep(r) /\ phase'[r] = "done" /\ served'[r] = held[r] /\ todo' = todo
    BY <1>1, <2>1, FinishStep DEF TypeInv
  <2>3. ~Sweeping(r)' /\ ~Retaining(r)' /\ Retaining(r)
    BY <2>1, <2>2 DEF Sweeping, Retaining
  <2>4. Source(r, held[r])
    BY <2>3 DEF Source
  <2>5. Turn(r)
    BY <1>1, <2>1, <2>2, <2>3, <2>4, PlainTurn DEF Quiet
  <2>6. WritesOnce(r)
    BY <2>1, <2>3, ThrowsWrites DEF Writes
  <2> QED  BY <2>1, <2>2, <2>5, <2>6, RefuseMoves DEF CallStep
<1>5. CASE MarkOversized(r)
  <2> DEFINE gone == Retained(Recs, bind[r], now, NoRequest)
  <2>1. /\ phase[r] = "dooming" /\ Finish(r, "unrecoverable", held[r]) /\ Quiet
        /\ \/ /\ Commit(gone)
              /\ memory' = [memory EXCEPT !.doomed = OtherDoomed(@, bind[r])]
           \/ /\ Throws(gone)
              /\ memory' = [memory EXCEPT !.doomed = Remember(@, <<bind[r]>>)]
    BY <1>5 DEF MarkOversized
  <2>2. OwnStep(r) /\ phase'[r] = "done" /\ served'[r] = held[r] /\ todo' = todo
    BY <1>1, <2>1, FinishStep DEF TypeInv
  <2>3. ~Sweeping(r)' /\ ~Retaining(r)' /\ Retaining(r)
    BY <2>1, <2>2 DEF Sweeping, Retaining
  <2>4. Source(r, held[r])
    BY <2>3 DEF Source
  <2>5. bind[r] \in Knew(r)
    BY <2>3 DEF Knew, Mine
  <2>6. WritesOnce(r)
    <3>1. Writes(r, gone)
      BY <2>1 DEF Writes, GivesUp
    <3>2. UNCHANGED disk \/ Commit(gone)
      BY <2>1 DEF Throws
    <3> HIDE DEF gone
    <3> QED  BY <3>1, <3>2 DEF WritesOnce
  <2>7. Turn(r)
    <3>1. CASE Commit(gone) /\ memory' = [memory EXCEPT !.doomed = OtherDoomed(@, bind[r])]
      <4>1. Partial(r, [memory EXCEPT !.doomed = OtherDoomed(@, bind[r])])
        BY <1>1, <3>1, WithoutDoomed
      <4> QED  BY <1>1, <2>1, <2>2, <2>3, <2>4, <3>1, <4>1, PartialTurn DEF Quiet
    <3>2. CASE memory' = [memory EXCEPT !.doomed = Remember(@, <<bind[r]>>)]
      <4> DEFINE lost == <<bind[r]>>
                 doomed == Remember(memory.doomed, lost)
      <4>1. memory \in [kept : Seq(Kept), doomed : Seq(Bindings)] /\ MemOK(memory, MaxKept)
        BY CallTyped DEF TypeInv, TypeOK
      <4>2. lost \in Seq(Bindings) /\ Range(lost) = {bind[r]}
        BY <1>1 DEF Range
      <4>3. /\ doomed \in Seq(Bindings) /\ Len(doomed) <= MaxEntries
            /\ Range(doomed) \subseteq Range(memory.doomed) \cup {bind[r]}
            /\ \A c \in Range(memory.doomed) \cup {bind[r]} :
                 \/ c \in Range(doomed)
                 \/ Len(doomed) = MaxEntries
                 \/ \E d \in {bind[r]} : d # c /\ Key[d] = Key[c]
        <5> HIDE DEF lost
        <5> QED  BY <4>1, <4>2, RememberFacts
      <4>4. memory' = [memory EXCEPT !.doomed = doomed]
        BY <3>2
      <4> HIDE DEF doomed, lost
      <4>5. /\ memory' \in [kept : Seq(Kept), doomed : Seq(Bindings)]
            /\ memory'.kept = memory.kept /\ memory'.doomed = doomed
        BY <4>1, <4>3, <4>4
      <4>6. MemOK(memory', MaxKept)
        BY <4>1, <4>3, <4>5 DEF MemOK
      <4>7. Names(memory') \subseteq Names(memory) \cup {bind[r]}
        BY <4>3, <4>5 DEF Names
      <4>8. Knows(r) \subseteq Knew(r)
        BY <2>2, <2>3, <2>5, <4>7 DEF Knows, Knew
      <4>9. Preserves(r)
        BY <2>5, <4>3, <4>5 DEF Preserves, Names, Crowds
      <4>10. Passes(r, held[r])
        BY <2>2, <2>3, <2>4, <4>5 DEF Passes
      <4> QED
        BY <1>1, <2>1, <2>2, <2>3, <4>6, <4>8, <4>9, <4>10 DEF Turn, Quiet
    <3> QED  BY <2>1, <3>1, <3>2
  <2> QED  BY <2>1, <2>2, <2>6, <2>7, RefuseMoves DEF CallStep
<1>6. CASE Look(r)
  <2>1. UNCHANGED memory /\ Quiet
    BY <1>6 DEF Look
  <2>2. WritesOnce(r)
    BY <1>6, ThrowsWrites DEF Look, Writes, Throws
  <2>3. Turn(r) /\ phase'[r] = "done"
    <3>1. CASE \E a \in {"storage", "conflict", "in_flight", "not_found"} : Refuse(r, a)
      BY <1>1, <2>1, <3>1, RefuseTurn
    <3>2. CASE \E rec \in Recs : rec.binding = bind[r] /\ Decoded(r, rec)
      BY <2>1, <3>2, DecodedTurn
    <3>3. Commit(Recs) => Recognised = Recs
      BY CommitRecognises
    <3> QED  BY <1>6, <3>1, <3>2, <3>3 DEF Look, Found
  <2> QED  BY <2>1, <2>2, <2>3, RefuseMoves DEF CallStep
<1> QED  BY <1>2, <1>3, <1>4, <1>5, <1>6 DEF Keep

-----------------------------------------------------------------------------
(* Type correctness.                                                       *)

LEMMA GivesUpKnown ==
    ASSUME NEW r
    PROVE  GivesUp(r) \subseteq Knew(r)
BY DEF GivesUp, Knew, Mine, Retaining

LEMMA KnewTyped ==
    ASSUME TypeInv, NEW r \in Requests
    PROVE  Knew(r) \subseteq Bindings
BY CallTyped, RangeMembers DEF Knew, Mine

\* What a call writes is typed, live and sound.
LEMMA WritesTyped ==
    ASSUME TypeInv, NEW r \in Requests, NEW new, Writes(r, new), Commit(new)
    PROVE  /\ new \in SUBSET Records /\ Live(new, now) = new
           /\ Sound(Recs) => Sound(new)
           /\ disk' \in Journals /\ disk'.recs = new
           /\ now' = now => Recs' = new
<1>1. /\ StoreOK /\ bind[r] \in Bindings
      /\ Recs \in SUBSET Records /\ Live(Recs, now) = Recs
      /\ Knew(r) \subseteq Bindings
  BY CallTyped, StoreRead, KnewTyped
<1>2. now \in Nat /\ epoch \in Epochs
  BY <1>1 DEF StoreOK
<1>3. /\ new \in SUBSET Records /\ Live(new, now) = new
      /\ Sound(Recs) => Sound(new)
  <2>1. CASE new = Recs
    BY <1>1, <2>1
  <2>2. CASE Reservable(bind[r]) /\ new = Reserved(Recs, bind[r], now)
    <3>1. Found(Recs, bind[r]) = {}
      BY <2>2, CommitRecognises DEF Reservable
    <3> QED  BY <1>1, <1>2, <2>2, <3>1, ReservedRecords
  <2>3. CASE new = MarkedSpend(Recs, bind[r])
    BY <1>1, <1>2, <2>3, MarkedRecords
  <2>4. CASE new = Released(Recs, bind[r])
    BY <1>1, <1>2, <2>4, ReleasedRecords
  <2>5. ASSUME NEW c \in Bindings, NEW q \in NoneOrCall, new = Retained(Recs, c, now, q)
        PROVE  /\ new \in SUBSET Records /\ Live(new, now) = new
               /\ Sound(Recs) => Sound(new)
    BY <1>1, <1>2, <2>5, RetainedRecords DEF NoneOrCall
  <2>6. CASE \E c \in GivesUp(r) : new = Retained(Recs, c, now, NoRequest)
    BY <1>1, <2>5, <2>6, GivesUpKnown DEF NoneOrCall
  <2>7. CASE new = Retained(Recs, bind[r], now, held[r])
    BY <1>1, <2>5, <2>7, CallTyped
  <2> QED  BY <2>1, <2>2, <2>3, <2>4, <2>6, <2>7 DEF Writes
<1>4. disk' = [epoch |-> epoch, recs |-> new]
  BY DEF Commit
<1>5. disk' \in Journals /\ disk'.recs = new
  BY <1>2, <1>3, <1>4 DEF Journals
<1> QED  BY <1>3, <1>5 DEF Recs

LEMMA InitTyped == Init => TypeInv
<1> SUFFICES ASSUME Init PROVE TypeInv
  OBVIOUS
<1>1. disk \in Journals
  BY DEF Init, Journals
<1>2. memory \in [kept : Seq(Kept), doomed : Seq(Bindings)]
  BY DEF Init
<1>3. memory.kept = <<>> /\ memory.doomed = <<>> /\ Len(<<>>) = 0
  BY DEF Init
<1>4. MaxKept \in Nat /\ MaxEntries \in Nat
  BY MemoryAssumption, JournalAssumption
<1>5. TypeOK
  BY <1>1, <1>2, <1>3, <1>4 DEF Init, TypeOK, Phases, Answers, Journals
<1> QED  BY <1>5 DEF Init, TypeInv, Sweeping, Retaining

LEMMA CallStepTyped ==
    ASSUME TypeInv, NEW r \in Requests, CallStep(r)
    PROVE  TypeInv'
<1>1. Turn(r) /\ OwnStep(r) /\ MemOK(memory', MaxKept) /\ WritesOnce(r) /\ Moves(r)
  BY DEF CallStep, Turn
<1>2. now' = now /\ epoch' = epoch /\ bind' = bind
  BY <1>1 DEF Turn
<1>3. disk' \in Journals
  <2>1. CASE UNCHANGED disk
    BY <2>1 DEF TypeInv, TypeOK
  <2>2. CASE \E new : Writes(r, new) /\ Commit(new)
    BY <2>2, WritesTyped
  <2> QED  BY <1>1, <2>1, <2>2 DEF WritesOnce
<1>4. spend' \in [Requests -> {"none", "dispatched", "executed", "rejected"}]
  BY <1>1 DEF Moves, TypeInv, TypeOK
<1>5. TypeOK'
  BY <1>1, <1>2, <1>3, <1>4 DEF TypeInv, TypeOK, OwnStep, MemOK, NoneOrCall
<1>6. ASSUME NEW q \in Requests
      PROVE  /\ Sweeping(q)' => todo'[q] # <<>>
             /\ Retaining(q)' => held'[q] \in Requests
  <2>1. CASE q = r
    BY <1>1, <2>1 DEF Turn
  <2>2. CASE q # r
    <3>1. phase'[q] = phase[q] /\ todo'[q] = todo[q] /\ held'[q] = held[q]
      BY <1>1, <2>2 DEF OwnStep
    <3> QED  BY <3>1 DEF TypeInv, Sweeping, Retaining
  <2> QED  BY <2>1, <2>2
<1> QED  BY <1>5, <1>6 DEF TypeInv

\* What the process and its calls look like after a crash.
LEMMA CrashStep ==
    ASSUME TypeInv, Crash
    PROVE  /\ UNCHANGED <<disk, now, bind, held, spend, served>> /\ epoch' \in Epochs
           /\ memory' = [kept |-> <<>>, doomed |-> <<>>] /\ Names(memory') = {}
           /\ queue' = <<>>
           /\ phase' \in [Requests -> Phases] /\ answer' \in [Requests -> Answers]
           /\ \A r \in Requests :
                /\ phase'[r] \in {"idle", "done"}
                /\ phase'[r] = "idle" => phase[r] = "idle"
                /\ todo'[r] = <<>>
<1>1. /\ UNCHANGED <<disk, now, bind, held, spend, served>> /\ epoch' \in Epochs
      /\ memory' = [kept |-> <<>>, doomed |-> <<>>] /\ queue' = <<>>
      /\ todo' = [r \in Requests |-> <<>>]
  BY DEF Crash
<1> DEFINE hit == {r \in Requests : phase[r] \notin {"idle", "done"}}
<1>2. /\ phase' = [r \in Requests |-> IF r \in hit THEN "done" ELSE phase[r]]
      /\ answer' = [r \in Requests |-> IF r \in hit THEN "lost" ELSE answer[r]]
  BY DEF Crash
<1>3. "done" \in Phases /\ "lost" \in Answers
  BY DEF Phases, Answers
<1>4. Names(memory') = {}
  <2>1. memory'.kept = <<>> /\ memory'.doomed = <<>> /\ Range(<<>>) = {}
    BY <1>1 DEF Range
  <2> QED  BY <2>1 DEF Names
<1> QED  BY <1>1, <1>2, <1>3, <1>4 DEF TypeInv, TypeOK

LEMMA CrashTyped ==
    ASSUME TypeInv, Crash
    PROVE  TypeInv'
<1>1. /\ memory' \in [kept : Seq(Kept), doomed : Seq(Bindings)]
      /\ memory'.kept = <<>> /\ memory'.doomed = <<>> /\ Len(<<>>) = 0
      /\ MaxKept \in Nat /\ MaxEntries \in Nat
  <2>1. memory' = [kept |-> <<>>, doomed |-> <<>>]
    BY CrashStep
  <2>2. MaxKept \in Nat /\ MaxEntries \in Nat
    BY MemoryAssumption, JournalAssumption
  <2> QED  BY <2>1, <2>2
<1>2. todo' \in [Requests -> Seq(Bindings)] /\ queue' \in Seq(Requests)
  BY CrashStep DEF Crash
<1>3. TypeOK'
  BY <1>1, <1>2, CrashStep DEF TypeInv, TypeOK
<1>4. \A r \in Requests : ~Sweeping(r)' /\ ~Retaining(r)'
  BY CrashStep DEF Sweeping, Retaining
<1> QED  BY <1>3, <1>4 DEF TypeInv

\* The steps of the facilitator's side.
LEMMA ChainStep ==
    ASSUME TypeInv, NEW r \in Requests, Chain(r)
    PROVE  /\ UNCHANGED <<disk, now, epoch, memory, queue, phase, bind, held, todo,
                          answer, served>>
           /\ spend[r] = "dispatched" /\ spend'[r] \in {"executed", "rejected"}
           /\ spend' \in [Requests -> {"none", "dispatched", "executed", "rejected"}]
           /\ \A q \in Requests \ {r} : spend'[q] = spend[q]
           /\ spend'[r] = "executed" => ~Expired(bind[r])
BY DEF Chain, ChainExecutes, ChainRejects, TypeInv, TypeOK

LEMMA NextTyped == TypeInv /\ [Next]_vars => TypeInv'
<1> SUFFICES ASSUME TypeInv, [Next]_vars PROVE TypeInv'
  OBVIOUS
<1>1. CASE Tick
  BY <1>1 DEF Tick, TypeInv, TypeOK, Sweeping, Retaining
<1>2. CASE Crash
  BY <1>2, CrashTyped
<1>3. ASSUME NEW r \in Requests, Start(r) \/ Handle(r)
      PROVE  TypeInv'
  BY <1>3, StartStep, ClaimStep, ExecuteStep, KeepStep, CallStepTyped DEF Handle
<1>4. ASSUME NEW r \in Requests, Chain(r)
      PROVE  TypeInv'
  BY <1>4, ChainStep DEF TypeInv, TypeOK, Sweeping, Retaining
<1>5. CASE UNCHANGED vars
  BY <1>5 DEF vars, TypeInv, TypeOK, Sweeping, Retaining
<1> QED  BY <1>1, <1>2, <1>3, <1>4, <1>5 DEF Next

LEMMA TypeInvHolds == Spec => []TypeInv
BY InitTyped, NextTyped, PTL DEF Spec

\* The journal, the two maps, the queue and the calls keep their types, and
\* the maps their bounds: maxUnpersistedEntries after every prune, maxEntries
\* after every rememberDoomed.
THEOREM McpTypeCorrect == Spec => []TypeOK
<1>1. TypeInv => TypeOK
  BY DEF TypeInv
<1> QED  BY <1>1, TypeInvHolds, PTL

-----------------------------------------------------------------------------
(* One settlement for each credential, and none for a rival of it.         *)

\* The calls before their settlement have spent nothing.
LEMMA NextUnspent == TypeInv /\ UnspentInv /\ [Next]_vars => UnspentInv'
<1> SUFFICES ASSUME TypeInv, UnspentInv, [Next]_vars PROVE UnspentInv'
  OBVIOUS
<1>1. CASE Tick \/ UNCHANGED vars
  BY <1>1 DEF Tick, vars, UnspentInv, Spent
<1>2. CASE Crash
  BY <1>2, CrashStep DEF UnspentInv, Spent, Early
<1>3. ASSUME NEW r \in Requests, Start(r) \/ Handle(r)
      PROVE  UnspentInv'
  <2>1. Moves(r) /\ OwnStep(r)
    BY <1>3, StartStep, ClaimStep, ExecuteStep, KeepStep DEF Handle, CallStep, Turn
  <2>2. ASSUME NEW q \in Requests, phase'[q] \in Early PROVE ~Spent(q)'
    <3>1. CASE q = r
      BY <2>1, <2>2, <3>1 DEF Moves, UnspentInv, Spent
    <3>2. CASE q # r
      <4>1. phase'[q] = phase[q] /\ spend'[q] = spend[q]
        BY <2>1, <3>2 DEF OwnStep, Moves, TypeInv, TypeOK
      <4> QED  BY <2>2, <4>1 DEF UnspentInv, Spent
    <3> QED  BY <3>1, <3>2
  <2> QED  BY <2>2 DEF UnspentInv
<1>4. ASSUME NEW r \in Requests, Chain(r)
      PROVE  UnspentInv'
  <2>1. \A q \in Requests : Spent(q)' => Spent(q)
    BY <1>4, ChainStep DEF Spent
  <2> QED  BY <1>4, <2>1, ChainStep DEF UnspentInv
<1> QED  BY <1>1, <1>2, <1>3, <1>4 DEF Next

\* Whatever a call knows of is held by somebody.
LEMMA KnewHeld ==
    ASSUME TypeInv, NEW r \in Requests, NEW b \in Knew(r)
    PROVE  Known(b) \/ (b = bind[r] /\ Concludes(r) /\ Running(r) /\ ~Running(r)')
<1>1. Concludes(r) => Running(r) /\ ~Running(r)'
  BY DEF Concludes, Ends, Running, Late
<1> QED  BY <1>1 DEF Knew, Mine, Known

\* A step of a call keeps what was held; only a claim adds to it.
LEMMA HeldStep ==
    ASSUME TypeInv, NEW r \in Requests, CallStep(r)
    PROVE  /\ \A b : Known(b)' =>
                \/ Known(b)
                \/ b = bind[r] /\ Concludes(r) /\ Running(r) /\ ~Running(r)'
           /\ \A q \in Requests : Claims(q)' => Claims(q) \/ (q = r /\ ClaimReserves(r))
           /\ \A q \in Requests : Running(q)' => Running(q) \/ (q = r /\ ClaimReserves(r))
           /\ \A b : Holds(b)' => Holds(b) \/ (b = bind[r] /\ ClaimReserves(r))
<1>1. bind' = bind /\ Knows(r) \subseteq Knew(r) /\ OwnStep(r) /\ Moves(r)
  BY DEF CallStep, Turn
<1>2. ASSUME NEW b, Known(b)'
      PROVE  \/ Known(b)
             \/ b = bind[r] /\ Concludes(r) /\ Running(r) /\ ~Running(r)'
  <2>1. CASE b \in Knows(r)
    BY <1>1, <2>1, KnewHeld
  <2>2. CASE b \notin Knows(r)
    <3>1. PICK q \in Requests : b \in Range(todo'[q]) \/ (Retaining(q)' /\ bind'[q] = b)
      BY <1>2, <2>2 DEF Known, Knows
    <3>2. q # r
      BY <1>1, <2>2, <3>1 DEF Knows
    <3>3. phase'[q] = phase[q] /\ todo'[q] = todo[q]
      BY <1>1, <3>2 DEF OwnStep
    <3> QED  BY <1>1, <3>1, <3>3 DEF Known, Retaining
  <2> QED  BY <2>1, <2>2
<1>3. ASSUME NEW q \in Requests
      PROVE  /\ Running(q)' => Running(q) \/ (q = r /\ ClaimReserves(r))
             /\ Spent(q)' => Spent(q) \/ Running(q)
  <2>1. CASE q = r
    <3>1. Running(r)' => Running(r) \/ ClaimReserves(r)
      BY <1>1 DEF Moves
    <3>2. Spent(r)' => Spent(r) \/ Running(r)
      BY <1>1 DEF Moves, Spent, Running
    <3> QED  BY <2>1, <3>1, <3>2
  <2>2. CASE q # r
    <3>1. phase'[q] = phase[q] /\ spend'[q] = spend[q]
      BY <1>1, <2>2 DEF OwnStep, Moves, TypeInv, TypeOK
    <3> QED  BY <3>1 DEF Running, Spent
  <2> QED  BY <2>1, <2>2
<1>4. \A q \in Requests : Claims(q)' => Claims(q) \/ (q = r /\ ClaimReserves(r))
  BY <1>3 DEF Claims
<1>5. ASSUME NEW b, Holds(b)'
      PROVE  Holds(b) \/ (b = bind[r] /\ ClaimReserves(r))
  <2>1. CASE Known(b)'
    BY <1>2, <2>1 DEF Holds, Claims
  <2>2. CASE \E q \in Requests : Claims(q)' /\ bind'[q] = b
    BY <1>1, <1>4, <2>2 DEF Holds
  <2> QED  BY <1>5, <2>1, <2>2 DEF Holds
<1> QED  BY <1>2, <1>3, <1>4, <1>5

\* A reservation is made only for a binding that nobody holds, and that has
\* no rival whose reservation or marker still guards it.
LEMMA FreshReservation ==
    ASSUME TypeInv, SpendInv, ReuseWithinGrace, NEW r \in Requests,
           phase[r] = "claiming", Reservable(bind[r]),
           Commit(Reserved(Recs, bind[r], now))
    PROVE  /\ bind[r] \in Dated
           /\ \A c \in Bindings :
                Holds(c) => /\ Key[c] # Key[bind[r]]
                            /\ Guarded(c) => ~Related(c, bind[r]) /\ ~Related(bind[r], c)
<1> DEFINE b == bind[r]
<1>1. Reservable(b) /\ Commit(Reserved(Recs, b, now))
  OBVIOUS
<1>2. b \in Dated
  BY DEF SpendInv, HeldIsDated
<1>3. now < Until[b] /\ Found(Recs, b) = {}
  <2>1. now \in Nat /\ Until[b] \in Nat /\ b \in Bindings
    BY CallTyped, JournalAssumption DEF StoreOK
  <2> QED  BY <1>1, <1>2, <2>1, CommitRecognises DEF Reservable, Expired
<1>4. ASSUME NEW c \in Bindings, Holds(c)
      PROVE  /\ Key[c] # Key[b]
             /\ Guarded(c) => ~Related(c, b) /\ ~Related(b, c)
  <2>1. CASE Guarded(c)
    <3>1. PICK rec \in Recs : rec.binding = c
      BY <1>4, <2>1 DEF SpendInv, HeldHasRecord, HasRecord
    <3>2. ~Matches(b, rec)
      BY <1>3 DEF Found
    <3> QED  BY <3>1, <3>2 DEF Matches, Related
  <2>2. CASE ~Guarded(c)
    <3>1. c \in Dated
      BY <1>4 DEF SpendInv, HeldIsDated
    <3>2. Key[c] = Key[b] => Until[b] <= Until[c] + Grace
      BY <1>2, <3>1 DEF ReuseWithinGrace
    <3>3. /\ now \in Nat /\ Until[b] \in Nat /\ Until[c] \in Nat /\ Grace \in Nat
      BY CallTyped, JournalAssumption DEF StoreOK
    <3>4. ~(Until[b] <= Until[c] + Grace)
      BY <1>3, <2>2, <3>3 DEF Guarded
    <3> QED  BY <2>2, <3>2, <3>4
  <2> QED  BY <2>1, <2>2
<1> QED  BY <1>2, <1>4

LEMMA FreshClaim ==
    ASSUME TypeInv, SpendInv, ReuseWithinGrace, NEW r \in Requests, ClaimReserves(r)
    PROVE  /\ bind[r] \in Dated
           /\ \A c \in Bindings :
                Holds(c) => /\ Key[c] # Key[bind[r]]
                            /\ Guarded(c) => ~Related(c, bind[r]) /\ ~Related(bind[r], c)
BY FreshReservation DEF ClaimReserves, Claiming

\* What a call writes leaves a record for every binding that stays held.
LEMMA WritesCarry ==
    ASSUME TypeInv, SpendInv, UnspentInv, NEW r \in Requests, CallStep(r),
           NEW new, Writes(r, new), Commit(new),
           NEW b \in Bindings, Holds(b)', Holds(b), Guarded(b)
    PROVE  \E rec \in new : rec.binding = b
<1>1. PICK rec \in Recs : rec.binding = b
  BY DEF SpendInv, HeldHasRecord, HasRecord
<1>2. /\ Recs \in SUBSET Records /\ Live(Recs, now) = Recs /\ now \in Nat
      /\ bind[r] \in Bindings /\ held[r] \in NoneOrCall /\ bind' = bind
  BY CallTyped, StoreRead DEF StoreOK, CallStep, Turn
<1>3. Carries(Recs, new, b) => \E kept \in new : kept.binding = b
  BY <1>1 DEF Carries
<1>4. CASE new = Recs
  BY <1>1, <1>4
<1>5. CASE new = Reserved(Recs, bind[r], now)
  BY <1>2, <1>3, <1>5, ReservedRecords
<1>6. CASE new = MarkedSpend(Recs, bind[r])
  BY <1>2, <1>3, <1>6, MarkedRecords
<1>7. CASE phase[r] = "releasing" /\ phase'[r] = "done" /\ new = Released(Recs, bind[r])
  <2>1. Running(r) /\ ~Running(r)' /\ ~Concludes(r) /\ ~ClaimReserves(r)
    BY <1>7 DEF Running, Concludes, Ends, ClaimReserves, Claiming
  <2>2. ~Spent(r)'
    BY <1>7 DEF CallStep, Moves, UnspentInv, Early, Spent
  <2>3. ASSUME b = bind[r] PROVE FALSE
    <3>1. ~Known(b)'
      BY <2>1, <2>3, HeldStep DEF SpendInv, RunningHasNoOutcome
    <3>2. PICK q \in Requests : Claims(q)' /\ bind'[q] = b
      BY <3>1 DEF Holds
    <3>3. q # r
      BY <2>1, <2>2, <3>2 DEF Claims
    <3>4. Claims(q) /\ Claims(r) /\ bind[q] = bind[r]
      BY <1>2, <2>1, <2>3, <3>2, <3>3, HeldStep DEF Claims
    <3> QED  BY <3>3, <3>4 DEF SpendInv, SoleClaimant
  <2> QED  BY <1>2, <1>3, <1>7, <2>3, ReleasedRecords
<1>8. ASSUME NEW c \in Bindings, NEW q \in NoneOrCall, Holds(c),
             new = Retained(Recs, c, now, q)
      PROVE  \E kept \in new : kept.binding = b
  <2>1. CASE b = c
    BY <1>2, <1>8, <2>1, RetainedRecords DEF NoneOrCall
  <2>2. CASE b # c
    <3>1. Key[b] # Key[c]
      BY <1>8, <2>2 DEF SpendInv, KeysApart
    <3> QED  BY <1>2, <1>3, <1>8, <3>1, RetainedRecords DEF NoneOrCall
  <2> QED  BY <2>1, <2>2
<1>9. CASE \E c \in GivesUp(r) : new = Retained(Recs, c, now, NoRequest)
  <2>1. PICK c \in Knew(r) : new = Retained(Recs, c, now, NoRequest)
    BY <1>9, GivesUpKnown
  <2>2. c \in Bindings /\ Holds(c) /\ NoRequest \in NoneOrCall
    BY KnewTyped, KnewHeld DEF Holds, Claims, NoneOrCall
  <2> QED  BY <1>8, <2>1, <2>2
<1>10. CASE phase[r] = "storing" /\ new = Retained(Recs, bind[r], now, held[r])
  <2>1. Holds(bind[r])
    BY <1>10 DEF Holds, Known, Retaining
  <2> QED  BY <1>2, <1>8, <1>10, <2>1
<1> QED  BY <1>4, <1>5, <1>6, <1>7, <1>9, <1>10 DEF Writes

LEMMA CallKeepsSpendInv ==
    ASSUME TypeInv, SpendInv, UnspentInv, ReuseWithinGrace, NEW r \in Requests, CallStep(r)
    PROVE  SpendInv'
<1>1. /\ bind' = bind /\ now' = now /\ epoch' = epoch /\ OwnStep(r)
      /\ WritesOnce(r) /\ Moves(r)
  BY DEF CallStep, Turn
<1>2. StoreOK /\ (Sound(disk.recs) => Sound(Recs))
  BY CallTyped, StoreRead
<1>3. ClaimReserves(r) => ~Running(r)
  BY DEF ClaimReserves, Claiming, Running
<1>4. Sound(disk.recs)'
  <2>1. CASE UNCHANGED disk
    BY <2>1 DEF SpendInv, Sound
  <2>2. CASE \E new : Writes(r, new) /\ Commit(new)
    <3>1. PICK new : Writes(r, new) /\ Commit(new)
      BY <2>2
    <3>2. disk'.recs = new /\ Sound(new)
      BY <1>2, <3>1, WritesTyped DEF SpendInv
    <3> QED  BY <3>2 DEF Sound
  <2> QED  BY <1>1, <2>1, <2>2 DEF WritesOnce
<1>5. HeldIsDated'
  <2>1. \A b \in Bindings : Holds(b)' => b \in Dated
    BY HeldStep, FreshClaim DEF SpendInv, HeldIsDated
  <2>2. ASSUME NEW q \in Requests, phase'[q] = "claiming" PROVE bind'[q] \in Dated
    <3>1. CASE q = r
      BY <1>1, <2>2, <3>1 DEF Moves
    <3>2. CASE q # r
      BY <1>1, <2>2, <3>2 DEF OwnStep, SpendInv, HeldIsDated
    <3> QED  BY <3>1, <3>2
  <2> QED  BY <2>1, <2>2 DEF HeldIsDated
<1>6. HeldHasRecord'
  <2>1. ASSUME NEW b \in Bindings, Holds(b)', Guarded(b)'
        PROVE  HasRecord(b)'
    <3>1. Guarded(b)
      BY <1>1, <2>1 DEF Guarded
    <3>2. CASE ClaimReserves(r) /\ b = bind[r]
      <4>1. /\ Commit(Reserved(Recs, bind[r], now)) /\ Reservable(bind[r])
            /\ phase[r] = "claiming"
        BY <3>2 DEF ClaimReserves, Claiming
      <4>2. Writes(r, Reserved(Recs, bind[r], now))
        BY <4>1 DEF Writes
      <4>3. Recs' = Reserved(Recs, bind[r], now)
        BY <1>1, <4>1, <4>2, WritesTyped
      <4>4. ReservationOf(bind[r], now) \in Recs' /\ ReservationOf(bind[r], now).binding = b
        BY <3>2, <4>3 DEF Reserved, ReservationOf
      <4> QED  BY <4>4 DEF HasRecord
    <3>3. CASE Holds(b)
      <4>1. CASE UNCHANGED disk
        <5>1. Recs' = Recs
          BY <1>1, <4>1 DEF Recs
        <5> QED  BY <3>1, <3>3, <5>1 DEF SpendInv, HeldHasRecord, HasRecord
      <4>2. CASE \E new : Writes(r, new) /\ Commit(new)
        <5>1. PICK new : Writes(r, new) /\ Commit(new)
          BY <4>2
        <5>2. \E rec \in new : rec.binding = b
          BY <2>1, <3>1, <3>3, <5>1, WritesCarry
        <5>3. Recs' = new
          BY <1>1, <5>1, WritesTyped
        <5> QED  BY <5>2, <5>3 DEF HasRecord
      <4> QED  BY <1>1, <4>1, <4>2 DEF WritesOnce
    <3> QED  BY <2>1, <3>2, <3>3, HeldStep
  <2> QED  BY <2>1 DEF HeldHasRecord
<1>7. RunningHasNoOutcome'
  <2>1. ASSUME NEW q \in Requests, Running(q)', Known(bind[q])' PROVE FALSE
    <3>1. Known(bind[q]) \/ (bind[q] = bind[r] /\ Concludes(r) /\ Running(r) /\ ~Running(r)')
      BY <1>1, <2>1, HeldStep
    <3>2. CASE Running(q)
      <4>1. bind[q] = bind[r] /\ Running(r) /\ ~Running(r)'
        BY <3>1, <3>2 DEF SpendInv, RunningHasNoOutcome
      <4>2. q = r
        BY <3>2, <4>1 DEF SpendInv, SoleClaimant, Claims
      <4> QED  BY <2>1, <4>1, <4>2
    <3>3. CASE q = r /\ ClaimReserves(r)
      <4>1. Holds(bind[r]) /\ bind[r] \in Bindings
        BY <1>3, <3>1, <3>3, CallTyped DEF Holds
      <4> QED  BY <3>3, <4>1, FreshClaim
    <3> QED  BY <2>1, <3>2, <3>3, HeldStep
  <2> QED  BY <1>1, <2>1 DEF RunningHasNoOutcome
<1>8. SoleClaimant'
  <2>1. ASSUME NEW p \in Requests, NEW q \in Requests, Claims(p)', Claims(q)',
               bind[p] = bind[q], p # q
        PROVE  FALSE
    <3>1. CASE Claims(p) /\ Claims(q)
      BY <2>1, <3>1 DEF SpendInv, SoleClaimant
    <3>2. CASE ClaimReserves(r) /\ (p = r \/ q = r)
      <4>1. PICK o \in Requests : Claims(o) /\ bind[o] = bind[r]
        BY <2>1, <3>2, HeldStep
      <4>2. Holds(bind[r]) /\ bind[r] \in Bindings
        BY <4>1, CallTyped DEF Holds
      <4> QED  BY <3>2, <4>2, FreshClaim
    <3> QED  BY <2>1, <3>1, <3>2, HeldStep
  <2> QED  BY <1>1, <2>1 DEF SoleClaimant
<1>9. KeysApart'
  <2>1. ASSUME NEW b \in Bindings, NEW c \in Bindings, Holds(b)', Holds(c)', b # c
        PROVE  /\ Key[b] # Key[c]
               /\ Guarded(b) /\ Guarded(c) => ~Related(b, c)
    <3>1. CASE Holds(b) /\ Holds(c)
      BY <2>1, <3>1 DEF SpendInv, KeysApart
    <3>2. CASE ClaimReserves(r) /\ b = bind[r] /\ Holds(c)
      BY <3>2, FreshClaim
    <3>3. CASE ClaimReserves(r) /\ c = bind[r] /\ Holds(b)
      BY <3>3, FreshClaim
    <3> QED  BY <2>1, <3>1, <3>2, <3>3, HeldStep
  <2>2. \A b : Guarded(b)' = Guarded(b)
    BY <1>1 DEF Guarded
  <2> QED  BY <2>1, <2>2 DEF KeysApart
<1> QED  BY <1>4, <1>5, <1>6, <1>7, <1>8, <1>9 DEF SpendInv

\* Steps outside the calls hold nothing new.
LEMMA HeldLess ==
    ASSUME SpendInv, bind' = bind, now' = now, disk' = disk,
           \A b : Known(b)' => Known(b),
           \A q \in Requests : Running(q)' => Running(q),
           \A q \in Requests : Spent(q)' => Spent(q),
           \A q \in Requests : phase'[q] = "claiming" => phase[q] = "claiming"
    PROVE  SpendInv'
<1>1. \A q \in Requests : Claims(q)' => Claims(q)
  BY DEF Claims
<1>2. \A b : Holds(b)' => Holds(b)
  BY <1>1 DEF Holds
<1>3. Recs' = Recs /\ \A b : Guarded(b)' = Guarded(b)
  BY DEF Recs, Guarded
<1>4. Sound(disk.recs)' /\ HeldIsDated'
  BY <1>2 DEF SpendInv, HeldIsDated, Sound
<1>5. HeldHasRecord' /\ KeysApart'
  BY <1>2, <1>3 DEF SpendInv, HeldHasRecord, HasRecord, KeysApart
<1>6. RunningHasNoOutcome' /\ SoleClaimant'
  BY <1>1 DEF SpendInv, RunningHasNoOutcome, SoleClaimant
<1> QED  BY <1>4, <1>5, <1>6 DEF SpendInv

LEMMA TickKeepsSpendInv ==
    ASSUME TypeInv, SpendInv, Tick
    PROVE  SpendInv'
<1>1. /\ now' = now + 1 /\ now \in Nat
      /\ UNCHANGED <<disk, epoch, memory, queue, phase, bind, held, todo, spend, answer, served>>
  BY DEF Tick, TypeInv, TypeOK
<1>2. /\ \A b : Known(b)' = Known(b)
      /\ \A q \in Requests : Running(q)' = Running(q) /\ Claims(q)' = Claims(q)
  BY <1>1 DEF Known, Names, Retaining, Running, Claims, Spent
<1>3. \A b : Holds(b)' = Holds(b)
  BY <1>1, <1>2 DEF Holds
<1>4. \A b \in Bindings : Guarded(b)' => Guarded(b)
  BY <1>1, JournalAssumption DEF Guarded
<1>5. ASSUME NEW b \in Bindings, Holds(b), Guarded(b)' PROVE HasRecord(b)'
  <2>1. PICK rec \in Recs : rec.binding = b
    BY <1>4, <1>5 DEF SpendInv, HeldHasRecord, HasRecord
  <2>2. rec \in disk.recs /\ b \in Dated /\ rec \in Records
    BY <1>5, <2>1, CallTyped, StoreRead
      DEF Recs, Live, SpendInv, HeldIsDated, TypeInv, TypeOK, Journals
  <2>3. rec.expiresAt >= Until[b] + Grace
    BY <2>1, <2>2 DEF SpendInv, Sound
  <2>4. rec.expiresAt \in Nat /\ Until[b] \in Nat /\ Grace \in Nat
    BY <2>2, JournalAssumption DEF Records
  <2>5. rec.expiresAt > now'
    BY <1>1, <1>5, <2>3, <2>4 DEF Guarded
  <2>6. rec \in Recs'
    BY <1>1, <2>2, <2>5 DEF Recs, Live
  <2> QED  BY <2>1, <2>6 DEF HasRecord
<1>6. Sound(disk.recs)' /\ HeldIsDated'
  BY <1>1, <1>3 DEF SpendInv, HeldIsDated, Sound
<1>7. HeldHasRecord'
  BY <1>3, <1>5 DEF HeldHasRecord
<1>8. RunningHasNoOutcome' /\ SoleClaimant' 
  BY <1>1, <1>2 DEF SpendInv, RunningHasNoOutcome, SoleClaimant
<1>9. KeysApart'
  BY <1>3, <1>4 DEF SpendInv, KeysApart
<1> QED  BY <1>6, <1>7, <1>8, <1>9 DEF SpendInv

LEMMA InitSpendInv == Init => SpendInv /\ UnspentInv
<1> SUFFICES ASSUME Init PROVE SpendInv /\ UnspentInv
  OBVIOUS
<1>1. \A r \in Requests : ~Claims(r) /\ ~Running(r) /\ ~Retaining(r) /\ phase[r] = "idle"
  BY DEF Init, Claims, Running, Spent, Retaining
<1>2. Names(memory) = {}
  <2>1. memory.kept = <<>> /\ memory.doomed = <<>> /\ Range(<<>>) = {}
    BY DEF Init, Range
  <2> QED  BY <2>1 DEF Names
<1>3. \A r \in Requests : Range(todo[r]) = {}
  BY DEF Init, Range
<1>4. \A b : ~Holds(b)
  BY <1>1, <1>2, <1>3 DEF Holds, Known
<1>5. disk.recs = {}
  BY DEF Init
<1> QED
  BY <1>1, <1>4, <1>5
    DEF SpendInv, Sound, HeldIsDated, HeldHasRecord, RunningHasNoOutcome,
        SoleClaimant, KeysApart, UnspentInv, Init, Spent

LEMMA NextSpendInv ==
    ASSUME TypeInv, SpendInv, UnspentInv, ReuseWithinGrace, [Next]_vars
    PROVE  SpendInv'
<1>1. CASE Tick
  BY <1>1, TickKeepsSpendInv
<1>2. CASE Crash
  <2>1. \A q \in Requests : /\ ~Running(q)' /\ ~Retaining(q)' /\ phase'[q] # "claiming"
                            /\ Range(todo'[q]) = {}
    <3>1. Range(<<>>) = {}
      BY DEF Range
    <3> QED  BY <1>2, <3>1, CrashStep DEF Running, Retaining
  <2>2. \A b : ~Known(b)'
    BY <1>2, <2>1, CrashStep DEF Known
  <2> QED  BY <1>2, <2>1, <2>2, CrashStep, HeldLess DEF Spent
<1>3. ASSUME NEW r \in Requests, Start(r) \/ Handle(r)
      PROVE  SpendInv'
  <2>1. CallStep(r)
    BY <1>3, StartStep, ClaimStep, ExecuteStep, KeepStep DEF Handle
  <2> QED  BY <2>1, CallKeepsSpendInv
<1>4. ASSUME NEW r \in Requests, Chain(r)
      PROVE  SpendInv'
  <2>1. \A q \in Requests : Spent(q)' => Spent(q)
    BY <1>4, ChainStep DEF Spent
  <2>2. \A q \in Requests : Running(q)' = Running(q)
    BY <1>4, ChainStep DEF Running
  <2>3. \A b : Known(b)' = Known(b)
    BY <1>4, ChainStep DEF Known, Names, Retaining
  <2> QED  BY <1>4, <2>1, <2>2, <2>3, ChainStep, HeldLess
<1>5. CASE UNCHANGED vars
  <2>1. \A q \in Requests : Running(q)' = Running(q) /\ Spent(q)' = Spent(q)
    BY <1>5 DEF vars, Running, Spent
  <2>2. \A b : Known(b)' = Known(b)
    BY <1>5 DEF vars, Known, Names, Retaining
  <2> QED  BY <1>5, <2>1, <2>2, HeldLess DEF vars
<1> QED  BY <1>1, <1>2, <1>3, <1>4, <1>5 DEF Next

LEMMA SpendInvHolds == ReuseWithinGrace /\ Spec => [](TypeInv /\ SpendInv /\ UnspentInv)
<1>1. Init => TypeInv /\ SpendInv /\ UnspentInv
  BY InitTyped, InitSpendInv
<1>2. ReuseWithinGrace /\ TypeInv /\ SpendInv /\ UnspentInv /\ [Next]_vars
        => (TypeInv /\ SpendInv /\ UnspentInv)'
  BY NextTyped, NextSpendInv, NextUnspent
<1>3. ReuseWithinGrace => ReuseWithinGrace'
  OBVIOUS
<1> QED  BY <1>1, <1>2, <1>3, PTL DEF Spec

\* Two tool calls whose credentials share a payment identifier or a signed
\* nonce never both have a settlement that can still move money, through
\* restarts, failing writes and results given up by the memory (claim and
\* markSettlementAttempt before the facilitator is called, persistResponse).
THEOREM NoRivalSpendHolds == ReuseWithinGrace /\ Spec => []NoRivalSpend
<1>1. TypeInv /\ SpendInv => NoRivalSpend
  <2> SUFFICES ASSUME TypeInv, SpendInv, NEW r \in Requests, NEW q \in Requests,
                      LiveSpend(r), LiveSpend(q), Related(bind[r], bind[q])
               PROVE  r = q
    BY DEF NoRivalSpend
  <2>1. Claims(r) /\ Claims(q)
    BY DEF LiveSpend, Claims, Spent
  <2>2. /\ bind[r] \in Bindings /\ bind[q] \in Bindings
        /\ Holds(bind[r]) /\ Holds(bind[q])
    BY <2>1, CallTyped DEF Holds
  <2>3. Guarded(bind[r]) /\ Guarded(bind[q])
    <3>1. ASSUME NEW b \in Bindings, Holds(b), ~Expired(b) PROVE Guarded(b)
      <4>1. b \in Dated
        BY <3>1 DEF SpendInv, HeldIsDated
      <4>2. now \in Nat /\ Until[b] \in Nat /\ Grace \in Nat
        BY JournalAssumption DEF TypeInv, TypeOK
      <4> QED  BY <3>1, <4>1, <4>2 DEF Expired, Guarded
    <3> QED  BY <2>2, <3>1 DEF LiveSpend
  <2>4. bind[r] = bind[q]
    BY <2>2, <2>3 DEF SpendInv, KeysApart
  <2> QED  BY <2>1, <2>4 DEF SpendInv, SoleClaimant
<1> QED  BY <1>1, SpendInvHolds, PTL

-----------------------------------------------------------------------------
(* The results belong to the requests they are served for.                 *)

\* Belongs after the step, of a result and a binding of now.
Belonging(q, b) ==
    q # NoRequest => /\ q \in Requests /\ bind'[q] = b
                     /\ phase'[q] \in Late /\ spend'[q] \in {"none", "executed"}

\* A result, once final, stays so through every step of any call.
LEMMA BelongsStays ==
    ASSUME TypeInv, NEW r \in Requests, CallStep(r), NEW q, NEW b, Belongs(q, b)
    PROVE  Belonging(q, b)
<1>1. bind' = bind /\ OwnStep(r) /\ Moves(r)
  BY DEF CallStep, Turn
<1>2. ASSUME q \in Requests, Final(q) PROVE Final(q)'
  <2>1. CASE q = r
    <3>1. phase'[r] \in Late /\ phase[r] # "marking"
      BY <1>1, <1>2, <2>1 DEF Moves, Final, Late
    <3> QED  BY <1>1, <1>2, <2>1, <3>1 DEF Moves, Final
  <2>2. CASE q # r
    <3>1. phase'[q] = phase[q] /\ spend'[q] = spend[q]
      BY <1>1, <1>2, <2>2 DEF OwnStep, Moves, TypeInv, TypeOK
    <3> QED  BY <1>2, <3>1 DEF Final
  <2> QED  BY <2>1, <2>2
<1> QED  BY <1>1, <1>2 DEF Belongs, Belonging, Final

\* What a call passes on belongs to its own request.
LEMMA SourceBelongs ==
    ASSUME TypeInv, UnspentInv, ResultInv, NEW r \in Requests, CallStep(r),
           NEW q \in NoneOrCall, Source(r, q)
    PROVE  Belonging(q, bind[r])
<1>1. bind' = bind /\ OwnStep(r) /\ Moves(r)
  BY DEF CallStep, Turn
<1>2. CASE q = NoRequest
  BY <1>2 DEF Belonging
<1>3. CASE Concludes(r) /\ q = r
  <2>1. phase'[r] \in Late /\ phase[r] # "marking"
    BY <1>3 DEF Concludes, Ends
  <2>2. spend'[r] = spend[r]
    BY <1>1, <2>1 DEF Moves
  <2>3. spend[r] \in {"none", "executed"}
    BY <1>3 DEF Concludes, Ends, UnspentInv, Early, Spent
  <2> QED  BY <1>1, <1>3, <2>1, <2>2, <2>3 DEF Belonging
<1>4. CASE Belongs(q, bind[r])
  BY <1>1, <1>4, BelongsStays
<1>5. CASE Retaining(r) /\ q = held[r]
  BY <1>4, <1>5 DEF ResultInv
<1>6. CASE \E e \in Range(memory.kept) : e.binding = bind[r] /\ e.result = q
  BY <1>4, <1>6 DEF ResultInv
<1>7. CASE \E rec \in Recs : rec.binding = bind[r] /\ rec.result = q
  BY <1>4, <1>7 DEF ResultInv, Recs, Live
<1> QED  BY <1>2, <1>3, <1>5, <1>6, <1>7 DEF Source

\* What a call writes has the results that were on disk, or the one it holds.
LEMMA WrittenResults ==
    ASSUME TypeInv, NEW r \in Requests, NEW new, Writes(r, new), NEW rec \in new
    PROVE  \/ rec.result = NoRequest
           \/ \E old \in Recs : old.binding = rec.binding /\ old.result = rec.result
           \/ phase[r] = "storing" /\ rec.binding = bind[r] /\ rec.result = held[r]
<1>1. Recs \subseteq disk.recs /\ Recs \in SUBSET Records
  BY CallTyped, StoreRead DEF Recs, Live
<1>2. CASE new = Recs
  BY <1>1, <1>2
<1>3. CASE new = Reserved(Recs, bind[r], now)
  BY <1>1, <1>3 DEF Reserved, ReservationOf
<1>4. CASE new = MarkedSpend(Recs, bind[r])
  <2> DEFINE image(x) == [x EXCEPT !.attempted = TRUE]
  <2>1. \A x \in Records : image(x).binding = x.binding /\ image(x).result = x.result
    BY DEF Records
  <2>2. new = (Recs \ PendingOf(Recs, bind[r])) \cup {image(x) : x \in PendingOf(Recs, bind[r])}
    BY <1>4 DEF MarkedSpend
  <2>3. PendingOf(Recs, bind[r]) \subseteq Recs
    BY DEF PendingOf
  <2> HIDE DEF image
  <2>4. CASE rec \in Recs
    BY <1>1, <2>4
  <2>5. CASE \E x \in PendingOf(Recs, bind[r]) : rec = image(x)
    BY <1>1, <2>1, <2>3, <2>5
  <2> QED  BY <2>2, <2>4, <2>5
<1>5. CASE new = Released(Recs, bind[r])
  BY <1>1, <1>5 DEF Released
<1>6. CASE \E c \in GivesUp(r) : new = Retained(Recs, c, now, NoRequest)
  BY <1>1, <1>6 DEF Retained, CompletedOf
<1>7. CASE phase[r] = "storing" /\ new = Retained(Recs, bind[r], now, held[r])
  <2>1. rec \in Recs \/ rec = CompletedOf(bind[r], now, held[r])
    BY <1>7 DEF Retained
  <2> QED  BY <1>1, <1>7, <2>1 DEF CompletedOf
<1> QED  BY <1>2, <1>3, <1>4, <1>5, <1>6, <1>7 DEF Writes

LEMMA CallKeepsResultInv ==
    ASSUME TypeInv, UnspentInv, ResultInv, NEW r \in Requests, CallStep(r)
    PROVE  ResultInv'
<1>1. bind' = bind /\ OwnStep(r) /\ WritesOnce(r)
  BY DEF CallStep, Turn
<1>2. PICK q \in NoneOrCall : Passes(r, q)
  BY DEF CallStep, Turn
<1>3. Belonging(q, bind[r])
  BY <1>2, SourceBelongs DEF Passes
<1>4. ASSUME NEW rec \in disk'.recs PROVE Belonging(rec.result, rec.binding)
  <2>1. CASE UNCHANGED disk
    BY <1>4, <2>1, BelongsStays DEF ResultInv
  <2>2. CASE \E new : Writes(r, new) /\ Commit(new)
    <3>1. PICK new : Writes(r, new) /\ Commit(new)
      BY <2>2
    <3>2. rec \in new
      BY <1>4, <3>1, WritesTyped
    <3>3. \/ rec.result = NoRequest
          \/ \E old \in Recs : old.binding = rec.binding /\ old.result = rec.result
          \/ phase[r] = "storing" /\ rec.binding = bind[r] /\ rec.result = held[r]
      BY <3>1, <3>2, WrittenResults
    <3>4. Belongs(rec.result, rec.binding)
      BY <3>3 DEF ResultInv, Belongs, Recs, Live, Retaining
    <3> QED  BY <3>4, BelongsStays
  <2> QED  BY <1>1, <2>1, <2>2 DEF WritesOnce
<1>5. ASSUME NEW e \in Range(memory'.kept) PROVE Belonging(e.result, e.binding)
  <2>1. e \in Range(memory.kept) \/ (e.binding = bind[r] /\ e.result = q)
    BY <1>2, <1>5 DEF Passes
  <2> QED  BY <1>1, <1>3, <2>1, BelongsStays DEF ResultInv
<1>6. ASSUME NEW p \in Requests
      PROVE  /\ Retaining(p)' => Belonging(held'[p], bind'[p])
             /\ Belonging(served'[p], bind'[p])
  <2>1. CASE p = r
    <3>1. Retaining(r)' => held'[r] = q
      BY <1>2 DEF Passes
    <3>2. served'[r] \in {served[r], NoRequest, q}
      BY <1>2 DEF Passes
    <3>3. Belonging(served[r], bind[r]) /\ Belonging(NoRequest, bind[r])
      BY BelongsStays DEF ResultInv, Belonging
    <3> QED  BY <1>1, <1>3, <2>1, <3>1, <3>2, <3>3
  <2>2. CASE p # r
    <3>1. phase'[p] = phase[p] /\ held'[p] = held[p] /\ served'[p] = served[p]
      BY <1>1, <2>2 DEF OwnStep
    <3>2. Retaining(p)' => Belongs(held[p], bind[p])
      BY <3>1 DEF ResultInv, Retaining
    <3>3. Belongs(served[p], bind[p])
      BY DEF ResultInv
    <3> QED  BY <1>1, <3>1, <3>2, <3>3, BelongsStays
  <2> QED  BY <2>1, <2>2
<1> QED  BY <1>4, <1>5, <1>6 DEF ResultInv, Retaining, Belongs, Belonging, Final

LEMMA InitResultInv == Init => ResultInv
<1> SUFFICES ASSUME Init PROVE ResultInv
  OBVIOUS
<1>1. disk.recs = {} /\ \A r \in Requests : served[r] = NoRequest /\ ~Retaining(r)
  BY DEF Init, Retaining
<1>2. Range(memory.kept) = {}
  <2>1. memory.kept = <<>> /\ Range(<<>>) = {}
    BY DEF Init, Range
  <2> QED  BY <2>1
<1> QED  BY <1>1, <1>2 DEF ResultInv, Belongs

LEMMA NextResultInv ==
    ASSUME TypeInv, UnspentInv, ResultInv, [Next]_vars
    PROVE  ResultInv'
<1>1. CASE Tick \/ UNCHANGED vars
  BY <1>1 DEF Tick, vars, ResultInv, Belongs, Final, Retaining
<1>2. CASE Crash
  <2>1. \A q \in Requests : Final(q) => Final(q)'
    BY <1>2, CrashStep DEF Final, Late
  <2>2. \A q, b : Belongs(q, b) => Belonging(q, b)
    BY <1>2, <2>1, CrashStep DEF Belongs, Belonging, Final
  <2>3. Range(memory'.kept) = {}
    <3>1. memory'.kept = <<>> /\ Range(<<>>) = {}
      BY <1>2, CrashStep DEF Range
    <3> QED  BY <3>1
  <2>4. \A r \in Requests : ~Retaining(r)'
    BY <1>2, CrashStep DEF Retaining
  <2>5. /\ \A rec \in disk'.recs : Belonging(rec.result, rec.binding)
        /\ \A r \in Requests : Belonging(served'[r], bind'[r])
    BY <1>2, <2>2, CrashStep DEF ResultInv
  <2> QED  BY <2>3, <2>4, <2>5 DEF ResultInv, Belongs, Belonging, Final
<1>3. ASSUME NEW r \in Requests, Start(r) \/ Handle(r)
      PROVE  ResultInv'
  <2>1. CallStep(r)
    BY <1>3, StartStep, ClaimStep, ExecuteStep, KeepStep DEF Handle
  <2> QED  BY <2>1, CallKeepsResultInv
<1>4. ASSUME NEW r \in Requests, Chain(r)
      PROVE  ResultInv'
  <2>1. \A q \in Requests : Final(q) => Final(q)'
    BY <1>4, ChainStep DEF Final
  <2>2. \A q, b : Belongs(q, b) => Belonging(q, b)
    BY <1>4, <2>1, ChainStep DEF Belongs, Belonging, Final
  <2>3. /\ \A rec \in disk'.recs : Belonging(rec.result, rec.binding)
        /\ \A e \in Range(memory'.kept) : Belonging(e.result, e.binding)
        /\ \A q \in Requests : Retaining(q)' => Belonging(held'[q], bind'[q])
        /\ \A q \in Requests : Belonging(served'[q], bind'[q])
    BY <1>4, <2>2, ChainStep DEF ResultInv, Retaining
  <2> QED  BY <2>3 DEF ResultInv, Belongs, Belonging, Final, Retaining
<1> QED  BY <1>1, <1>2, <1>3, <1>4 DEF Next

LEMMA ResultInvHolds == Spec => [](TypeInv /\ UnspentInv /\ ResultInv)
<1>1. Init => TypeInv /\ UnspentInv /\ ResultInv
  BY InitTyped, InitSpendInv, InitResultInv
<1>2. TypeInv /\ UnspentInv /\ ResultInv /\ [Next]_vars
        => (TypeInv /\ UnspentInv /\ ResultInv)'
  BY NextTyped, NextUnspent, NextResultInv
<1> QED  BY <1>1, <1>2, PTL DEF Spec

\* A result a client gets back, from its own execution, from memory or from
\* the journal, is that of its own signed request, also when another
\* credential took the same payment identifier (recoverMcpResult,
\* decodeMcpRecord).  Nothing is assumed of the clients or the epochs.
THEOREM ResultsBelongHolds == Spec => []ResultsBelong
<1>1. ResultInv => ResultsBelong
  BY DEF ResultInv, ResultsBelong, Belongs
<1> QED  BY <1>1, ResultInvHolds, PTL

-----------------------------------------------------------------------------
(* A known outcome is not forgotten while its reservation stands.          *)

\* What a call writes leaves a completed record of b as it is, or leaves no
\* reservation of b.
LEMMA WrittenOutcomes ==
    ASSUME TypeInv, SpendInv, NEW r \in Requests, NEW new, Writes(r, new), Commit(new),
           NEW b \in Bindings
    PROVE  (\E rec \in Recs : rec.binding = b /\ ~rec.pending)
             => \/ \E rec \in new : rec.binding = b /\ ~rec.pending
                \/ ~\E rec \in new : rec.binding = b /\ rec.pending
<1>1. Recs \in SUBSET Records
  BY CallTyped, StoreRead
<1>2. ASSUME NEW c, NEW q, Key[c] = Key[b], new = Retained(Recs, c, now, q)
      PROVE  ~\E rec \in new : rec.binding = b /\ rec.pending
  BY <1>2 DEF Retained, CompletedOf
<1>3. ASSUME NEW c, NEW q, Key[c] # Key[b], new = Retained(Recs, c, now, q)
      PROVE  \A rec \in Recs : rec.binding = b => rec \in new
  BY <1>3 DEF Retained
<1>4. ASSUME NEW old \in Recs, old.binding = b, ~old.pending
      PROVE  \/ \E rec \in new : rec.binding = b /\ ~rec.pending
             \/ ~\E rec \in new : rec.binding = b /\ rec.pending
  <2>1. CASE new = Recs \/ new = Reserved(Recs, bind[r], now)
    BY <1>4, <2>1 DEF Reserved
  <2>2. CASE new = MarkedSpend(Recs, bind[r]) \/ new = Released(Recs, bind[r])
    <3>1. old \notin PendingOf(Recs, bind[r])
      BY <1>4 DEF PendingOf
    <3> QED  BY <1>4, <2>2, <3>1 DEF MarkedSpend, Released
  <2>3. CASE \E c, q : new = Retained(Recs, c, now, q)
    BY <1>2, <1>3, <1>4, <2>3
  <2> QED  BY <2>1, <2>2, <2>3 DEF Writes
<1> QED  BY <1>4

LEMMA CallRemembers ==
    ASSUME TypeInv, SpendInv, NEW r \in Requests, CallStep(r),
           NEW b \in Bindings, Remembered(b)
    PROVE  Remembered(b)' \/ ~Reserving(b)' \/ CrowdedOut(b)'
<1>1. /\ bind' = bind /\ now' = now /\ epoch' = epoch
      /\ WritesOnce(r) /\ Preserves(r) /\ Knew(r) \subseteq Bindings
  BY KnewTyped DEF CallStep, Turn
<1>2. CASE \E rec \in Recs : rec.binding = b /\ ~rec.pending
  <2>1. CASE UNCHANGED disk
    <3>1. Recs' = Recs
      BY <1>1, <2>1 DEF Recs
    <3> QED  BY <1>2, <3>1 DEF Remembered
  <2>2. CASE \E new : Writes(r, new) /\ Commit(new)
    <3>1. PICK new : Writes(r, new) /\ Commit(new)
      BY <2>2
    <3>2. Recs' = new
      BY <1>1, <3>1, WritesTyped
    <3>3. \/ \E rec \in new : rec.binding = b /\ ~rec.pending
          \/ ~\E rec \in new : rec.binding = b /\ rec.pending
      BY <1>2, <3>1, WrittenOutcomes
    <3> QED  BY <3>2, <3>3 DEF Remembered, Reserving
  <2> QED  BY <1>1, <2>1, <2>2 DEF WritesOnce
<1>3. CASE b \in Names(memory)
  <2>1. CASE b \in Names(memory') \/ Crowds(memory', b)
    BY <2>1 DEF Names, Crowds, Remembered, CrowdedOut
  <2>2. CASE Overwrites(b)
    <3>1. PICK c \in Bindings, q \in NoneOrCall :
            Key[c] = Key[b] /\ Commit(Retained(Recs, c, now, q))
      BY <2>2 DEF Overwrites
    <3>2. disk'.recs = Retained(Recs, c, now, q)
      BY <3>1 DEF Commit
    <3>3. ~\E rec \in disk'.recs : rec.binding = b /\ rec.pending
      BY <3>1, <3>2 DEF Retained, CompletedOf
    <3> QED  BY <3>3 DEF Reserving, Recs, Live
  <2>3. CASE \E c \in Knew(r) : c # b /\ Key[c] = Key[b]
    <3>1. PICK c \in Knew(r) : c # b /\ Key[c] = Key[b]
      BY <2>3
    <3>2. Holds(c) /\ Holds(b)
      BY <1>3, <3>1, KnewHeld DEF Holds, Claims, Known
    <3> QED  BY <1>1, <3>1, <3>2 DEF SpendInv, KeysApart
  <2> QED  BY <1>1, <1>3, <2>1, <2>2, <2>3 DEF Preserves
<1> QED  BY <1>2, <1>3 DEF Remembered, Names

LEMMA StepRemembers ==
    ASSUME TypeInv, SpendInv, [Next]_vars, ~Crash, NEW b \in Bindings, Remembered(b)
    PROVE  Remembered(b)' \/ ~Reserving(b)' \/ CrowdedOut(b)'
<1>1. CASE Tick
  <2>1. now' = now + 1 /\ now \in Nat /\ disk' = disk /\ memory' = memory
    BY <1>1 DEF Tick, TypeInv, TypeOK
  <2>2. CASE \E rec \in Recs : rec.binding = b /\ ~rec.pending
    <3>1. PICK rec \in Recs : rec.binding = b /\ ~rec.pending
      BY <2>2
    <3>2. \A other \in disk.recs : other.binding = b => other = rec
      BY <3>1 DEF Recs, Live, SpendInv, Sound
    <3>3. ~Reserving(b)'
      BY <2>1, <3>1, <3>2 DEF Reserving, Recs, Live
    <3> QED  BY <3>3
  <2>3. CASE b \in Names(memory)
    BY <2>1, <2>3 DEF Names, Remembered
  <2> QED  BY <2>2, <2>3 DEF Remembered, Names
<1>2. ASSUME NEW r \in Requests, Start(r) \/ Handle(r)
      PROVE  Remembered(b)' \/ ~Reserving(b)' \/ CrowdedOut(b)'
  <2>1. CallStep(r)
    BY <1>2, StartStep, ClaimStep, ExecuteStep, KeepStep DEF Handle
  <2> QED  BY <2>1, CallRemembers
<1>3. CASE UNCHANGED <<disk, now, memory>>
  BY <1>3 DEF Remembered, Recs
<1>4. ASSUME NEW r \in Requests, Chain(r)
      PROVE  UNCHANGED <<disk, now, memory>>
  BY <1>4, ChainStep
<1>5. CASE UNCHANGED vars
  BY <1>3, <1>5 DEF vars
<1> QED  BY <1>1, <1>2, <1>3, <1>4, <1>5 DEF Next

\* An outcome the process knows never turns back into an unknown one while
\* its reservation stands, whatever writes fail and however many results
\* compete for the memory: only the death of the process forgets it, or
\* maxEntries newer results that were given up (retainMcpResult,
\* pruneUnpersisted, rememberDoomed, sweepDoomed).
THEOREM OutcomeRememberedHolds == ReuseWithinGrace /\ Spec => OutcomeRemembered
<1>1. TypeInv /\ SpendInv /\ [Next]_vars
        => [Crash \/ \A b \in Bindings :
              Remembered(b) => Remembered(b)' \/ ~Reserving(b)' \/ CrowdedOut(b)']_vars
  BY StepRemembers
<1> QED  BY <1>1, SpendInvHolds, PTL DEF Spec, OutcomeRemembered

-----------------------------------------------------------------------------
(* A result on disk stays there.                                           *)

\* The calls that will put a result on disk.
Keeping(r) == phase[r] \in {"sweeping_to_retain", "storing"}

\* The result of b on disk, in memory or on its way there.
Circulates(b, q) ==
    \/ \E rec \in Recs : rec.binding = b /\ rec.result = q
    \/ \E e \in Range(memory.kept) : e.binding = b /\ e.result = q
    \/ \E r \in Requests : Keeping(r) /\ bind[r] = b /\ held[r] = q

\* The calls whose own result is not in circulation.
Barren(r) == Running(r) \/ phase[r] = "dooming"

NoResultYet ==
    \A r \in Requests : Barren(r) => \A q \in Requests : ~Circulates(bind[r], q)
OneResult ==
    \A b \in Bindings, p, q \in Requests : Circulates(b, p) /\ Circulates(b, q) => p = q
RecordsApart ==
    \A rec \in Recs, b \in Bindings :
        Holds(b) /\ rec.binding # b => Key[rec.binding] # Key[b]
PendingIsBare == \A rec \in disk.recs : rec.pending => rec.result = NoRequest

StoredInv == NoResultYet /\ OneResult /\ RecordsApart /\ PendingIsBare

\* An oversized result never gets into the memory, nor does the call that
\* doomed it store anything later.
Dooms(r) ==
    /\ phase[r] = "dooming" => memory'.kept = memory.kept /\ ~Keeping(r)'
    /\ phase'[r] = "dooming" => phase[r] = "settling" /\ memory' = memory

LEMMA PhaseOf ==
    ASSUME TypeOK, NEW r \in Requests, NEW p, phase' = [phase EXCEPT ![r] = p]
    PROVE  phase'[r] = p
BY DEF TypeOK

LEMMA RetainPhase ==
    ASSUME TypeOK, NEW r \in Requests, NEW q, NEW before, Retain(r, q, before)
    PROVE  phase'[r] # "dooming"
BY PhaseOf DEF Retain, StoreOrGiveUp, Sweep, Finish, Await

LEMMA AnsweredPhase ==
    ASSUME TypeOK, NEW r \in Requests, NEW mem, Answered(r, mem)
    PROVE  phase'[r] # "dooming"
BY PhaseOf, RetainPhase DEF Answered, Refuse, Finish, Await

LEMMA RecoverPhase ==
    ASSUME TypeOK, NEW r \in Requests, Recover(r)
    PROVE  phase'[r] # "dooming"
BY PhaseOf, AnsweredPhase DEF Recover, Sweep, Await

LEMMA DoomStep ==
    ASSUME TypeInv, NEW r \in Requests, Start(r) \/ Handle(r)
    PROVE  Dooms(r)
<1>1. TypeOK
  BY DEF TypeInv
<1>2. CASE Start(r)
  <2>1. phase[r] = "idle"
    BY <1>2 DEF Start, StartRecovery, RefuseUnbounded, StartRun
  <2>2. phase'[r] # "dooming"
    BY <1>1, <1>2, PhaseOf, RecoverPhase
      DEF Start, StartRecovery, RefuseUnbounded, StartRun, Refuse, Finish, Await
  <2> QED  BY <2>1, <2>2 DEF Dooms
<1>3. CASE Claim(r)
  <2>1. phase[r] = "claiming"
    BY <1>3 DEF Claim, ClaimThrows, ClaimConflict, ClaimHit, ClaimPending, ClaimRefused,
                ClaimReserves, Claiming
  <2>2. phase'[r] # "dooming"
    BY <1>1, <1>3, PhaseOf, RecoverPhase
      DEF Claim, ClaimThrows, ClaimConflict, ClaimHit, ClaimPending, ClaimRefused,
          ClaimReserves, Decoded, Refuse, Finish
  <2> QED  BY <2>1, <2>2 DEF Dooms
<1>4. CASE Execute(r)
  <2>1. phase[r] # "dooming"
    BY <1>4 DEF Execute, VerifyAndRun, EndUnpaid, EndInToolError, StartMark,
                MarkAndDispatch, MarkFails, ReleaseUnpaid, SettlementSucceeds,
                SettlementUnresolved
  <2>2. CASE SettlementSucceeds(r)
    <3>1. CASE Retain(r, r, memory)
      BY <1>1, <2>1, <3>1, RetainPhase DEF Dooms
    <3>2. CASE GiveUpOversized(r, r)
      BY <2>1, <2>2, <3>2 DEF SettlementSucceeds, GiveUpOversized, Dooms
    <3> QED  BY <2>2, <3>1, <3>2 DEF SettlementSucceeds
  <2>3. CASE ~SettlementSucceeds(r)
    <3>1. phase'[r] # "dooming"
      BY <1>1, <1>4, <2>3, PhaseOf, RetainPhase
        DEF Execute, VerifyAndRun, EndUnpaid, EndInToolError, StartMark,
            MarkAndDispatch, MarkFails, ReleaseUnpaid, SettlementUnresolved,
            Refuse, Finish, Await
    <3> QED  BY <2>1, <3>1 DEF Dooms
  <2> QED  BY <2>2, <2>3
<1>5. CASE MarkOversized(r)
  <2>1. Finish(r, "unrecoverable", held[r])
    BY <1>5 DEF MarkOversized
  <2>2. phase'[r] = "done"
    BY <1>1, <2>1, PhaseOf DEF Finish
  <2>3. \A x : [memory EXCEPT !.doomed = x].kept = memory.kept
    BY <1>1 DEF TypeOK
  <2>4. memory'.kept = memory.kept
    BY <1>5, <2>3 DEF MarkOversized
  <2> QED  BY <2>2, <2>4 DEF Dooms, Keeping
<1>6. CASE SweepOne(r)
  <2>1. Sweeping(r) /\ phase[r] # "dooming"
    BY <1>6 DEF SweepOne, Sweeping
  <2>2. phase'[r] # "dooming"
    BY <1>1, <1>6, <2>1, PhaseOf, AnsweredPhase
      DEF SweepOne, StoreOrGiveUp, Finish, Await
  <2> QED  BY <2>1, <2>2 DEF Dooms
<1>7. CASE Store(r) \/ StoreFails(r) \/ Look(r)
  <2>1. phase[r] # "dooming"
    BY <1>7 DEF Store, StoreFails, Look
  <2>2. phase'[r] # "dooming"
    BY <1>1, <1>7, PhaseOf DEF Store, StoreFails, Look, Decoded, Refuse, Finish
  <2> QED  BY <2>1, <2>2 DEF Dooms
<1> QED  BY <1>2, <1>3, <1>4, <1>5, <1>6, <1>7 DEF Handle, Keep

\* A step brings at most one result into circulation, of the call that just
\* ended and whose result is not oversized.
LEMMA CirculationStep ==
    ASSUME TypeInv, NEW r \in Requests, CallStep(r), Dooms(r),
           NEW b \in Bindings, NEW p \in Requests, Circulates(b, p)'
    PROVE  \/ Circulates(b, p)
           \/ b = bind[r] /\ p = r /\ Concludes(r) /\ phase'[r] # "dooming"
<1>1. /\ bind' = bind /\ now' = now /\ OwnStep(r) /\ WritesOnce(r)
      /\ \E q \in NoneOrCall : Passes(r, q)
  BY DEF CallStep, Turn
<1>2. PICK q \in NoneOrCall : Passes(r, q)
  BY <1>1
<1>3. ASSUME q = p, b = bind[r], phase[r] # "dooming", phase'[r] # "dooming"
      PROVE  Circulates(b, p) \/ (p = r /\ Concludes(r))
  <2>1. p # NoRequest
    BY JournalAssumption
  <2>2. Source(r, p)
    BY <1>2, <1>3 DEF Passes
  <2>3. Retaining(r) => Keeping(r)
    BY <1>3 DEF Retaining, Keeping
  <2> QED  BY <1>3, <2>1, <2>2, <2>3 DEF Source, Circulates
<1>4. ASSUME NEW rec \in Recs', rec.binding = b, rec.result = p
      PROVE  Circulates(b, p)
  <2>1. CASE UNCHANGED disk
    BY <1>1, <1>4, <2>1 DEF Circulates, Recs
  <2>2. CASE \E new : Writes(r, new) /\ Commit(new)
    <3>1. PICK new : Writes(r, new) /\ Commit(new)
      BY <2>2
    <3>2. rec \in new
      BY <1>1, <1>4, <3>1, WritesTyped
    <3>3. \/ \E old \in Recs : old.binding = b /\ old.result = p
          \/ phase[r] = "storing" /\ b = bind[r] /\ p = held[r]
      BY <1>4, <3>1, <3>2, WrittenResults, JournalAssumption
    <3> QED  BY <3>3 DEF Circulates, Keeping
  <2> QED  BY <1>1, <2>1, <2>2 DEF WritesOnce
<1>5. ASSUME NEW e \in Range(memory'.kept), e.binding = b, e.result = p
      PROVE  \/ Circulates(b, p)
             \/ b = bind[r] /\ p = r /\ Concludes(r) /\ phase'[r] # "dooming"
  <2>1. CASE e \in Range(memory.kept)
    BY <1>5, <2>1 DEF Circulates
  <2>2. CASE e \notin Range(memory.kept)
    <3>1. phase[r] # "dooming" /\ phase'[r] # "dooming"
      BY <2>2 DEF Dooms
    <3>2. b = bind[r] /\ p = q
      BY <1>2, <1>5, <2>2 DEF Passes
    <3> QED  BY <1>3, <3>1, <3>2
  <2> QED  BY <2>1, <2>2
<1>6. ASSUME NEW o \in Requests, Keeping(o)', bind'[o] = b, held'[o] = p
      PROVE  \/ Circulates(b, p)
             \/ b = bind[r] /\ p = r /\ Concludes(r) /\ phase'[r] # "dooming"
  <2>1. CASE o # r
    <3>1. phase'[o] = phase[o] /\ held'[o] = held[o]
      BY <1>1, <2>1 DEF OwnStep
    <3> QED  BY <1>1, <1>6, <3>1 DEF Circulates, Keeping
  <2>2. CASE o = r
    <3>1. phase[r] # "dooming" /\ phase'[r] # "dooming" /\ Retaining(r)'
      BY <1>6, <2>2 DEF Dooms, Keeping, Retaining
    <3>2. b = bind[r] /\ p = q
      BY <1>1, <1>2, <1>6, <2>2, <3>1 DEF Passes
    <3> QED  BY <1>3, <3>1, <3>2
  <2> QED  BY <2>1, <2>2
<1> QED  BY <1>4, <1>5, <1>6 DEF Circulates

\* A binding that is just claimed had no result anywhere.
LEMMA FreshIsBare ==
    ASSUME TypeInv, SpendInv, ReuseWithinGrace, NEW r \in Requests, ClaimReserves(r),
           NEW q \in Requests
    PROVE  ~Circulates(bind[r], q)
<1>1. bind[r] \in Bindings /\ ~Holds(bind[r])
  BY CallTyped, FreshClaim
<1>2. Found(Recs, bind[r]) = {}
  BY CommitRecognises DEF ClaimReserves, Reservable
<1>3. \A rec \in Recs : rec.binding # bind[r]
  BY <1>2 DEF Found, Matches
<1>4. \A e \in Range(memory.kept) : e.binding # bind[r]
  BY <1>1 DEF Holds, Known, Names
<1>5. \A o \in Requests : Keeping(o) => bind[o] # bind[r]
  BY <1>1 DEF Holds, Known, Keeping, Retaining
<1> QED  BY <1>3, <1>4, <1>5 DEF Circulates

LEMMA CallKeepsNoResultYet ==
    ASSUME TypeInv, SpendInv, NoResultYet, ReuseWithinGrace,
           NEW r \in Requests, CallStep(r), Dooms(r)
    PROVE  NoResultYet'
<1>1. bind' = bind /\ OwnStep(r)
  BY DEF CallStep, Turn
<1>2. \A o \in Requests : bind[o] \in Bindings
  BY DEF TypeInv, TypeOK
<1> SUFFICES ASSUME NEW o \in Requests, Barren(o)', NEW q \in Requests,
                    NEW b \in Bindings, b = bind[o], Circulates(b, q)'
             PROVE  FALSE
  BY <1>1, <1>2 DEF NoResultYet
<1>3. CASE Circulates(b, q)
  <2>1. ~Barren(o)
    BY <1>3 DEF NoResultYet
  <2>2. ~Running(o) /\ phase[o] # "dooming"
    BY <2>1 DEF Barren
  <2>3. o = r
    BY <1>1, <2>1 DEF OwnStep, Barren, Running
  <2>4. phase'[r] # "dooming"
    BY <2>2, <2>3 DEF Dooms, Running
  <2>5. ClaimReserves(r)
    BY <2>2, <2>3, <2>4, HeldStep DEF Barren
  <2> QED  BY <1>3, <2>3, <2>5, FreshIsBare
<1>4. CASE b = bind[r] /\ Concludes(r) /\ phase'[r] # "dooming"
  <2>1. Running(r) /\ ~Running(r)'
    BY <1>4 DEF Concludes, Ends, Running, Late
  <2>2. o # r
    BY <1>4, <2>1 DEF Barren
  <2>3. Barren(o)
    BY <1>1, <2>2 DEF OwnStep, Barren, Running
  <2>4. ~Running(o)
    BY <1>4, <2>1, <2>2 DEF SpendInv, SoleClaimant, Claims
  <2>5. Known(bind[r])
    BY <1>4, <2>3, <2>4 DEF Barren, Known, Retaining
  <2> QED  BY <2>1, <2>5 DEF SpendInv, RunningHasNoOutcome
<1> QED  BY <1>3, <1>4, CirculationStep

LEMMA CallKeepsOneResult ==
    ASSUME TypeInv, NoResultYet, OneResult, NEW r \in Requests, CallStep(r), Dooms(r)
    PROVE  OneResult'
<1> SUFFICES ASSUME NEW b \in Bindings, NEW p \in Requests, NEW q \in Requests,
                    Circulates(b, p)', Circulates(b, q)'
             PROVE  p = q
  BY DEF OneResult
<1>1. CASE Circulates(b, p) /\ Circulates(b, q)
  BY <1>1 DEF OneResult
<1>2. CASE b = bind[r] /\ Concludes(r)
  <2>1. Barren(r)
    BY <1>2 DEF Concludes, Ends, Barren, Running
  <2>2. ~Circulates(b, p) /\ ~Circulates(b, q)
    BY <1>2, <2>1 DEF NoResultYet
  <2> QED  BY <2>2, CirculationStep
<1> QED  BY <1>1, <1>2, CirculationStep

\* The binding of a written record had one, is held, or is being reserved.
LEMMA WrittenBindings ==
    ASSUME TypeInv, NEW r \in Requests, NEW new, Writes(r, new), Commit(new), NEW rec \in new
    PROVE  \/ \E old \in Recs : old.binding = rec.binding
           \/ rec.binding \in Bindings /\ Holds(rec.binding)
           \/ /\ rec.binding = bind[r] /\ phase[r] = "claiming" /\ Reservable(bind[r])
              /\ new = Reserved(Recs, bind[r], now)
<1>1. Recs \in SUBSET Records /\ bind[r] \in Bindings
  BY CallTyped, StoreRead
<1>2. CASE new = Recs \/ new = Released(Recs, bind[r])
  BY <1>2 DEF Released
<1>3. CASE phase[r] = "claiming" /\ Reservable(bind[r]) /\ new = Reserved(Recs, bind[r], now)
  BY <1>3 DEF Reserved, ReservationOf
<1>4. CASE new = MarkedSpend(Recs, bind[r])
  <2> DEFINE image(x) == [x EXCEPT !.attempted = TRUE]
  <2>1. \A x \in Records : image(x).binding = x.binding
    BY DEF Records
  <2>2. new = (Recs \ PendingOf(Recs, bind[r])) \cup {image(x) : x \in PendingOf(Recs, bind[r])}
    BY <1>4 DEF MarkedSpend
  <2>3. PendingOf(Recs, bind[r]) \subseteq Recs
    BY DEF PendingOf
  <2> HIDE DEF image
  <2> QED  BY <1>1, <2>1, <2>2, <2>3
<1>5. ASSUME NEW c \in Bindings, NEW q, Holds(c), new = Retained(Recs, c, now, q)
      PROVE  \/ \E old \in Recs : old.binding = rec.binding
             \/ rec.binding \in Bindings /\ Holds(rec.binding)
  <2>1. rec \in Recs \/ rec.binding = c
    BY <1>5 DEF Retained, CompletedOf
  <2> QED  BY <1>5, <2>1
<1>6. CASE \E c \in GivesUp(r) : new = Retained(Recs, c, now, NoRequest)
  <2>1. PICK c \in Knew(r) : new = Retained(Recs, c, now, NoRequest)
    BY <1>6, GivesUpKnown
  <2>2. c \in Bindings /\ Holds(c)
    BY KnewTyped, KnewHeld DEF Holds, Claims
  <2> QED  BY <1>5, <2>1, <2>2
<1>7. CASE phase[r] = "storing" /\ new = Retained(Recs, bind[r], now, held[r])
  <2>1. Holds(bind[r])
    BY <1>7 DEF Holds, Known, Retaining
  <2> QED  BY <1>1, <1>5, <1>7, <2>1
<1> QED  BY <1>2, <1>3, <1>4, <1>6, <1>7 DEF Writes

LEMMA CallKeepsRecordsApart ==
    ASSUME TypeInv, SpendInv, RecordsApart, ReuseWithinGrace,
           NEW r \in Requests, CallStep(r)
    PROVE  RecordsApart'
<1>1. now' = now /\ WritesOnce(r) /\ bind[r] \in Bindings
  BY CallTyped DEF CallStep, Turn
<1> SUFFICES ASSUME NEW rec \in Recs', NEW b \in Bindings, Holds(b)', rec.binding # b
             PROVE  Key[rec.binding] # Key[b]
  BY DEF RecordsApart
<1>2. Holds(b) \/ (b = bind[r] /\ ClaimReserves(r))
  BY HeldStep
<1>3. ClaimReserves(r) => \A old \in Recs : Key[old.binding] # Key[bind[r]]
  <2>1. ClaimReserves(r) => Found(Recs, bind[r]) = {}
    BY CommitRecognises DEF ClaimReserves, Reservable
  <2> QED  BY <2>1 DEF Found, Matches
<1>4. ASSUME NEW old \in Recs, old.binding = rec.binding
      PROVE  Key[rec.binding] # Key[b]
  BY <1>2, <1>3, <1>4 DEF RecordsApart
<1>5. CASE UNCHANGED disk
  BY <1>1, <1>4, <1>5 DEF Recs
<1>6. CASE \E new : Writes(r, new) /\ Commit(new)
  <2>1. PICK new : Writes(r, new) /\ Commit(new)
    BY <1>6
  <2>2. rec \in new
    BY <1>1, <2>1, WritesTyped
  <2>3. CASE rec.binding \in Bindings /\ Holds(rec.binding)
    BY <1>2, <2>3, FreshClaim DEF SpendInv, KeysApart
  <2>4. CASE /\ rec.binding = bind[r] /\ phase[r] = "claiming" /\ Reservable(bind[r])
             /\ new = Reserved(Recs, bind[r], now)
    BY <1>2, <2>1, <2>4, FreshReservation
  <2> QED  BY <1>4, <2>1, <2>2, <2>3, <2>4, WrittenBindings
<1> QED  BY <1>1, <1>5, <1>6 DEF WritesOnce

\* What a call writes to the journal: no pending record gets a result, and a
\* record with a result stays or is given up.
LEMMA WrittenStays ==
    ASSUME TypeInv, SpendInv, StoredInv, NEW r \in Requests, NEW new,
           Writes(r, new), Commit(new)
    PROVE  /\ \A rec \in new : rec.pending => rec.result = NoRequest
           /\ \A old \in Recs :
                old.result # NoRequest =>
                   \/ GivenUp(old.binding)
                   \/ \E rec \in new : rec.binding = old.binding /\ rec.result = old.result
<1>1. /\ Recs \in SUBSET Records /\ Recs \subseteq disk.recs
      /\ bind[r] \in Bindings /\ held[r] \in NoneOrCall
  BY CallTyped, StoreRead DEF Recs, Live
<1>2. \A rec \in Recs : rec.pending => rec.result = NoRequest
  BY <1>1 DEF StoredInv, PendingIsBare
<1>3. CASE new = Recs
  BY <1>2, <1>3
<1>4. CASE new = Reserved(Recs, bind[r], now)
  BY <1>2, <1>4 DEF Reserved, ReservationOf
<1>5. CASE new = Released(Recs, bind[r]) \/ new = MarkedSpend(Recs, bind[r])
  <2> DEFINE image(x) == [x EXCEPT !.attempted = TRUE]
  <2>1. \A x \in Records : image(x).pending = x.pending /\ image(x).result = x.result
    BY DEF Records
  <2>2. \/ new = Recs \ PendingOf(Recs, bind[r])
        \/ new = (Recs \ PendingOf(Recs, bind[r]))
                   \cup {image(x) : x \in PendingOf(Recs, bind[r])}
    BY <1>5 DEF MarkedSpend, Released
  <2>3. /\ PendingOf(Recs, bind[r]) \subseteq Recs
        /\ \A x \in PendingOf(Recs, bind[r]) : x.pending
    BY DEF PendingOf
  <2> HIDE DEF image
  <2>4. \A rec \in new : rec.pending => rec.result = NoRequest
    BY <1>1, <1>2, <2>1, <2>2, <2>3
  <2>5. \A old \in Recs : old.result # NoRequest => old \in new
    BY <1>2, <2>2, <2>3
  <2> QED  BY <2>4, <2>5
<1>6. ASSUME NEW c \in Bindings, NEW q \in NoneOrCall, Holds(c),
             new = Retained(Recs, c, now, q),
             NEW old \in Recs, old.binding # c
      PROVE  old \in new
  <2>1. Key[old.binding] # Key[c]
    BY <1>6 DEF StoredInv, RecordsApart
  <2> QED  BY <1>6, <2>1 DEF Retained
<1>7. ASSUME NEW c, NEW q, new = Retained(Recs, c, now, q)
      PROVE  /\ \A rec \in new : rec.pending => rec.result = NoRequest
             /\ CompletedOf(c, now, q) \in new
  BY <1>2, <1>7 DEF Retained, CompletedOf
<1>8. CASE \E c \in Range(todo[r]) :
             Sweeping(r) /\ new = Retained(Recs, c, now, NoRequest)
  <2>1. PICK c \in Range(todo[r]) : new = Retained(Recs, c, now, NoRequest)
    BY <1>8
  <2>2. c \in Bindings /\ Holds(c) /\ NoRequest \in NoneOrCall
    <3>1. c \in Knew(r)
      BY DEF Knew
    <3> QED  BY <3>1, KnewTyped DEF Holds, Known, NoneOrCall
  <2> QED  BY <1>6, <1>7, <1>8, <2>1, <2>2 DEF GivenUp
<1>9. CASE phase[r] = "dooming" /\ new = Retained(Recs, bind[r], now, NoRequest)
  <2>1. \A q \in Requests : ~Circulates(bind[r], q)
    BY <1>9 DEF StoredInv, NoResultYet, Barren
  <2>2. \A old \in Recs : old.binding = bind[r] => old.result = NoRequest
    BY <1>1, <2>1 DEF Circulates, Records
  <2>3. Holds(bind[r]) /\ NoRequest \in NoneOrCall
    BY <1>9 DEF Holds, Known, Retaining, NoneOrCall
  <2> QED  BY <1>1, <1>6, <1>7, <1>9, <2>2, <2>3
<1>10. CASE phase[r] = "storing" /\ new = Retained(Recs, bind[r], now, held[r])
  <2>1. held[r] \in Requests /\ Holds(bind[r])
    BY <1>10 DEF TypeInv, Holds, Known, Retaining
  <2>2. Circulates(bind[r], held[r])
    BY <1>10 DEF Circulates, Keeping
  <2>3. ASSUME NEW old \in Recs, old.binding = bind[r], old.result # NoRequest
        PROVE  old.result = held[r]
    <3>1. old.result \in Requests /\ Circulates(bind[r], old.result)
      BY <1>1, <2>3 DEF Circulates, Records
    <3> QED  BY <1>1, <2>1, <2>2, <3>1 DEF StoredInv, OneResult
  <2>4. /\ CompletedOf(bind[r], now, held[r]).binding = bind[r]
        /\ CompletedOf(bind[r], now, held[r]).result = held[r]
    BY DEF CompletedOf
  <2> QED  BY <1>1, <1>6, <1>7, <1>10, <2>1, <2>3, <2>4
<1> QED  BY <1>3, <1>4, <1>5, <1>8, <1>9, <1>10 DEF Writes, GivesUp

LEMMA CallKeepsStoredInv ==
    ASSUME TypeInv, SpendInv, StoredInv, ReuseWithinGrace,
           NEW r \in Requests, CallStep(r), Dooms(r)
    PROVE  /\ StoredInv'
           /\ \A old \in Recs :
                old.result # NoRequest =>
                   \/ GivenUp(old.binding)
                   \/ \E new \in Recs' :
                        new.binding = old.binding /\ new.result = old.result
<1>1. NoResultYet' /\ OneResult' /\ RecordsApart'
  BY CallKeepsNoResultYet, CallKeepsOneResult, CallKeepsRecordsApart DEF StoredInv
<1>2. now' = now /\ WritesOnce(r)
  BY DEF CallStep, Turn
<1>3. CASE UNCHANGED disk
  <2>1. Recs' = Recs
    BY <1>2, <1>3 DEF Recs
  <2> QED  BY <1>1, <1>3, <2>1 DEF StoredInv, PendingIsBare
<1>4. CASE \E new : Writes(r, new) /\ Commit(new)
  <2>1. PICK new : Writes(r, new) /\ Commit(new)
    BY <1>4
  <2>2. disk'.recs = new /\ Recs' = new
    BY <1>2, <2>1, WritesTyped
  <2> QED  BY <1>1, <2>1, <2>2, WrittenStays DEF StoredInv, PendingIsBare
<1> QED  BY <1>2, <1>3, <1>4 DEF WritesOnce

\* Steps outside the calls bring nothing into circulation.
LEMMA CirculatesLess ==
    ASSUME StoredInv, bind' = bind, disk' = disk, Recs' \subseteq Recs,
           \A b, q : Circulates(b, q)' => Circulates(b, q),
           \A b : Holds(b)' => Holds(b),
           \A r \in Requests : Barren(r)' => Barren(r)
    PROVE  StoredInv'
BY DEF StoredInv, NoResultYet, OneResult, RecordsApart, PendingIsBare

LEMMA NextStoredInv ==
    ASSUME TypeInv, SpendInv, StoredInv, ReuseWithinGrace, [Next]_vars
    PROVE  /\ StoredInv'
           /\ \A old \in Recs :
                old.result # NoRequest /\ old.expiresAt > now' =>
                   \/ GivenUp(old.binding)
                   \/ \E new \in Recs' :
                        new.binding = old.binding /\ new.result = old.result
<1>1. CASE Tick
  <2>1. /\ UNCHANGED <<disk, memory, phase, bind, held, todo, spend>>
        /\ now' = now + 1 /\ now \in Nat
    BY <1>1 DEF Tick, TypeInv, TypeOK
  <2>2. /\ Recs' \subseteq Recs
        /\ \A old \in Recs : old.expiresAt > now' => old \in Recs'
    <3>1. \A rec \in disk.recs : rec.expiresAt \in Nat
      BY DEF TypeInv, TypeOK, Journals, Records
    <3> QED  BY <2>1, <3>1 DEF Recs, Live
  <2>3. \A b, q : Circulates(b, q)' => Circulates(b, q)
    BY <2>1, <2>2 DEF Circulates, Keeping
  <2>4. \A b : Holds(b)' => Holds(b)
    BY <2>1 DEF Holds, Known, Names, Retaining, Claims, Running, Spent
  <2>5. \A r \in Requests : Barren(r)' => Barren(r)
    BY <2>1 DEF Barren, Running
  <2> QED  BY <2>1, <2>2, <2>3, <2>4, <2>5, CirculatesLess
<1>2. CASE Crash
  <2>1. /\ UNCHANGED <<disk, now, bind, spend>> /\ Recs' = Recs
    BY <1>2, CrashStep DEF Recs
  <2>2. \A r \in Requests : /\ ~Running(r)' /\ ~Retaining(r)' /\ ~Keeping(r)' /\ ~Barren(r)'
                            /\ Range(todo'[r]) = {}
    <3>1. Range(<<>>) = {}
      BY DEF Range
    <3> QED  BY <1>2, <3>1, CrashStep DEF Running, Retaining, Keeping, Barren
  <2>3. Range(memory'.kept) = {} /\ \A b : ~Known(b)'
    <3>1. memory'.kept = <<>> /\ Range(<<>>) = {}
      BY <1>2, CrashStep DEF Range
    <3> QED  BY <1>2, <2>2, <3>1, CrashStep DEF Known
  <2>4. \A b, q : Circulates(b, q)' => Circulates(b, q)
    BY <2>1, <2>2, <2>3 DEF Circulates
  <2>5. \A b : Holds(b)' => Holds(b)
    BY <2>1, <2>2, <2>3 DEF Holds, Claims, Spent
  <2> QED  BY <2>1, <2>2, <2>4, <2>5, CirculatesLess
<1>3. ASSUME NEW r \in Requests, Start(r) \/ Handle(r)
      PROVE  /\ StoredInv'
             /\ \A old \in Recs :
                  old.result # NoRequest =>
                     \/ GivenUp(old.binding)
                     \/ \E new \in Recs' :
                          new.binding = old.binding /\ new.result = old.result
  <2>1. CallStep(r) /\ Dooms(r)
    BY <1>3, StartStep, ClaimStep, ExecuteStep, KeepStep, DoomStep DEF Handle
  <2> QED  BY <2>1, CallKeepsStoredInv
<1>4. ASSUME /\ UNCHANGED <<disk, now, memory, phase, bind, held, todo>>
             /\ \A r \in Requests : Spent(r)' => Spent(r)
      PROVE  StoredInv' /\ Recs' = Recs
  <2>1. Recs' = Recs
    BY <1>4 DEF Recs
  <2>2. \A b, q : Circulates(b, q)' => Circulates(b, q)
    BY <1>4, <2>1 DEF Circulates, Keeping
  <2>3. \A b : Holds(b)' => Holds(b)
    BY <1>4 DEF Holds, Known, Names, Retaining, Claims, Running
  <2>4. \A r \in Requests : Barren(r)' => Barren(r)
    BY <1>4 DEF Barren, Running
  <2> QED  BY <1>4, <2>1, <2>2, <2>3, <2>4, CirculatesLess
<1>5. ASSUME NEW r \in Requests, Chain(r)
      PROVE  StoredInv' /\ Recs' = Recs
  BY <1>4, <1>5, ChainStep DEF Spent
<1>6. CASE UNCHANGED vars
  BY <1>4, <1>6 DEF vars, Spent
<1> QED  BY <1>1, <1>2, <1>3, <1>5, <1>6 DEF Next

LEMMA InitStoredInv == Init => StoredInv
<1> SUFFICES ASSUME Init PROVE StoredInv
  OBVIOUS
<1>1. disk.recs = {} /\ Recs = {}
  BY DEF Init, Recs, Live
<1>2. Range(memory.kept) = {}
  <2>1. memory.kept = <<>> /\ Range(<<>>) = {}
    BY DEF Init, Range
  <2> QED  BY <2>1
<1>3. \A r \in Requests : ~Keeping(r)
  BY DEF Init, Keeping
<1>4. \A b, q : ~Circulates(b, q)
  BY <1>1, <1>2, <1>3 DEF Circulates
<1> QED
  BY <1>1, <1>4 DEF StoredInv, NoResultYet, OneResult, RecordsApart, PendingIsBare

\* A result on disk is not replaced while it lives, by another result or by an
\* unrecoverable record, unless a call found it given up and has its marker
\* queued (persistResponse, persistUnrecoverable, release).  The clients'
\* validities under one payment identifier are at most the grace apart.
THEOREM ResultsStayStoredHolds == ReuseWithinGrace /\ Spec => ResultsStayStored
<1> DEFINE Inv == TypeInv /\ SpendInv /\ UnspentInv
           Stays == \A old \in Recs :
                      old.result # NoRequest /\ old.expiresAt > now' =>
                         \/ GivenUp(old.binding)
                         \/ \E new \in Recs' :
                              new.binding = old.binding /\ new.result = old.result
<1>1. Init => StoredInv
  BY InitStoredInv
<1>2. ReuseWithinGrace /\ Inv /\ StoredInv /\ [Next]_vars => StoredInv' /\ Stays
  BY NextStoredInv
<1>3. ReuseWithinGrace => ReuseWithinGrace'
  OBVIOUS
<1>4. ReuseWithinGrace /\ Spec => []Inv
  BY SpendInvHolds
<1> HIDE DEF Inv
<1>5. ReuseWithinGrace /\ Spec => [][Stays]_vars
  BY <1>1, <1>2, <1>3, <1>4, PTL DEF Spec
<1> QED  BY <1>5 DEF ResultsStayStored

-----------------------------------------------------------------------------
(* The tool calls implement the promise of PaidOperation.                  *)

\* A call is answered once, at its end.
Answering(r) == served' = served \/ phase'[r] = "done"
ServedIsDone == \A r \in Requests : served[r] # NoRequest => phase[r] = "done"

LEMMA HandleServes ==
    ASSUME TypeInv, NEW r \in Requests, Start(r) \/ Handle(r)
    PROVE  /\ phase[r] # "done"
           /\ Answering(r)
           /\ UNCHANGED spend \/ MarkAndDispatch(r)
<1>1. ASSUME NEW a, NEW q, Finish(r, a, q) PROVE Answering(r)
  BY <1>1 DEF Finish, Answering, TypeInv, TypeOK
<1>2. ASSUME NEW a, Refuse(r, a) PROVE Answering(r)
  BY <1>1, <1>2 DEF Refuse
<1>3. Silent => Answering(r)
  BY DEF Silent, Answering
<1>4. ASSUME NEW q, NEW mem, StoreOrGiveUp(r, q, mem) PROVE Answering(r)
  BY <1>1, <1>3, <1>4 DEF StoreOrGiveUp
<1>5. ASSUME NEW q, NEW mem, NEW p, Sweep(r, q, mem, p) PROVE Answering(r)
  BY <1>3, <1>5 DEF Sweep
<1>6. ASSUME NEW q, NEW mem, Retain(r, q, mem) PROVE Answering(r)
  <2> HIDE DEF Answering
  <2> QED  BY <1>4, <1>5, <1>6 DEF Retain
<1>7. ASSUME NEW mem, Answered(r, mem) PROVE Answering(r)
  BY <1>2, <1>3, <1>6, <1>7 DEF Answered
<1>8. Recover(r) => Answering(r)
  BY <1>5, <1>7 DEF Recover
<1>9. ASSUME NEW rec, Decoded(r, rec) PROVE Answering(r)
  BY <1>1, <1>2, <1>9 DEF Decoded
<1>10. CASE Start(r)
  BY <1>2, <1>3, <1>8, <1>10 DEF Start, StartRecovery, RefuseUnbounded, StartRun, Quiet
<1>11. CASE Claim(r)
  BY <1>2, <1>3, <1>8, <1>9, <1>11
     DEF Claim, ClaimThrows, ClaimConflict, ClaimHit, ClaimPending, ClaimRefused,
         ClaimReserves, Claiming, Quiet
<1>12. CASE Execute(r)
  BY <1>2, <1>3, <1>6, <1>12
     DEF Execute, VerifyAndRun, EndUnpaid, EndInToolError, StartMark, MarkAndDispatch,
         MarkFails, ReleaseUnpaid, SettlementSucceeds, GiveUpOversized,
         SettlementUnresolved, Quiet
<1>13. CASE Keep(r)
  <2>1. CASE SweepOne(r)
    BY <1>3, <1>4, <1>7, <2>1 DEF SweepOne, Sweeping, Quiet
  <2>2. CASE Store(r) \/ StoreFails(r) \/ MarkOversized(r)
    BY <1>1, <2>2 DEF Store, StoreFails, MarkOversized, Quiet
  <2>3. CASE Look(r)
    BY <1>2, <1>9, <2>3 DEF Look, Quiet
  <2> QED  BY <1>13, <2>1, <2>2, <2>3 DEF Keep
<1> QED  BY <1>10, <1>11, <1>12, <1>13 DEF Handle

LEMMA NextServedIsDone == TypeInv /\ ServedIsDone /\ [Next]_vars => ServedIsDone'
<1> SUFFICES ASSUME TypeInv, ServedIsDone, [Next]_vars PROVE ServedIsDone'
  OBVIOUS
<1>1. CASE Tick \/ UNCHANGED vars
  BY <1>1 DEF Tick, vars, ServedIsDone
<1>2. CASE Crash
  BY <1>2, CrashStep DEF ServedIsDone
<1>3. ASSUME NEW r \in Requests, Start(r) \/ Handle(r)
      PROVE  ServedIsDone'
  <2>1. phase[r] # "done" /\ Answering(r) /\ OwnStep(r)
    BY <1>3, HandleServes, StartStep, ClaimStep, ExecuteStep, KeepStep
       DEF Handle, CallStep, Turn
  <2> QED  BY <2>1 DEF ServedIsDone, OwnStep, Answering
<1>4. ASSUME NEW r \in Requests, Chain(r)
      PROVE  ServedIsDone'
  BY <1>4, ChainStep DEF ServedIsDone
<1> QED  BY <1>1, <1>2, <1>3, <1>4 DEF Next

SettledOnce ==
    \A r, q \in Requests : Spent(r) /\ Spent(q) /\ bind[r] = bind[q] => r = q

Attempts == [b \in Bindings |-> Cardinality(CallsFor(b))]
Charged == {b \in Bindings : \E r \in CallsFor(b) : spend[r] = "executed"}
Delivers(q) == served[q] # NoRequest /\ spend[served[q]] # "none"
Delivered == {bind[r] : r \in {q \in Requests : Delivers(q)}}

LEMMA InitImplements == Init => Operation!Init
<1> SUFFICES ASSUME Init
             PROVE  /\ Attempts = [b \in Bindings |-> 0]
                    /\ Charged = {}
                    /\ Delivered = {}
  BY DEF Operation!Init, Attempts, Charged, Delivered, Delivers
<1>1. \A b \in Bindings : CallsFor(b) = {}
  BY DEF Init, CallsFor, Spent
<1> QED
  BY <1>1, FS_EmptySet DEF Init, Attempts, Charged, Delivered, Delivers

LEMMA SameSpends ==
    ASSUME bind' = bind, spend' = spend
    PROVE  Attempts' = Attempts /\ Charged' = Charged
BY DEF Attempts, Charged, CallsFor, Spent

LEMMA SameResults ==
    ASSUME bind' = bind, \A q \in Requests : Delivers(q)' <=> Delivers(q)
    PROVE  Delivered' = Delivered
BY DEF Delivered

\* Handing a credential to the facilitator is its only attempt.
LEMMA DispatchImplements ==
    ASSUME TypeInv, UnspentInv, ResultInv, SettledOnce', NEW r \in Requests,
           MarkAndDispatch(r)
    PROVE  /\ bind[r] \in Bindings
           /\ Attempts[bind[r]] = 0
           /\ Attempts' = [Attempts EXCEPT ![bind[r]] = 1]
           /\ Charged' = Charged
           /\ Delivered' = Delivered
<1>1. /\ bind' = bind /\ served' = served /\ phase[r] = "marking"
      /\ spend[r] = "none" /\ spend'[r] = "dispatched"
      /\ \A q \in Requests \ {r} : spend'[q] = spend[q]
      /\ bind[r] \in Bindings
  BY CallTyped DEF MarkAndDispatch, Silent, UnspentInv, Early, Spent, TypeInv, TypeOK
<1>2. CallsFor(bind[r]) = {} /\ CallsFor(bind[r])' = {r}
  BY <1>1 DEF CallsFor, Spent, SettledOnce
<1>3. \A b \in Bindings \ {bind[r]} : CallsFor(b)' = CallsFor(b)
  BY <1>1 DEF CallsFor, Spent
<1>4. Attempts[bind[r]] = 0 /\ Cardinality(CallsFor(bind[r])') = 1
  BY <1>1, <1>2, FS_EmptySet, FS_Singleton DEF Attempts
<1>5. Attempts' = [b \in Bindings |-> IF b = bind[r] THEN 1 ELSE Attempts[b]]
  <2> DEFINE calls(b) == Cardinality(CallsFor(b))'
  <2>1. \A b \in Bindings : calls(b) = IF b = bind[r] THEN 1 ELSE Attempts[b]
    BY <1>1, <1>3, <1>4 DEF Attempts
  <2>2. Attempts' = [b \in Bindings |-> calls(b)]
    BY DEF Attempts
  <2> HIDE DEF calls
  <2> QED
    BY <2>1, <2>2
<1>6. Charged' = Charged
  BY <1>1 DEF Charged, CallsFor, Spent
<1>7. Delivered' = Delivered
  <2>1. \A q \in Requests : served[q] # NoRequest => served[q] \in Requests /\ served[q] # r
    BY <1>1 DEF ResultInv, Belongs, Final, Late
  <2>2. \A q \in Requests : Delivers(q)' <=> Delivers(q)
    BY <1>1, <2>1 DEF Delivers
  <2> QED  BY <1>1, <2>2, SameResults
<1> QED
  BY <1>1, <1>4, <1>5, <1>6, <1>7 DEF Attempts

\* The chain charges through that attempt, once.
LEMMA ChainImplements ==
    ASSUME TypeInv, ResultInv, SettledOnce, NEW r \in Requests, Chain(r)
    PROVE  /\ Attempts' = Attempts
           /\ Delivered' = Delivered
           /\ \/ Charged' = Charged
              \/ /\ bind[r] \in Bindings
                 /\ Attempts[bind[r]] = 1
                 /\ bind[r] \notin Charged
                 /\ Charged' = Charged \cup {bind[r]}
<1>1. /\ bind' = bind /\ served' = served
      /\ spend[r] = "dispatched" /\ spend'[r] \in {"executed", "rejected"}
      /\ \A q \in Requests \ {r} : spend'[q] = spend[q]
      /\ bind[r] \in Bindings
  BY ChainStep, CallTyped
<1>2. \A q \in Requests : Spent(q)' <=> Spent(q)
  BY <1>1 DEF Spent
<1>3. \A b \in Bindings : CallsFor(b)' = CallsFor(b)
  BY <1>1, <1>2 DEF CallsFor
<1>4. CallsFor(bind[r]) = {r}
  BY <1>1 DEF CallsFor, Spent, SettledOnce
<1>5. Attempts' = Attempts
  BY <1>3 DEF Attempts
<1>6. Attempts[bind[r]] = 1 /\ bind[r] \notin Charged
  BY <1>1, <1>4, FS_Singleton DEF Attempts, Charged
<1>7. Charged' = IF spend'[r] = "executed" THEN Charged \cup {bind[r]} ELSE Charged
  <2>1. \A b \in Bindings, q \in Requests :
          q \in CallsFor(b)' /\ spend'[q] = "executed" <=>
            \/ q \in CallsFor(b) /\ spend[q] = "executed"
            \/ q = r /\ b = bind[r] /\ spend'[r] = "executed"
    BY <1>1 DEF CallsFor, Spent
  <2>2. \A b : CallsFor(b) \subseteq Requests /\ CallsFor(b)' \subseteq Requests
    BY DEF CallsFor
  <2> QED
    BY <1>1, <2>1, <2>2 DEF Charged
<1>8. Delivered' = Delivered
  <2>1. \A q \in Requests : served[q] # NoRequest => served[q] \in Requests
    BY DEF ResultInv, Belongs
  <2>2. \A q \in Requests : Delivers(q)' <=> Delivers(q)
    BY <1>1, <2>1 DEF Delivers
  <2> QED  BY <1>1, <2>2, SameResults
<1> QED
  BY <1>1, <1>5, <1>6, <1>7, <1>8

\* An answer carries the result of a paid call only of a charged credential.
LEMMA AnswerImplements ==
    ASSUME TypeInv, ResultInv', ServedIsDone, NEW r \in Requests,
           bind' = bind, spend' = spend, OwnStep(r), phase[r] # "done"
    PROVE  \/ Delivered' = Delivered
           \/ /\ bind[r] \in Charged
              /\ Delivered' = Delivered \cup {bind[r]}
<1>1. \A q \in Requests \ {r} : Delivers(q)' <=> Delivers(q)
  BY DEF OwnStep, Delivers
<1>2. ~Delivers(r)
  BY DEF ServedIsDone, Delivers
<1>3. CASE ~Delivers(r)'
  BY <1>1, <1>2, <1>3, SameResults
<1>4. CASE Delivers(r)'
  <2>1. Delivered' = Delivered \cup {bind[r]}
    BY <1>1, <1>2, <1>4 DEF Delivered
  <2> DEFINE q == served'[r]
  <2>2. q \in Requests /\ bind[q] = bind[r] /\ spend[q] = "executed"
    BY <1>4 DEF Delivers, ResultInv, Belongs, Final
  <2>3. bind[r] \in Charged
    BY <2>2, CallTyped DEF Charged, CallsFor, Spent
  <2> QED  BY <2>1, <2>3
<1> QED  BY <1>3, <1>4

LEMMA NextImplements ==
    ASSUME TypeInv, UnspentInv, ResultInv, ResultInv', ServedIsDone,
           SettledOnce, SettledOnce', [Next]_vars
    PROVE  [Operation!Next]_(Operation!vars)
<1> SUFFICES \/ UNCHANGED <<Attempts, Charged, Delivered>>
             \/ \E b \in Bindings :
                  \/ /\ Attempts[b] = 0
                     /\ Attempts' = [Attempts EXCEPT ![b] = 1]
                     /\ UNCHANGED <<Charged, Delivered>>
                  \/ /\ Attempts[b] = 1
                     /\ b \notin Charged
                     /\ Charged' = Charged \cup {b}
                     /\ UNCHANGED <<Attempts, Delivered>>
                  \/ /\ b \in Charged
                     /\ Delivered' = Delivered \cup {b}
                     /\ UNCHANGED <<Attempts, Charged>>
  BY DEF Operation!Next, Operation!vars, Operation!Attempt, Operation!Charge,
         Operation!Deliver, Attempts, Charged, Delivered, Delivers
<1>1. CASE Tick \/ Crash \/ UNCHANGED vars
  <2>1. bind' = bind /\ spend' = spend /\ served' = served
    BY <1>1 DEF Tick, Crash, vars
  <2>2. \A q \in Requests : Delivers(q)' <=> Delivers(q)
    BY <2>1 DEF Delivers
  <2> QED  BY <2>1, <2>2, SameSpends, SameResults
<1>2. ASSUME NEW r \in Requests, Chain(r)
      PROVE  \/ UNCHANGED <<Attempts, Charged, Delivered>>
             \/ \E b \in Bindings : /\ Attempts[b] = 1
                                    /\ b \notin Charged
                                    /\ Charged' = Charged \cup {b}
                                    /\ UNCHANGED <<Attempts, Delivered>>
  BY <1>2, ChainImplements
<1>3. ASSUME NEW r \in Requests, MarkAndDispatch(r)
      PROVE  \E b \in Bindings : /\ Attempts[b] = 0
                                 /\ Attempts' = [Attempts EXCEPT ![b] = 1]
                                 /\ UNCHANGED <<Charged, Delivered>>
  BY <1>3, DispatchImplements
<1>4. ASSUME NEW r \in Requests, Start(r) \/ Handle(r), ~MarkAndDispatch(r)
      PROVE  \/ UNCHANGED <<Attempts, Charged, Delivered>>
             \/ \E b \in Bindings : /\ b \in Charged
                                    /\ Delivered' = Delivered \cup {b}
                                    /\ UNCHANGED <<Attempts, Charged>>
  <2>1. phase[r] # "done" /\ spend' = spend
    BY <1>4, HandleServes
  <2>2. OwnStep(r) /\ bind' = bind
    BY <1>4, StartStep, ClaimStep, ExecuteStep, KeepStep DEF Handle, CallStep, Turn
  <2>3. Attempts' = Attempts /\ Charged' = Charged
    BY <2>1, <2>2, SameSpends
  <2> QED
    BY <2>1, <2>2, <2>3, CallTyped, AnswerImplements
<1> QED
  BY <1>1, <1>2, <1>3, <1>4 DEF Next

\* The tool calls, with their journal, memory, queue, sweeps, crashes and
\* faults, do nothing to a credential that PaidOperation does not allow: one
\* attempt, a charge through it, then its result, run or recovered (the
\* safety of the refinement).
THEOREM PaidOperationImplemented ==
    ReuseWithinGrace /\ Spec => ImplementsPaidOperation
<1>1. TypeInv /\ UnspentInv /\ ResultInv /\ ResultInv' /\ ServedIsDone
        /\ SettledOnce /\ SettledOnce' /\ [Next]_vars
        => [Operation!Next]_(Operation!vars)
  BY NextImplements
<1>2. SpendInv => SettledOnce
  BY DEF SpendInv, SoleClaimant, Claims, SettledOnce
<1>3. Init => ServedIsDone
  BY DEF Init, ServedIsDone
<1>4. TypeInv /\ ServedIsDone /\ [Next]_vars => ServedIsDone'
  BY NextServedIsDone
<1> QED
  BY <1>1, <1>2, <1>3, <1>4, InitImplements, ResultInvHolds, SpendInvHolds, PTL
     DEF Spec, ImplementsPaidOperation, Operation!Spec
==============================================================================
