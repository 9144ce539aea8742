------------------------ MODULE ExtractionTrialProofs -------------------------
(***************************************************************************)
(* Proofs about ExtractionTrial, for any number of requests, processes and *)
(* slots.                                                                  *)
(***************************************************************************)
EXTENDS ExtractionTrial, FiniteSetTheorems, TLAPS

-----------------------------------------------------------------------------
(* Type correctness *)

LEMMA ListingType == Listing \in [started : Nat, active : BOOLEAN]
<1>1. MaxStarted \in Nat
  BY TrialAssumption
<1>2. IsFiniteSet(Slots)
  BY <1>1, FS_Interval DEF Slots
<1>3. Cardinality(Present) \in Nat
  BY <1>2, FS_Subset, FS_CardinalityType DEF Present
<1> QED
  BY <1>3 DEF Listing

LEMMA SyncedType ==
    ASSUME TypeOK
    PROVE  Synced \in [slots : SUBSET Slots, lock : Inodes \cup {NoLock}]
BY DEF TypeOK, Synced, Present

LEMMA InitTypeOK == Init => TypeOK
<1> SUFFICES ASSUME Init PROVE TypeOK
  OBVIOUS
<1>1. meddled \in BOOLEAN
  BY DEF Init
<1>2. /\ dir \in [slots : [Slots -> Contents], lock : Inodes \cup {NoLock}]
      /\ durable \in [slots : SUBSET Slots, lock : Inodes \cup {NoLock}]
      /\ now \in Nat
      /\ slot \in [Requests -> Slots]
      /\ bought \in [Slots -> Nat]
  BY TrialAssumption DEF Init, Slots, Contents
<1>3. /\ phase \in [Requests -> Phases]
      /\ view \in [Requests -> [started : Nat, active : BOOLEAN]]
      /\ lease \in [Requests -> Inodes \cup {NoLock}]
      /\ hops \in [Requests -> Nat]
  BY DEF Init, Phases
<1> QED
  BY <1>1, <1>2, <1>3 DEF TypeOK

LEMMA AcquireTypeOK ==
    ASSUME TypeOK, NEW r \in Requests, Acquire(r)
    PROVE  TypeOK'
<1> USE DEF TypeOK, Phases, Holding, Goto, Local, Same
<1>1. CASE Arrive(r)
  BY <1>1, ListingType DEF Arrive
<1>2. CASE Admit(r) \/ AcquireRefused(r) \/ AcquireFails(r)
  BY <1>2 DEF Admit, AcquireRefused, AcquireFails
<1>3. CASE Lock(r)
  BY <1>3 DEF Lock
<1>4. CASE SyncLock(r)
  BY <1>4, SyncedType DEF SyncLock
<1>5. CASE StatLock(r)
  BY <1>5 DEF StatLock
<1> QED
  BY <1>1, <1>2, <1>3, <1>4, <1>5 DEF Acquire

\* Writing one slot changes nothing else.
LEMMA SlotWrite ==
    ASSUME TypeOK, NEW n \in Slots, NEW c \in Contents,
           dir' = [dir EXCEPT !.slots[n] = c]
    PROVE  /\ dir' \in [slots : [Slots -> Contents], lock : Inodes \cup {NoLock}]
           /\ dir'.lock = dir.lock
           /\ dir'.slots = [dir.slots EXCEPT ![n] = c]
BY DEF TypeOK

LEMMA SpendTypeOK ==
    ASSUME TypeOK, RoomToOpen, NEW r \in Requests, Spend(r)
    PROVE  TypeOK'
<1> USE DEF TypeOK, Phases, Holding, Goto, Local, Same
<1>1. CASE ListForSpend(r)
  BY <1>1, ListingType DEF ListForSpend
<1>2. CASE CheckSpend(r) \/ SpendFails(r)
  BY <1>2 DEF CheckSpend, SpendFails
<1>3. CASE Open(r)
  <2> DEFINE n == view[r].started + 1
  <2>1. n \in Slots
    BY <1>3, TrialAssumption DEF Open, Slots, RoomToOpen
  <2>2. /\ dir' = [dir EXCEPT !.slots[n] = "empty"]
        /\ slot' = [slot EXCEPT ![r] = n]
        /\ phase' = [phase EXCEPT ![r] = "writing"]
        /\ UNCHANGED <<durable, now, view, lease, hops, bought, meddled>>
    BY <1>3 DEF Open
  <2> HIDE DEF n
  <2> QED
    BY <2>1, <2>2, SlotWrite DEF Contents
<1>4. CASE Write(r) \/ Seal(r)
  <2>1. dir' \in [slots : [Slots -> Contents], lock : Inodes \cup {NoLock}]
    BY <1>4, SlotWrite DEF Write, Seal, Contents
  <2> QED
    BY <1>4, <2>1 DEF Write, Seal
<1>5. CASE Enter(r)
  BY <1>5, SyncedType DEF Enter
<1> QED
  BY <1>1, <1>2, <1>3, <1>4, <1>5 DEF Spend

LEMMA UseTypeOK ==
    ASSUME TypeOK, NEW r \in Requests, Use(r) \/ Release(r)
    PROVE  TypeOK'
<1> USE DEF TypeOK, Phases, Holding, Goto, Local, Same
<1>1. CASE Fetch(r)
  BY <1>1 DEF Fetch
<1>2. CASE FetchAborted(r) \/ Redirect(r) \/ FinishFetch(r)
  BY <1>2 DEF FetchAborted, Redirect, FinishFetch
<1>3. CASE StatForRelease(r) \/ ReleaseFails(r)
  BY <1>3 DEF StatForRelease, ReleaseFails
<1>4. CASE Unlock(r)
  BY <1>4 DEF Unlock
<1>5. CASE SyncUnlock(r)
  BY <1>5, SyncedType DEF SyncUnlock
<1> QED
  BY <1>1, <1>2, <1>3, <1>4, <1>5 DEF Use, Release

LEMMA EndOfType ==
    ASSUME NEW p \in Phases
    PROVE  EndOf(p) \in {"idle", "done", "abandoned"}
BY DEF EndOf

LEMMA EnvironmentTypeOK ==
    ASSUME TypeOK,
           (\E p \in Processes : Kill(p)) \/ Tick \/ PowerLoss \/ RemoveLock
    PROVE  TypeOK'
<1> USE DEF TypeOK, Same
<1>1. CASE \E p \in Processes : Kill(p)
  BY <1>1, EndOfType DEF Kill, Phases
<1>2. CASE Tick
  BY <1>2 DEF Tick
<1>3. CASE PowerLoss
  <2>1. phase' \in [Requests -> Phases]
    BY <1>3, EndOfType DEF PowerLoss, Phases
  <2>2. PICK kept \in SUBSET Present, torn \in SUBSET Present,
             lock \in {dir.lock, durable.lock} :
          /\ dir' = [slots |-> [n \in Slots |->
                                  IF n \notin kept THEN "none"
                                  ELSE IF n \in torn THEN "empty"
                                  ELSE dir.slots[n]],
                     lock |-> lock]
          /\ durable' = [slots |-> kept, lock |-> lock]
    BY <1>3 DEF PowerLoss
  <2>3. kept \subseteq Slots /\ lock \in Inodes \cup {NoLock}
    BY DEF Present
  <2> QED
    BY <1>3, <2>1, <2>2, <2>3 DEF PowerLoss, Contents
<1>4. CASE RemoveLock
  BY <1>4 DEF RemoveLock
<1> QED
  BY <1>1, <1>2, <1>3, <1>4

LEMMA NextTypeOK == TypeOK /\ RoomToOpen /\ [Next]_vars => TypeOK'
<1> SUFFICES ASSUME TypeOK, RoomToOpen, [Next]_vars PROVE TypeOK'
  OBVIOUS
<1>1. CASE UNCHANGED vars
  BY <1>1 DEF TypeOK, vars
<1> QED
  BY <1>1, AcquireTypeOK, SpendTypeOK, UseTypeOK, EnvironmentTypeOK DEF Next

-----------------------------------------------------------------------------
(* Hops are bought *)

LEMMA InitHopInv == Init => HopInv
<1> SUFFICES ASSUME Init PROVE HopInv
  OBVIOUS
<1>1. RoomToOpen /\ PurchasesSound
  BY DEF Init, RoomToOpen, PurchasesSound, Buying
<1>2. DurableIsPresent /\ HopsAreBought
  BY DEF Init, DurableIsPresent, HopsAreBought
<1> QED
  BY <1>1, <1>2 DEF HopInv

\* A step that writes no slot and makes no hop.
LEMMA HopFrame ==
    ASSUME TypeOK, HopInv,
           dir'.slots = dir.slots, slot' = slot, bought' = bought,
           durable.slots \subseteq durable'.slots, durable'.slots \subseteq Present \cup durable.slots,
           \A q \in Requests :
             /\ phase'[q] = "opening" => view'[q].started < MaxStarted
             /\ phase'[q] \in Buying =>
                  \/ phase'[q] = phase[q]
                  \/ /\ phase[q] = "entering"
                     /\ phase'[q] = "bought"
                     /\ slot[q] \in durable'.slots
    PROVE  HopInv'
<1>1. RoomToOpen'
  BY DEF RoomToOpen
<1>2. PurchasesSound'
  BY DEF HopInv, PurchasesSound, Buying
<1>3. DurableIsPresent' /\ HopsAreBought'
  BY DEF HopInv, DurableIsPresent, HopsAreBought, Present
<1> QED
  BY <1>1, <1>2, <1>3 DEF HopInv

LEMMA BusyHasRoom ==
    ASSUME NEW v, v.started \in Nat, Availability(v) = "busy"
    PROVE  v.started < MaxStarted
BY TrialAssumption DEF Availability

LEMMA AcquireHopInv ==
    ASSUME TypeOK, HopInv, NEW r \in Requests, Acquire(r)
    PROVE  HopInv'
<1> USE DEF Goto, Local, Same, Buying
<1>1. CASE Arrive(r)
  BY <1>1, HopFrame DEF Arrive, HopInv, RoomToOpen, TypeOK
<1>2. CASE Admit(r) \/ AcquireRefused(r) \/ AcquireFails(r)
  BY <1>2, HopFrame
     DEF Admit, AcquireRefused, AcquireFails, HopInv, RoomToOpen, TypeOK
<1>3. CASE Lock(r)
  <2>1. dir'.slots = dir.slots
    BY <1>3 DEF Lock, TypeOK
  <2> QED
    BY <1>3, <2>1, HopFrame DEF Lock, HopInv, RoomToOpen, TypeOK
<1>4. CASE SyncLock(r)
  <2>1. durable'.slots = Present /\ durable.slots \subseteq Present
    BY <1>4 DEF SyncLock, Synced, HopInv, DurableIsPresent, Present, TypeOK
  <2> QED
    BY <1>4, <2>1, HopFrame DEF SyncLock, HopInv, RoomToOpen, TypeOK
<1>5. CASE StatLock(r)
  BY <1>5, HopFrame DEF StatLock, HopInv, RoomToOpen, TypeOK
<1> QED
  BY <1>1, <1>2, <1>3, <1>4, <1>5 DEF Acquire

LEMMA OpenHopInv ==
    ASSUME TypeOK, HopInv, NEW r \in Requests, Open(r)
    PROVE  HopInv'
<1> DEFINE n == view[r].started + 1
<1>1. n \in Slots
  BY TrialAssumption DEF Open, Slots, HopInv, RoomToOpen, TypeOK
<1>2. /\ phase[r] = "opening"
      /\ dir.slots[n] = "none"
      /\ dir' = [dir EXCEPT !.slots[n] = "empty"]
      /\ slot' = [slot EXCEPT ![r] = n]
      /\ phase' = [phase EXCEPT ![r] = "writing"]
      /\ UNCHANGED <<durable, now, view, lease, hops, bought>>
  BY DEF Open, Goto
<1> HIDE DEF n
<1>3. dir'.slots = [dir.slots EXCEPT ![n] = "empty"]
  BY <1>1, <1>2, SlotWrite DEF Contents
<1>4. dir.slots \in [Slots -> Contents] /\ bought \in [Slots -> Nat]
      /\ slot \in [Requests -> Slots] /\ phase \in [Requests -> Phases]
  BY DEF TypeOK
<1>5. n \notin durable.slots /\ bought[n] = 0
  BY <1>1, <1>2, <1>4 DEF HopInv, DurableIsPresent, HopsAreBought
<1>6. \A q \in Requests : phase[q] \in Buying => slot[q] # n
  BY <1>2 DEF HopInv, PurchasesSound, Buying
<1>7. RoomToOpen'
  BY <1>2, <1>4 DEF HopInv, RoomToOpen
<1>8. PurchasesSound'
  <2> SUFFICES ASSUME NEW q \in Requests, phase'[q] \in Buying
               PROVE  PurchasesSound!(q)'
    BY DEF PurchasesSound
  <2>1. CASE q = r
    BY <1>1, <1>2, <1>3, <1>4, <1>5, <1>6, <2>1 DEF Buying
  <2>2. CASE q # r
    BY <1>1, <1>2, <1>3, <1>4, <1>6, <2>2 DEF HopInv, PurchasesSound, Buying
  <2> QED
    BY <2>1, <2>2
<1>9. DurableIsPresent' /\ HopsAreBought'
  BY <1>1, <1>2, <1>3, <1>4, <1>5, TypeOK
     DEF HopInv, DurableIsPresent, HopsAreBought, TypeOK
<1> QED
  BY <1>7, <1>8, <1>9 DEF HopInv

LEMMA WriteHopInv ==
    ASSUME TypeOK, HopInv, NEW r \in Requests, Write(r) \/ Seal(r)
    PROVE  HopInv'
<1>1. PICK c \in {"written", "sealed"} :
        dir' = [dir EXCEPT !.slots[slot[r]] = c]
        /\ \/ phase[r] = "writing" /\ c = "written"
              /\ phase' = [phase EXCEPT ![r] = "sealing"]
           \/ phase[r] = "sealing" /\ c = "sealed"
              /\ phase' = [phase EXCEPT ![r] = "entering"]
        /\ UNCHANGED <<durable, now, view, slot, lease, hops, bought>>
  BY DEF Write, Seal, Goto, Same
<1>2. dir.slots \in [Slots -> Contents] /\ bought \in [Slots -> Nat]
      /\ slot \in [Requests -> Slots] /\ phase \in [Requests -> Phases]
      /\ durable.slots \subseteq Slots
  BY DEF TypeOK
<1>3. dir'.slots = [dir.slots EXCEPT ![slot[r]] = c]
  BY <1>1, <1>2, SlotWrite DEF Contents
<1>4. bought[slot[r]] = 0
  BY <1>1 DEF HopInv, PurchasesSound, Buying
<1>5. RoomToOpen'
  BY <1>1, <1>2 DEF HopInv, RoomToOpen
<1>6. PurchasesSound'
  BY <1>1, <1>2, <1>3 DEF HopInv, PurchasesSound, Buying
<1>7. DurableIsPresent' /\ HopsAreBought'
  BY <1>1, <1>2, <1>3, <1>4 DEF HopInv, DurableIsPresent, HopsAreBought
<1> QED
  BY <1>5, <1>6, <1>7 DEF HopInv

LEMMA SpendHopInv ==
    ASSUME TypeOK, HopInv, NEW r \in Requests, Spend(r)
    PROVE  HopInv'
<1> USE DEF Goto, Local, Same, Buying
<1>1. CASE ListForSpend(r)
  BY <1>1, HopFrame DEF ListForSpend, HopInv, RoomToOpen, TypeOK
<1>2. CASE CheckSpend(r)
  <2>1. Availability(view[r]) = "busy" => view[r].started < MaxStarted
    BY BusyHasRoom DEF TypeOK
  <2> QED
    BY <1>2, <2>1, HopFrame DEF CheckSpend, HopInv, RoomToOpen, TypeOK
<1>3. CASE SpendFails(r)
  BY <1>3, HopFrame DEF SpendFails, HopInv, RoomToOpen, TypeOK
<1>4. CASE Open(r)
  BY <1>4, OpenHopInv
<1>5. CASE Write(r) \/ Seal(r)
  BY <1>5, WriteHopInv
<1>6. CASE Enter(r)
  <2>1. durable'.slots = Present /\ durable.slots \subseteq Present
    BY <1>6 DEF Enter, Synced, HopInv, DurableIsPresent, Present, TypeOK
  <2>2. slot[r] \in Present
    BY <1>6 DEF Enter, HopInv, PurchasesSound, Present, TypeOK
  <2> QED
    BY <1>6, <2>1, <2>2, HopFrame DEF Enter, HopInv, RoomToOpen, TypeOK
<1> QED
  BY <1>1, <1>2, <1>3, <1>4, <1>5, <1>6 DEF Spend

LEMMA FetchHopInv ==
    ASSUME TypeOK, HopInv, NEW r \in Requests, Fetch(r)
    PROVE  HopInv'
<1>1. /\ phase[r] = "bought"
      /\ bought' = [bought EXCEPT ![slot[r]] = @ + 1]
      /\ phase' = [phase EXCEPT ![r] = "fetched"]
      /\ UNCHANGED <<dir, durable, view, slot>>
  BY DEF Fetch, Goto, Local
<1>2. /\ bought[slot[r]] = 0
      /\ slot[r] \in durable.slots
      /\ dir.slots[slot[r]] = "sealed"
      /\ \A q \in Requests : phase[q] \in Buying /\ slot[q] = slot[r] => q = r
  BY <1>1 DEF HopInv, PurchasesSound, Buying
<1>3. bought \in [Slots -> Nat] /\ slot \in [Requests -> Slots]
      /\ phase \in [Requests -> Phases]
  BY DEF TypeOK
<1>4. RoomToOpen' /\ DurableIsPresent'
  BY <1>1, <1>3 DEF HopInv, RoomToOpen, DurableIsPresent
<1>5. PurchasesSound'
  BY <1>1, <1>2, <1>3 DEF HopInv, PurchasesSound, Buying
<1>6. HopsAreBought'
  BY <1>1, <1>2, <1>3 DEF HopInv, HopsAreBought
<1> QED
  BY <1>4, <1>5, <1>6 DEF HopInv

LEMMA UseHopInv ==
    ASSUME TypeOK, HopInv, NEW r \in Requests, Use(r) \/ Release(r)
    PROVE  HopInv'
<1> USE DEF Goto, Local, Same, Buying
<1>1. CASE Fetch(r)
  BY <1>1, FetchHopInv
<1>2. CASE FetchAborted(r) \/ Redirect(r) \/ FinishFetch(r)
  BY <1>2, HopFrame
     DEF FetchAborted, Redirect, FinishFetch, HopInv, RoomToOpen, TypeOK
<1>3. CASE StatForRelease(r) \/ ReleaseFails(r)
  BY <1>3, HopFrame
     DEF StatForRelease, ReleaseFails, HopInv, RoomToOpen, TypeOK
<1>4. CASE Unlock(r)
  <2>1. dir'.slots = dir.slots
    BY <1>4 DEF Unlock, TypeOK
  <2> QED
    BY <1>4, <2>1, HopFrame DEF Unlock, HopInv, RoomToOpen, TypeOK
<1>5. CASE SyncUnlock(r)
  <2>1. durable'.slots = Present /\ durable.slots \subseteq Present
    BY <1>5 DEF SyncUnlock, Synced, HopInv, DurableIsPresent, Present, TypeOK
  <2> QED
    BY <1>5, <2>1, HopFrame DEF SyncUnlock, HopInv, RoomToOpen, TypeOK
<1> QED
  BY <1>1, <1>2, <1>3, <1>4, <1>5 DEF Use, Release

\* A dead process buys nothing more, and a bought slot survives the machine.
LEMMA EnvironmentHopInv ==
    ASSUME TypeOK, HopInv,
           (\E p \in Processes : Kill(p)) \/ Tick \/ PowerLoss \/ RemoveLock
    PROVE  HopInv'
<1>1. CASE \E p \in Processes : Kill(p)
  <2>1. PICK p \in Processes : Kill(p)
    BY <1>1
  <2>2. \A q \in Requests :
          phase'[q] = phase[q] \/ phase'[q] \in {"idle", "done", "abandoned"}
    BY <2>1, EndOfType DEF Kill, TypeOK
  <2> QED
    BY <2>1, <2>2, HopFrame DEF Kill, Same, HopInv, RoomToOpen, Buying
<1>2. CASE Tick
  BY <1>2, HopFrame DEF Tick, Same, HopInv, RoomToOpen
<1>3. CASE PowerLoss
  <2>1. PICK kept \in SUBSET Present, torn \in SUBSET Present,
             lock \in {dir.lock, durable.lock} :
          /\ durable.slots \subseteq kept
          /\ \A n \in torn : dir.slots[n] # "sealed"
          /\ dir' = [slots |-> [n \in Slots |->
                                  IF n \notin kept THEN "none"
                                  ELSE IF n \in torn THEN "empty"
                                  ELSE dir.slots[n]],
                     lock |-> lock]
          /\ durable' = [slots |-> kept, lock |-> lock]
    BY <1>3 DEF PowerLoss
  <2>2. \A q \in Requests : phase'[q] \in {"idle", "done", "abandoned"}
    BY <1>3, EndOfType DEF PowerLoss, TypeOK
  <2>3. bought' = bought
    BY <1>3 DEF PowerLoss, Same
  <2>4. RoomToOpen' /\ PurchasesSound'
    BY <2>2 DEF RoomToOpen, PurchasesSound, Buying
  <2>5. DurableIsPresent'
    BY <2>1 DEF DurableIsPresent, Present
  <2>6. HopsAreBought'
    BY <2>1, <2>3 DEF HopInv, HopsAreBought, TypeOK
  <2> QED
    BY <2>4, <2>5, <2>6 DEF HopInv
<1>4. CASE RemoveLock
  <2>1. dir'.slots = dir.slots /\ durable'.slots = durable.slots
    BY <1>4 DEF RemoveLock, TypeOK
  <2> QED
    BY <1>4, <2>1, HopFrame DEF RemoveLock, Same, HopInv, RoomToOpen
<1> QED
  BY <1>1, <1>2, <1>3, <1>4

LEMMA NextHopInv == TypeOK /\ HopInv /\ [Next]_vars => HopInv'
<1> SUFFICES ASSUME TypeOK, HopInv, [Next]_vars PROVE HopInv'
  OBVIOUS
<1>1. CASE UNCHANGED vars
  BY <1>1, HopFrame DEF vars, HopInv, RoomToOpen
<1> QED
  BY <1>1, AcquireHopInv, SpendHopInv, UseHopInv, EnvironmentHopInv DEF Next

\* The inductive invariant: a slot being bought is on its way to durable, is
\* unused and has one buyer (spend and createDurable).
THEOREM HopInvHolds == Spec => [](TypeOK /\ HopInv)
<1>1. Init => TypeOK /\ HopInv
  BY InitTypeOK, InitHopInv
<1>2. TypeOK /\ HopInv /\ [Next]_vars => (TypeOK /\ HopInv)'
  BY NextTypeOK, NextHopInv DEF HopInv
<1> QED
  BY <1>1, <1>2, PTL DEF Spec

\* Every variable keeps its type, for every number of slots and requests.
THEOREM TrialTypeCorrect == Spec => []TypeOK
BY HopInvHolds, PTL

\* Every hop was bought with a durable slot of its own, for any number of
\* requests and processes, whatever fails and whoever removes the lock.
THEOREM HopsAreBoughtHolds == Spec => []HopsAreBought
<1>1. HopInv => HopsAreBought
  BY DEF HopInv
<1> QED
  BY <1>1, HopInvHolds, PTL

-----------------------------------------------------------------------------
(* One lease *)

\* A step of one request that leaves the lock alone, and takes the request
\* into no phase that holds a lease it did not hold before.
LEMMA LeaseFrame ==
    ASSUME TypeOK, LeaseSound, NEW r \in Requests, NEW p \in Phases,
           phase' = [phase EXCEPT ![r] = p],
           dir'.lock = dir.lock,
           \/ durable'.lock = durable.lock
           \/ durable'.lock = dir.lock,
           p \in Holding => phase[r] \in Holding,
           p = "abandoned" => phase[r] \in Holding,
           p \in (Holding \ {"lock_sync"}) \cup {"abandoned"} =>
             durable'.lock # NoLock
    PROVE  LeaseSound'
<1>1. phase \in [Requests -> Phases]
  BY DEF TypeOK
<1>2. \A q \in Requests :
        phase[q] \in Holding \cup {"abandoned"} => dir.lock # NoLock
  BY DEF LeaseSound, TakeTurns, DoubtStays
<1>3. TakeTurns'
  BY <1>1 DEF LeaseSound, TakeTurns
<1>4. DoubtStays'
  BY <1>1, <1>2 DEF LeaseSound, TakeTurns, DoubtStays, Holding
<1>5. LeaseIsDurable'
  BY <1>1, <1>2 DEF LeaseSound, LeaseIsDurable
<1> QED
  BY <1>3, <1>4, <1>5 DEF LeaseSound

LEMMA AcquireLeaseSound ==
    ASSUME TypeOK, LeaseSound, NEW r \in Requests, Acquire(r)
    PROVE  LeaseSound'
<1> USE DEF Goto, Local, Same
<1>1. CASE Arrive(r) \/ Admit(r) \/ AcquireRefused(r)
  BY <1>1, LeaseFrame DEF Arrive, Admit, AcquireRefused, Phases, Holding
<1>2. CASE Lock(r)
  <2>1. dir.lock = NoLock /\ dir'.lock # NoLock /\ durable' = durable
    BY <1>2, TrialAssumption DEF Lock, TypeOK
  <2>2. phase' = [phase EXCEPT ![r] = "lock_sync"]
        /\ phase \in [Requests -> Phases]
    BY <1>2 DEF Lock, TypeOK
  <2>3. \A q \in Requests : phase[q] \notin Holding /\ phase[q] # "abandoned"
    BY <2>1 DEF LeaseSound, TakeTurns, DoubtStays
  <2> QED
    BY <2>1, <2>2, <2>3
       DEF LeaseSound, TakeTurns, DoubtStays, LeaseIsDurable, Holding
<1>3. CASE SyncLock(r)
  <2>1. dir.lock # NoLock /\ durable'.lock = dir.lock /\ dir' = dir
    BY <1>3 DEF SyncLock, Synced, LeaseSound, TakeTurns, Holding
  <2> QED
    BY <1>3, <2>1, LeaseFrame DEF SyncLock, Phases, Holding
<1>4. CASE StatLock(r) \/ AcquireFails(r)
  BY <1>4, LeaseFrame
     DEF StatLock, AcquireFails, Phases, Holding, LeaseSound, LeaseIsDurable
<1> QED
  BY <1>1, <1>2, <1>3, <1>4 DEF Acquire

LEMMA SpendLeaseSound ==
    ASSUME TypeOK, LeaseSound, NEW r \in Requests, Spend(r)
    PROVE  LeaseSound'
<1> USE DEF Goto, Local, Same, Phases, Holding
<1>1. CASE ListForSpend(r) \/ CheckSpend(r) \/ SpendFails(r)
  BY <1>1, LeaseFrame
     DEF ListForSpend, CheckSpend, SpendFails, LeaseSound, LeaseIsDurable
<1>2. CASE Open(r) \/ Write(r) \/ Seal(r)
  <2>1. dir'.lock = dir.lock
    BY <1>2 DEF Open, Write, Seal, TypeOK
  <2> QED
    BY <1>2, <2>1, LeaseFrame DEF Open, Write, Seal, LeaseSound, LeaseIsDurable
<1>3. CASE Enter(r)
  <2>1. dir.lock # NoLock /\ durable'.lock = dir.lock /\ dir' = dir
    BY <1>3 DEF Enter, Synced, LeaseSound, TakeTurns
  <2> QED
    BY <1>3, <2>1, LeaseFrame DEF Enter
<1> QED
  BY <1>1, <1>2, <1>3 DEF Spend

LEMMA UseLeaseSound ==
    ASSUME TypeOK, LeaseSound, NEW r \in Requests, Use(r) \/ Release(r)
    PROVE  LeaseSound'
<1> USE DEF Goto, Local, Same, Phases, Holding
<1>1. CASE Use(r)
  BY <1>1, LeaseFrame
     DEF Use, Fetch, FetchAborted, Redirect, FinishFetch, LeaseSound, LeaseIsDurable
<1>2. CASE StatForRelease(r) \/ ReleaseFails(r)
  BY <1>2, LeaseFrame
     DEF StatForRelease, ReleaseFails, LeaseSound, LeaseIsDurable
<1>3. CASE Unlock(r)
  <2>1. phase' = [phase EXCEPT ![r] = "unlock_sync"] /\ durable' = durable
        /\ phase \in [Requests -> Phases] /\ phase[r] = "unlocking"
    BY <1>3 DEF Unlock, TypeOK
  <2>2. \A q \in Requests :
          /\ phase[q] \in Holding => q = r
          /\ phase[q] # "abandoned"
    BY <2>1 DEF LeaseSound, TakeTurns, DoubtStays
  <2>3. \A q \in Requests : phase'[q] \notin Holding \cup {"abandoned"}
    BY <2>1, <2>2
  <2> QED
    BY <2>3 DEF LeaseSound, TakeTurns, DoubtStays, LeaseIsDurable
<1>4. CASE SyncUnlock(r)
  <2>1. durable'.lock = dir.lock /\ dir' = dir
    BY <1>4 DEF SyncUnlock, Synced
  <2> QED
    BY <1>4, <2>1, LeaseFrame DEF SyncUnlock
<1> QED
  BY <1>1, <1>2, <1>3, <1>4 DEF Use, Release

\* The machine may come back with a released lock, never without a lock that
\* was granted; the requests of a dead process hold nothing.
LEMMA EnvironmentLeaseSound ==
    ASSUME TypeOK, LeaseSound,
           (\E p \in Processes : Kill(p)) \/ Tick \/ PowerLoss
    PROVE  LeaseSound'
<1>1. ASSUME NEW q \in Requests, phase[q] \in Phases,
             phase'[q] \in {phase[q], EndOf(phase[q])}
      PROVE  /\ phase'[q] \in Holding => phase[q] \in Holding
             /\ phase'[q] \in (Holding \ {"lock_sync"}) \cup {"abandoned"} =>
                  phase[q] \in (Holding \ {"lock_sync"}) \cup {"abandoned"}
             /\ EndOf(phase[q]) \notin Holding
  BY <1>1 DEF EndOf, Holding, Phases
<1>2. CASE \E p \in Processes : Kill(p)
  <2>1. /\ dir' = dir /\ durable' = durable
        /\ \A q \in Requests : /\ phase[q] \in Phases
                              /\ phase'[q] \in {phase[q], EndOf(phase[q])}
    BY <1>2 DEF Kill, TypeOK
  <2>2. TakeTurns' /\ LeaseIsDurable'
    BY <1>1, <2>1 DEF LeaseSound, TakeTurns, LeaseIsDurable
  <2>3. ASSUME NEW q \in Requests, phase'[q] = "abandoned"
        PROVE  dir.lock # NoLock
               /\ \A r \in Requests : phase'[r] \notin Holding
    <3>1. CASE phase[q] = "abandoned"
      BY <1>1, <2>1, <3>1 DEF LeaseSound, DoubtStays
    <3>2. CASE phase[q] # "abandoned"
      <4>1. phase[q] \in Holding /\ phase'[q] = EndOf(phase[q])
        BY <1>1, <2>1, <2>3, <3>2
      <4>2. \A r \in Requests : r # q => phase'[r] \notin Holding
        BY <1>1, <2>1, <4>1 DEF LeaseSound, TakeTurns
      <4> QED
        BY <1>1, <2>1, <2>3, <4>1, <4>2 DEF LeaseSound, TakeTurns, Holding
    <3> QED
      BY <3>1, <3>2
  <2> QED
    BY <2>1, <2>2, <2>3 DEF LeaseSound, DoubtStays
<1>3. CASE Tick
  BY <1>3 DEF Tick, LeaseSound, TakeTurns, DoubtStays, LeaseIsDurable
<1>4. CASE PowerLoss
  <2>1. /\ dir'.lock \in {dir.lock, durable.lock} /\ durable'.lock = dir'.lock
        /\ \A q \in Requests : /\ phase[q] \in Phases
                              /\ phase'[q] = EndOf(phase[q])
    BY <1>4 DEF PowerLoss, TypeOK
  <2>2. \A q \in Requests : phase'[q] \notin Holding
    BY <1>1, <2>1
  <2>3. ASSUME NEW q \in Requests, phase'[q] = "abandoned"
        PROVE  dir'.lock # NoLock
    BY <1>1, <2>1, <2>3 DEF LeaseSound, TakeTurns, DoubtStays, LeaseIsDurable
  <2> QED
    BY <2>1, <2>2, <2>3 DEF LeaseSound, TakeTurns, DoubtStays, LeaseIsDurable
<1> QED
  BY <1>2, <1>3, <1>4

\* Only a hand that removes the lock meddles, and it cannot be undone.
LEMMA Meddling ==
    ASSUME Next
    PROVE  RemoveLock \/ meddled' = meddled
<1> USE DEF Same, Local
<1>1. ASSUME NEW r \in Requests, Acquire(r) PROVE meddled' = meddled
  BY <1>1 DEF Acquire, Arrive, Admit, Lock, AcquireRefused, SyncLock,
              StatLock, AcquireFails
<1>2. ASSUME NEW r \in Requests, Spend(r) PROVE meddled' = meddled
  BY <1>2 DEF Spend, ListForSpend, CheckSpend, Open, Write, Seal, Enter,
              SpendFails
<1>3. ASSUME NEW r \in Requests, Use(r) \/ Release(r) PROVE meddled' = meddled
  BY <1>3 DEF Use, Fetch, FetchAborted, Redirect, FinishFetch, Release,
              StatForRelease, Unlock, SyncUnlock, ReleaseFails
<1>4. ASSUME (\E p \in Processes : Kill(p)) \/ Tick \/ PowerLoss
      PROVE  meddled' = meddled
  BY <1>4 DEF Kill, Tick, PowerLoss
<1> QED
  BY <1>1, <1>2, <1>3, <1>4 DEF Next

LEMMA NextLeaseInv == TypeOK /\ LeaseInv /\ [Next]_vars => LeaseInv'
<1> SUFFICES ASSUME TypeOK, LeaseInv, [Next]_vars, ~meddled'
             PROVE  LeaseSound'
  BY DEF LeaseInv
<1>1. CASE UNCHANGED vars
  BY <1>1
     DEF vars, LeaseInv, LeaseSound, TakeTurns, DoubtStays, LeaseIsDurable
<1>2. CASE Next
  <2>1. ~RemoveLock /\ LeaseSound
    BY <1>2, Meddling DEF RemoveLock, LeaseInv
  <2> QED
    BY <1>2, <2>1, AcquireLeaseSound, SpendLeaseSound, UseLeaseSound,
       EnvironmentLeaseSound DEF Next
<1> QED
  BY <1>1, <1>2

\* While nobody else removes .active, requests of all processes take turns
\* and a doubtful lease closes the trial (acquire, spend, release).
THEOREM LeaseInvHolds == Spec => []LeaseInv
<1>1. Init => LeaseInv
  BY DEF Init, LeaseInv, LeaseSound, TakeTurns, DoubtStays, LeaseIsDurable,
         Holding
<1>2. TypeOK /\ LeaseInv /\ [Next]_vars => LeaseInv'
  BY NextLeaseInv
<1> QED
  BY <1>1, <1>2, TrialTypeCorrect, PTL DEF Spec

\* One lease at a time, among all processes.
THEOREM OneLeaseHolds == Spec => []OneLease
<1>1. LeaseInv => OneLease
  BY DEF LeaseInv, LeaseSound, OneLease
<1> QED
  BY <1>1, LeaseInvHolds, PTL

\* A lease that ended in doubt closes the trial for good.
THEOREM DoubtClosesHolds == Spec => []DoubtCloses
<1>1. LeaseInv => DoubtCloses
  BY DEF LeaseInv, LeaseSound, DoubtCloses
<1> QED
  BY <1>1, LeaseInvHolds, PTL
=============================================================================
