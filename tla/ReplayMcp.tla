------------------------------ MODULE ReplayMcp ------------------------------
(***************************************************************************)
(* Native paid tool calls of src/idempotency-replay.mjs: runMcpTool,       *)
(* recoverMcpResult and the in-memory results that could not be written    *)
(* (unpersistedMcpResults) or must not be served any more                  *)
(* (doomedMcpResults), over the journal the HTTP path also uses.           *)
(*                                                                         *)
(* A journal operation runs when it reaches the head of the promise queue; *)
(* the caller's continuation, up to its next await, runs before the next   *)
(* operation touches the file.  So a step serves the head of the queue and *)
(* may put its caller back at the tail.  The byte cap of the memory and    *)
(* the entry cap are one bound here: every result has the same size.       *)
(***************************************************************************)
EXTENDS ReplayStore, Sequences, Functions

CONSTANTS
    Recoveries,   \* the calls that only ask for recovery
    MaxKept,      \* maxUnpersistedEntries
    MaxTime       \* bound of the clock

\* The constructor throws otherwise.
ASSUME MemoryAssumption == MaxKept \in 1..MaxEntries

VARIABLES
    memory,    \* kept: results not on disk yet; doomed: results given up
    queue,     \* the callers whose journal operation is enqueued
    phase,     \* where each call stands
    bind,      \* the binding of each call
    held,      \* the call whose result a call is retaining
    todo,      \* the doomed bindings a call still has to write
    spend,     \* the facilitator's side of each call's settlement
    answer,    \* what each call was answered
    served     \* the call whose result the answer carried

vars == <<disk, now, epoch, memory, queue, phase, bind, held, todo, spend,
          answer, served>>

Phases == {"idle", "claiming", "executing", "verified", "marking", "settling",
           "releasing", "sweeping_to_retain", "sweeping_to_recover",
           "storing", "dooming", "looking", "done"}

Answers == {"none", "invalid", "storage", "conflict", "expired", "capacity",
            "refused", "unresolved", "stored", "retryable", "unrecoverable",
            "recovered", "in_flight", "not_found", "lost"}

Kept == [binding : Bindings, result : Requests, expiresAt : Nat]

TypeOK ==
    /\ disk \in Journals /\ now \in Nat /\ epoch \in Epochs
    /\ memory \in [kept : Seq(Kept), doomed : Seq(Bindings)]
    /\ Len(memory.kept) <= MaxKept /\ Len(memory.doomed) <= MaxEntries
    /\ queue \in Seq(Requests)
    /\ phase \in [Requests -> Phases]
    /\ bind \in [Requests -> Bindings]
    /\ held \in [Requests -> Requests \cup {NoRequest}]
    /\ todo \in [Requests -> Seq(Bindings)]
    /\ spend \in [Requests -> {"none", "dispatched", "executed", "rejected"}]
    /\ answer \in [Requests -> Answers]
    /\ served \in [Requests -> Requests \cup {NoRequest}]

Init ==
    /\ disk \in [epoch : Epochs, recs : {{}}]
    /\ now = 0
    /\ epoch = disk.epoch
    /\ memory = [kept |-> <<>>, doomed |-> <<>>]
    /\ queue = <<>>
    /\ phase = [r \in Requests |-> "idle"]
    /\ bind \in [Requests -> Bindings]
    /\ held = [r \in Requests |-> NoRequest]
    /\ todo = [r \in Requests |-> <<>>]
    /\ spend = [r \in Requests |-> "none"]
    /\ answer = [r \in Requests |-> "none"]
    /\ served = [r \in Requests |-> NoRequest]

-----------------------------------------------------------------------------
(* The two maps: insertion-ordered, one entry for each payment identifier. *)

\* The elements of s at the places P, in their order (SelectSeq, of which nothing
\* could be proved).
Place(P, n) == CHOOSE i \in P : Cardinality({j \in P : j <= i}) = n
Selected(s, P) == [n \in 1..Cardinality(P) |-> s[Place(P, n)]]

OtherKept(kept, b) == Selected(kept, {i \in DOMAIN kept : Key[kept[i].binding] # Key[b]})
OtherDoomed(doomed, b) == Selected(doomed, {i \in DOMAIN doomed : Key[doomed[i]] # Key[b]})

KeptFor(kept, b) == {e \in Range(kept) : Key[e.binding] = Key[b]}
DoomedFor(doomed, b) == {c \in Range(doomed) : Key[c] = Key[b]}

TrustsKey(e, b) == TRUE                                     \* mutant
SameRequest(e, b) == e.binding = b

\* The bindings lost go to the tail; the oldest ones over the cap are forgotten.
Newest(doomed) ==
    IF Len(doomed) > MaxEntries THEN SubSeq(doomed, Len(doomed) - MaxEntries + 1, Len(doomed)) ELSE doomed
Remember(doomed, lost) ==
    LET others == {i \in DOMAIN doomed : \A n \in DOMAIN lost : Key[lost[n]] # Key[doomed[i]]}
    IN  Newest(Selected(doomed, others) \o lost)

KeptEntry(b, q) == [binding |-> b, result |-> q, expiresAt |-> ExpiresAt(b, now)]

\* A fresh result goes to the tail and is no longer doomed.
Hold(mem, b, q) ==
    [kept |-> Append(OtherKept(mem.kept, b), KeptEntry(b, q)),
     doomed |-> OtherDoomed(mem.doomed, b)]

ExcessLate(kept) == IF Len(kept) > MaxKept + 1 THEN 1 ELSE 0     \* mutant
Excess(kept) == IF Len(kept) > MaxKept THEN Len(kept) - MaxKept ELSE 0

\* Give up the results whose retention ended, then the oldest ones over the
\* bound, but not the one being retained (the last entry).
Prune(mem) ==
    LET gone == Selected(mem.kept, {i \in DOMAIN mem.kept : mem.kept[i].expiresAt <= now})
        rest == Selected(mem.kept, {i \in DOMAIN mem.kept : mem.kept[i].expiresAt > now})
        over == Excess(rest)
        lost == gone \o SubSeq(rest, 1, over)
    IN  [kept |-> SubSeq(rest, over + 1, Len(rest)),
         doomed |-> Remember(mem.doomed, [n \in DOMAIN lost |-> lost[n].binding])]

-----------------------------------------------------------------------------
(* The queue, and the end of a call. *)

Serving(r) == queue # <<>> /\ Head(queue) = r
Others(r) == IF Serving(r) THEN Tail(queue) ELSE queue
Leave(r) == queue' = Others(r)
Await(r, p) == queue' = Append(Others(r), r) /\ phase' = [phase EXCEPT ![r] = p]

Finish(r, a, q) ==
    /\ Leave(r)
    /\ phase' = [phase EXCEPT ![r] = "done"]
    /\ answer' = [answer EXCEPT ![r] = a]
    /\ served' = [served EXCEPT ![r] = q]
    /\ UNCHANGED <<held, todo>>

Refuse(r, a) == Finish(r, a, NoRequest)

Silent == UNCHANGED <<answer, served>>

\* Nothing but the journal changes outside the call.
Quiet == UNCHANGED <<now, epoch, bind, spend>>

-----------------------------------------------------------------------------
(* retainMcpResult and recoverMcpResult up to their next await.            *)

\* The swept memory no longer holds the result: it was given up meanwhile.
StoreOrGiveUp(r, q, mem) ==
    IF KeptFor(mem.kept, bind[r]) = {}
      THEN Finish(r, "unrecoverable", q)
      ELSE /\ Await(r, "storing")
           /\ held' = [held EXCEPT ![r] = q]
           /\ todo' = [todo EXCEPT ![r] = <<>>]
           /\ Silent

Sweep(r, q, mem, p) ==
    /\ Await(r, p)
    /\ held' = [held EXCEPT ![r] = q]
    /\ todo' = [todo EXCEPT ![r] = mem.doomed]
    /\ Silent

Retain(r, q, before) ==
    LET mem == Prune(Hold(before, bind[r], q))
    IN  /\ memory' = mem
        /\ IF mem.doomed = <<>>
             THEN StoreOrGiveUp(r, q, mem)
             ELSE Sweep(r, q, mem, "sweeping_to_retain")

\* A permanently oversized result is never kept.
GiveUpOversized(r, q) ==
    /\ Await(r, "dooming")
    /\ held' = [held EXCEPT ![r] = q]
    /\ Silent
    /\ UNCHANGED <<memory, todo>>

\* Recovery after its sweep: memory first, then the journal.
Answered(r, mem) ==
    LET b == bind[r] IN
    \/ /\ DoomedFor(mem.doomed, b) # {}
       /\ memory' = mem
       /\ Refuse(r, IF b \in DoomedFor(mem.doomed, b)
                      THEN "unrecoverable" ELSE "conflict")
    \/ /\ DoomedFor(mem.doomed, b) = {}
       /\ \E e \in KeptFor(mem.kept, b) :
            IF SameRequest(e, b)
              THEN Retain(r, e.result, mem)
              ELSE memory' = mem /\ Refuse(r, "conflict")
    \/ /\ DoomedFor(mem.doomed, b) = {}
       /\ KeptFor(mem.kept, b) = {}
       /\ memory' = mem
       /\ Await(r, "looking")
       /\ todo' = [todo EXCEPT ![r] = <<>>]
       /\ Silent
       /\ UNCHANGED held

Recover(r) ==
    LET mem == Prune(memory)
    IN  IF mem.doomed = <<>>
          THEN Answered(r, mem)
          ELSE memory' = mem /\ Sweep(r, NoRequest, mem, "sweeping_to_recover")

-----------------------------------------------------------------------------
(* A call arrives. *)

StartRecovery(r) ==
    /\ phase[r] = "idle"
    /\ r \in Recoveries
    /\ Recover(r)
    /\ UNCHANGED disk
    /\ Quiet

Bounded(b) == b \in Dated /\ Until[b] <= now + TTL

RefuseUnbounded(r) ==
    /\ phase[r] = "idle"
    /\ r \notin Recoveries
    /\ ~Bounded(bind[r])
    /\ Refuse(r, "invalid")
    /\ UNCHANGED <<disk, memory>>
    /\ Quiet

StartRun(r) ==
    /\ phase[r] = "idle"
    /\ r \notin Recoveries
    /\ Bounded(bind[r])
    /\ Await(r, "claiming")
    /\ Silent
    /\ UNCHANGED <<disk, memory, held, todo>>
    /\ Quiet

-----------------------------------------------------------------------------
(* The claim. *)

Claiming(r) == phase[r] = "claiming" /\ Serving(r) /\ Quiet

ClaimThrows(r) ==
    /\ Claiming(r)
    /\ \/ Throws(Recs)
       \/ Reservable(bind[r]) /\ Throws(Reserved(Recs, bind[r], now))
    /\ Refuse(r, "storage")
    /\ UNCHANGED memory

ClaimConflict(r) ==
    /\ Claiming(r)
    /\ \E rec \in Found(Recognised, bind[r]) : rec.binding # bind[r]
    /\ Commit(Recs)
    /\ Refuse(r, "conflict")
    /\ UNCHANGED memory

Decoded(r, rec) ==
    IF rec.result = NoRequest THEN Refuse(r, "unrecoverable")
                              ELSE Finish(r, "recovered", rec.result)

ClaimHit(r) ==
    /\ Claiming(r)
    /\ Commit(Recs)
    /\ \E rec \in Recognised :
         rec.binding = bind[r] /\ ~rec.pending /\ Decoded(r, rec)
    /\ UNCHANGED memory

\* Somebody else executes, or did: this call only recovers.
ClaimPending(r) ==
    /\ Claiming(r)
    /\ PendingOf(Recognised, bind[r]) # {}
    /\ Commit(Recs)
    /\ Recover(r)

ClaimRefused(r) ==
    /\ Claiming(r)
    /\ Found(Recognised, bind[r]) = {}
    /\ \/ Expired(bind[r]) /\ Refuse(r, "expired")
       \/ /\ ~Expired(bind[r])
          /\ Cardinality(Recs) >= MaxEntries
          /\ Refuse(r, "capacity")
    /\ Commit(Recs)
    /\ UNCHANGED memory

ClaimReserves(r) ==
    /\ Claiming(r)
    /\ Reservable(bind[r])
    /\ Commit(Reserved(Recs, bind[r], now))
    /\ Leave(r)
    /\ phase' = [phase EXCEPT ![r] = "executing"]
    /\ Silent
    /\ UNCHANGED <<memory, held, todo>>

Claim(r) ==
    \/ ClaimThrows(r) \/ ClaimConflict(r) \/ ClaimHit(r)
    \/ ClaimPending(r) \/ ClaimRefused(r) \/ ClaimReserves(r)

-----------------------------------------------------------------------------
(* The execution behind the claim: the SDK verifies, the tool runs, the    *)
(* facilitator settles.                                                    *)

\* The facilitator (external) accepts only an authorization valid now.
VerifyAndRun(r) ==
    /\ phase[r] = "executing"
    /\ ~Expired(bind[r])
    /\ phase' = [phase EXCEPT ![r] = "verified"]
    /\ Silent
    /\ UNCHANGED <<disk, memory, queue, held, todo>>
    /\ Quiet

\* A challenge, a cancellation or an exception before any settlement.
EndUnpaid(r) ==
    /\ phase[r] \in {"executing", "verified"}
    /\ Await(r, "releasing")
    /\ Silent
    /\ UNCHANGED <<disk, memory, held, todo>>
    /\ Quiet

\* An error result of the tool itself is final: it is retained unpaid.
EndInToolError(r) ==
    /\ phase[r] = "verified"
    /\ Retain(r, r, memory)
    /\ UNCHANGED disk
    /\ Quiet

StartMark(r) ==
    /\ phase[r] = "verified"
    /\ Await(r, "marking")
    /\ Silent
    /\ UNCHANGED <<disk, memory, held, todo>>
    /\ Quiet

\* The marker is durable, then the facilitator is called.
MarkAndDispatch(r) ==
    /\ phase[r] = "marking"
    /\ Serving(r)
    /\ Commit(MarkedSpend(Recs, bind[r]))
    /\ Leave(r)
    /\ phase' = [phase EXCEPT ![r] = "settling"]
    /\ spend' = [spend EXCEPT ![r] = "dispatched"]
    /\ Silent
    /\ UNCHANGED <<now, epoch, memory, bind, held, todo>>

\* A marker that fails leaves the attempt unmade; the reservation is freed.
MarkFails(r) ==
    /\ phase[r] = "marking"
    /\ Serving(r)
    /\ Throws(MarkedSpend(Recs, bind[r]))
    /\ Await(r, "releasing")
    /\ Silent
    /\ UNCHANGED <<memory, held, todo>>
    /\ Quiet

ReleaseUnpaid(r) ==
    /\ phase[r] = "releasing"
    /\ Serving(r)
    /\ LET free == Released(Recs, bind[r]) IN Commit(free) \/ Throws(free)
    /\ Refuse(r, "refused")
    /\ UNCHANGED memory
    /\ Quiet

SettlementSucceeds(r) ==
    /\ phase[r] = "settling"
    /\ spend[r] = "executed"
    /\ Retain(r, r, memory) \/ GiveUpOversized(r, r)
    /\ UNCHANGED disk
    /\ Quiet

ReleasesOnFailedReply(r) ==                                 \* mutant
    /\ phase[r] = "settling"
    /\ Await(r, "releasing")
    /\ Silent
    /\ UNCHANGED <<disk, memory, held, todo>>
    /\ Quiet

\* A failed or missing reply releases nothing: the record stays pending.
SettlementUnresolved(r) ==
    /\ phase[r] = "settling"
    /\ Refuse(r, "unresolved")
    /\ UNCHANGED <<disk, memory>>
    /\ Quiet

-----------------------------------------------------------------------------
(* The operations of retention and recovery. *)

Sweeping(r) == phase[r] \in {"sweeping_to_retain", "sweeping_to_recover"}

\* One doomed result is replaced on disk by an unrecoverable record; a
\* failure leaves it doomed.  After the last one the call goes on.
SweepOne(r) ==
    /\ Sweeping(r)
    /\ Serving(r)
    /\ LET b == Head(todo[r])
           gone == Retained(Recs, b, now, NoRequest)
       IN  \E mem \in {[memory EXCEPT !.doomed = OtherDoomed(@, b)], memory} :
             /\ IF mem = memory THEN Throws(gone) ELSE Commit(gone)
             /\ IF Len(todo[r]) > 1
                  THEN /\ memory' = mem
                       /\ Await(r, phase[r])
                       /\ todo' = [todo EXCEPT ![r] = Tail(@)]
                       /\ Silent
                       /\ UNCHANGED held
                  ELSE IF phase[r] = "sweeping_to_retain"
                         THEN memory' = mem /\ StoreOrGiveUp(r, held[r], mem)
                         ELSE Answered(r, mem)
    /\ Quiet

Store(r) ==
    /\ phase[r] = "storing"
    /\ Serving(r)
    /\ Commit(Retained(Recs, bind[r], now, held[r]))
    /\ memory' = [memory EXCEPT !.kept = OtherKept(@, bind[r])]
    /\ Finish(r, "stored", held[r])
    /\ Quiet

ForgetsWhenStoreFails(r) ==                                 \* mutant
    /\ phase[r] = "storing"
    /\ Serving(r)
    /\ Throws(Retained(Recs, bind[r], now, held[r]))
    /\ memory' = [memory EXCEPT !.kept = OtherKept(@, bind[r])]
    /\ Finish(r, "retryable", held[r])
    /\ Quiet

RetriesStore(r) ==                                          \* mutant
    /\ phase[r] = "storing"
    /\ Serving(r)
    /\ Throws(Retained(Recs, bind[r], now, held[r]))
    /\ Await(r, "storing")
    /\ Silent
    /\ UNCHANGED <<memory, held, todo>>
    /\ Quiet

\* The result stays in memory, and a later read can save it.
StoreFails(r) ==
    /\ phase[r] = "storing"
    /\ Serving(r)
    /\ Throws(Retained(Recs, bind[r], now, held[r]))
    /\ Finish(r, "retryable", held[r])
    /\ UNCHANGED memory
    /\ Quiet

MarkOversized(r) ==
    /\ phase[r] = "dooming"
    /\ Serving(r)
    /\ LET gone == Retained(Recs, bind[r], now, NoRequest) IN
       \/ /\ Commit(gone)
          /\ memory' = [memory EXCEPT !.doomed = OtherDoomed(@, bind[r])]
       \/ /\ Throws(gone)
          /\ memory' = [memory EXCEPT !.doomed = Remember(@, <<bind[r]>>)]
    /\ Finish(r, "unrecoverable", held[r])
    /\ Quiet

\* Lookup only: nothing is claimed or executed by a recovery.
Look(r) ==
    /\ phase[r] = "looking"
    /\ Serving(r)
    /\ \/ Throws(Recs) /\ Refuse(r, "storage")
       \/ /\ Commit(Recs)
          /\ \/ \E rec \in Found(Recognised, bind[r]) :
                  \/ rec.binding # bind[r] /\ Refuse(r, "conflict")
                  \/ /\ rec.binding = bind[r]
                     /\ IF rec.pending THEN Refuse(r, "in_flight")
                                       ELSE Decoded(r, rec)
             \/ Found(Recognised, bind[r]) = {} /\ Refuse(r, "not_found")
    /\ UNCHANGED memory
    /\ Quiet

-----------------------------------------------------------------------------
(* The environment, as in ReplayHttp. *)

ChainExecutes(r) ==
    /\ spend[r] = "dispatched"
    /\ ~Expired(bind[r])
    /\ spend' = [spend EXCEPT ![r] = "executed"]
    /\ UNCHANGED <<disk, now, epoch, memory, queue, phase, bind, held, todo,
                   answer, served>>

ChainRejects(r) ==
    /\ spend[r] = "dispatched"
    /\ spend' = [spend EXCEPT ![r] = "rejected"]
    /\ UNCHANGED <<disk, now, epoch, memory, queue, phase, bind, held, todo,
                   answer, served>>

Tick ==
    /\ now < MaxTime
    /\ now' = now + 1
    /\ UNCHANGED <<disk, epoch, memory, queue, phase, bind, held, todo, spend,
                   answer, served>>

\* The process dies with its memory and its queue.
Crash ==
    /\ epoch' \in Epochs
    /\ memory' = [kept |-> <<>>, doomed |-> <<>>]
    /\ queue' = <<>>
    /\ LET hit == {r \in Requests : phase[r] \notin {"idle", "done"}}
       IN  /\ phase' = [r \in Requests |->
                          IF r \in hit THEN "done" ELSE phase[r]]
           /\ answer' = [r \in Requests |->
                          IF r \in hit THEN "lost" ELSE answer[r]]
    /\ todo' = [r \in Requests |-> <<>>]
    /\ UNCHANGED <<disk, now, bind, held, spend, served>>

-----------------------------------------------------------------------------

Start(r) == StartRecovery(r) \/ RefuseUnbounded(r) \/ StartRun(r)

Execute(r) ==
    \/ VerifyAndRun(r) \/ EndUnpaid(r) \/ EndInToolError(r) \/ StartMark(r)
    \/ MarkAndDispatch(r) \/ MarkFails(r) \/ ReleaseUnpaid(r)
    \/ SettlementSucceeds(r) \/ SettlementUnresolved(r)

Keep(r) ==
    \/ SweepOne(r) \/ Store(r) \/ StoreFails(r) \/ MarkOversized(r) \/ Look(r)

Handle(r) == Claim(r) \/ Execute(r) \/ Keep(r)

Chain(r) == ChainExecutes(r) \/ ChainRejects(r)

Next ==
    \/ Tick \/ Crash
    \/ \E r \in Requests : Start(r) \/ Handle(r) \/ Chain(r)

Spec == Init /\ [][Next]_vars

\* A call in progress goes on: its operations reach the head of the queue
\* and its facilitator calls return or fail.
FairSpec == Spec /\ \A r \in Requests : WF_vars(Handle(r))

-----------------------------------------------------------------------------
(* Properties. *)

Spent(r) == spend[r] # "none"

\* Two calls whose credentials share a payment identifier or a signed nonce
\* never both have a settlement that can still move money.
LiveSpend(r) == spend[r] \in {"dispatched", "executed"} /\ ~Expired(bind[r])

NoRivalSpend ==
    \A r, q \in Requests :
        LiveSpend(r) /\ LiveSpend(q) /\ Related(bind[r], bind[q]) => r = q

\* A result a client gets back, run or recovered, is that of its own signed
\* request, also when another credential took the same payment identifier
\* (recoverMcpResult, decodeMcpRecord).
ResultsBelong ==
    \A r \in Requests :
        served[r] # NoRequest => bind[served[r]] = bind[r]

\* Where the outcome of an operation can be learned: on disk or in memory.
Remembered(b) ==
    \/ \E rec \in Recs : rec.binding = b /\ ~rec.pending
    \/ \E e \in Range(memory.kept) : e.binding = b
    \/ b \in Range(memory.doomed)

Reserving(b) == \E rec \in Recs : rec.binding = b /\ rec.pending

\* rememberDoomed is at its cap, and the binding is not among the newest.
CrowdedOut(b) == b \notin Range(memory.doomed) /\ Len(memory.doomed) = MaxEntries

\* An outcome the process knows never turns back into an unknown one while
\* its reservation stands: only the death of the process forgets it, or as many
\* newer results that were given up as the journal has records; neither a
\* failing write nor the pressure of other results in memory does
\* (retainMcpResult, pruneUnpersisted, sweepDoomed).
OutcomeRemembered ==
    [][Crash \/ \A b \in Bindings :
                  Remembered(b) => Remembered(b)' \/ ~Reserving(b)' \/ CrowdedOut(b)']_vars

\* What was reported stored stays readable while it lives.
StoredIsKept ==
    \A r \in Requests :
        answer[r] = "stored" =>
            \A rec \in Recs : rec.binding = bind[r] => rec.result = served[r]

\* A call is sweeping, and has yet to write that the result of b is given up.
GivenUp(b) == \E r \in Requests : Sweeping(r) /\ b \in Range(todo[r])

\* A result on disk is not replaced while it lives, by another result or by an
\* unrecoverable record, whatever else is stored, released, claimed or given up
\* under its payment identifier; only a call that found it given up and has its
\* marker queued replaces it (persistResponse, persistUnrecoverable, release).
ResultsStayStored ==
    [][\A old \in Recs :
         old.result # NoRequest /\ old.expiresAt > now' =>
            \/ GivenUp(old.binding)
            \/ \E new \in Recs' :
                  new.binding = old.binding /\ new.result = old.result]_vars

\* Every call taken up is answered, or dies with its process.
EveryCallAnswered ==
    \A r \in Requests : phase[r] # "idle" ~> phase[r] = "done"

-----------------------------------------------------------------------------
(* The abstract promise this module implements.                            *)

CallsFor(b) == {r \in Requests : bind[r] = b /\ Spent(r)}

Operation == INSTANCE PaidOperation WITH
    Operations <- Bindings,
    attempts <- [b \in Bindings |-> Cardinality(CallsFor(b))],
    charged <- {b \in Bindings :
                  \E r \in CallsFor(b) : spend[r] = "executed"},
    delivered <- {bind[r] : r \in {q \in Requests :
                      served[q] # NoRequest /\ spend[served[q]] # "none"}}

\* A paid tool call keeps the promise of PaidOperation too: one attempt per
\* credential, a charge through it, then its result, run or recovered.
ImplementsPaidOperation == Operation!Spec
==============================================================================
