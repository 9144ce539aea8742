----------------------------- MODULE ReplayHttp ------------------------------
(***************************************************************************)
(* The paid HTTP path of src/idempotency-replay.mjs: middleware, the       *)
(* settlement tracker around the facilitator, the SDK lifecycle hooks, and *)
(* the journal they share, with crashes, restarts under another key,       *)
(* failing writes and the passage of time.                                 *)
(*                                                                         *)
(* One journal operation (mutate) is one step: operations are serialised   *)
(* by a promise queue.  Everything between two operations of a request     *)
(* interleaves with the other requests and with the clock.                 *)
(***************************************************************************)
EXTENDS ReplayStore

CONSTANT MaxTime    \* bound of the clock

VARIABLES
    phase,    \* where the handling of each request stands
    bind,     \* the binding of each request that arrived
    spend,    \* the facilitator's side of each request's settle call
    answer,   \* what each request was answered
    served    \* the request whose result each answer carried

vars == <<disk, now, epoch, phase, bind, spend, answer, served>>

Phases == {"idle", "waiting", "reserved", "verified", "handled", "prepared",
           "marked", "settling", "charged", "delivering", "refused", "done"}

Spends == {"none", "dispatched", "executed", "rejected"}

Answers == {"none", "invalid", "generation", "error", "conflict", "expired",
            "capacity", "in_flight", "refused", "unresolved", "paid",
            "replayed", "lost"}

TypeOK ==
    /\ disk \in Journals
    /\ now \in Nat
    /\ epoch \in Epochs
    /\ phase \in [Requests -> Phases]
    /\ bind \in [Requests -> Bindings]
    /\ spend \in [Requests -> Spends]
    /\ answer \in [Requests -> Answers]
    /\ served \in [Requests -> Requests \cup {NoRequest}]

Init ==
    /\ disk \in [epoch : Epochs, recs : {{}}]
    /\ now = 0
    /\ epoch = disk.epoch
    /\ phase = [r \in Requests |-> "idle"]
    /\ bind \in [Requests -> Bindings]
    /\ spend = [r \in Requests |-> "none"]
    /\ answer = [r \in Requests |-> "none"]
    /\ served = [r \in Requests |-> NoRequest]

-----------------------------------------------------------------------------
(* Bookkeeping of one request. *)

Goto(r, p) == phase' = [phase EXCEPT ![r] = p]

Finish(r, a, result) ==
    /\ Goto(r, "done")
    /\ answer' = [answer EXCEPT ![r] = a]
    /\ served' = [served EXCEPT ![r] = result]

Refuse(r, a) == Finish(r, a, NoRequest)

Silent == UNCHANGED <<answer, served>>
-----------------------------------------------------------------------------
(* Arrival: the checks before the claim, then the claim.                   *)

\* Paths that need bounded replay refuse other credentials with a 400.
Admissible(b) ==
    b \in Required => b \in Named /\ b \in Dated /\ Until[b] <= now + TTL

ArriveInvalid(r) ==
    /\ phase[r] = "idle"
    /\ ~Admissible(bind[r])
    /\ Refuse(r, "invalid")
    /\ UNCHANGED <<disk, now, epoch, bind, spend>>

Claiming(r) ==
    /\ phase[r] = "idle"
    /\ Admissible(bind[r])
    /\ UNCHANGED <<now, epoch, bind, spend>>

\* The journal belongs to another key generation: 503, charge unknown.
ClaimGenerationRefused(r) ==
    /\ Claiming(r)
    /\ ~ReadableNow
    /\ Refuse(r, "generation")
    /\ UNCHANGED disk

ClaimConflict(r) ==
    /\ Claiming(r)
    /\ \E rec \in Found(Recognised, bind[r]) : rec.binding # bind[r]
    /\ Commit(Recs)
    /\ Refuse(r, "conflict")

ClaimPending(r) ==
    /\ Claiming(r)
    /\ PendingOf(Recognised, bind[r]) # {}
    /\ Commit(Recs)
    /\ Goto(r, "waiting")
    /\ Silent

ClaimHit(r) ==
    /\ Claiming(r)
    /\ Commit(Recs)
    /\ \E rec \in Recognised :
         /\ rec.binding = bind[r]
         /\ ~rec.pending
         /\ Finish(r, "replayed", rec.result)

ClaimExpired(r) ==
    /\ Claiming(r)
    /\ Found(Recognised, bind[r]) = {}
    /\ Expired(bind[r])
    /\ Commit(Recs)
    /\ Refuse(r, "expired")

ClaimCapacity(r) ==
    /\ Claiming(r)
    /\ Found(Recognised, bind[r]) = {}
    /\ ~Expired(bind[r])
    /\ Cardinality(Recs) >= MaxEntries
    /\ Commit(Recs)
    /\ Refuse(r, "capacity")

ClaimReserves(r) ==
    /\ Claiming(r)
    /\ Reservable(bind[r])
    /\ Commit(Reserved(Recs, bind[r], now))
    /\ Goto(r, "reserved")
    /\ Silent

\* A claim that throws answers 500; its reservation may be on disk.
ClaimThrows(r) ==
    /\ Claiming(r)
    /\ \/ Throws(Recs)
       \/ Reservable(bind[r]) /\ Throws(Reserved(Recs, bind[r], now))
    /\ Refuse(r, "error")

Claim(r) ==
    \/ ClaimGenerationRefused(r) \/ ClaimConflict(r) \/ ClaimPending(r)
    \/ ClaimHit(r) \/ ClaimExpired(r) \/ ClaimCapacity(r)
    \/ ClaimReserves(r) \/ ClaimThrows(r)

-----------------------------------------------------------------------------
(* A request that met a pending reservation polls the journal, 25 ms apart, *)
(* until the record changes or its wait is over.                            *)

Polling(r) ==
    /\ phase[r] = "waiting"
    /\ UNCHANGED <<now, epoch, bind, spend>>

PollHit(r) ==
    /\ Polling(r)
    /\ Commit(Recs)
    /\ \E rec \in Recognised :
         /\ rec.binding = bind[r]
         /\ ~rec.pending
         /\ Finish(r, "replayed", rec.result)

PollConflict(r) ==
    /\ Polling(r)
    /\ \E rec \in Found(Recognised, bind[r]) : rec.binding # bind[r]
    /\ Commit(Recs)
    /\ Refuse(r, "conflict")

PollTakesOver(r) ==                                         \* mutant
    /\ Polling(r)
    /\ \/ PendingOf(Recognised, bind[r]) # {} /\ Refuse(r, "in_flight")
       \/ Found(Recognised, bind[r]) = {} /\ Goto(r, "reserved") /\ Silent
    /\ Commit(Recs)

PollWaitsForever(r) ==                                      \* mutant
    /\ Polling(r)
    /\ Found(Recognised, bind[r]) = {}
    /\ Commit(Recs)
    /\ Refuse(r, "in_flight")

\* The wait ran out, or the reservation is gone: 503, never a new claim.
PollGivesUp(r) ==
    /\ Polling(r)
    /\ \/ PendingOf(Recognised, bind[r]) # {}
       \/ Found(Recognised, bind[r]) = {}
    /\ Commit(Recs)
    /\ Refuse(r, "in_flight")

PollThrows(r) ==
    /\ Polling(r)
    /\ Throws(Recs)
    /\ Refuse(r, "error")

Poll(r) == PollHit(r) \/ PollConflict(r) \/ PollGivesUp(r) \/ PollThrows(r)

-----------------------------------------------------------------------------
(* The paid execution of a reserved request.  x402: verify, run the        *)
(* handler, keep its bytes, mark, settle.  MPP: verify, mark, settle, run  *)
(* the handler.                                                            *)

\* The facilitator (external) accepts only an authorization valid now.
Verify(r) ==
    /\ phase[r] = "reserved"
    /\ \/ /\ bind[r] \in Dated
          /\ ~Expired(bind[r])
          /\ Goto(r, "verified")
       \/ Goto(r, "refused")
    /\ Silent
    /\ UNCHANGED <<disk, now, epoch, bind, spend>>

\* The x402 handler runs behind the buffered response; a response that is
\* not 2xx is never settled.
HandleBeforeSettlement(r) ==
    /\ phase[r] = "verified"
    /\ bind[r] \in X402
    /\ \/ Goto(r, "handled")
       \/ Goto(r, "refused")
    /\ Silent
    /\ UNCHANGED <<disk, now, epoch, bind, spend>>

\* onBeforeSettle: keep the bytes on the pending reservation.
Prepare(r) ==
    /\ phase[r] = "handled"
    /\ PendingOf(Recs, bind[r]) # {}
    /\ Commit(Prepared(Recs, bind[r], r))
    /\ Goto(r, "prepared")
    /\ Silent
    /\ UNCHANGED <<now, epoch, bind, spend>>

\* Oversized bytes, a lost reservation or a failing write abort the
\* settlement.
PrepareFails(r) ==
    /\ phase[r] = "handled"
    /\ Throws(Prepared(Recs, bind[r], r))
    /\ Goto(r, "refused")
    /\ Silent
    /\ UNCHANGED <<now, epoch, bind, spend>>

ReadyToMark(r) ==
    phase[r] = IF bind[r] \in X402 THEN "prepared" ELSE "verified"

\* The possible-spend marker is durable before the facilitator is called.
Mark(r) ==
    /\ ReadyToMark(r)
    /\ PendingOf(Recs, bind[r]) # {}
    /\ Commit(MarkedSpend(Recs, bind[r]))
    /\ Goto(r, "marked")
    /\ Silent
    /\ UNCHANGED <<now, epoch, bind, spend>>

\* The facilitator is not called, and the reservation stays in quarantine.
MarkFails(r) ==
    /\ ReadyToMark(r)
    /\ Throws(MarkedSpend(Recs, bind[r]))
    /\ Refuse(r, "unresolved")
    /\ UNCHANGED <<now, epoch, bind, spend>>

Dispatch(r) ==
    /\ phase[r] = "marked"
    /\ spend' = [spend EXCEPT ![r] = "dispatched"]
    /\ Goto(r, "settling")
    /\ Silent
    /\ UNCHANGED <<disk, now, epoch, bind>>

\* The reply arrives: only an executed settlement is reported a success.
SettlementSucceeds(r) ==
    /\ phase[r] = "settling"
    /\ spend[r] = "executed"
    /\ Goto(r, IF bind[r] \in X402 THEN "delivering" ELSE "charged")
    /\ Silent
    /\ UNCHANGED <<disk, now, epoch, bind, spend>>

ReplyTakenForSuccess(r) ==                                  \* mutant
    /\ phase[r] = "settling"
    /\ Goto(r, "delivering")
    /\ Silent
    /\ UNCHANGED <<disk, now, epoch, bind, spend>>

\* A refusal, an error or no reply: the outcome stays unknown.
SettlementUnresolved(r) ==
    /\ phase[r] = "settling"
    /\ Refuse(r, "unresolved")
    /\ UNCHANGED <<disk, now, epoch, bind, spend>>

\* The MPP handler runs after the charge; its response may be an error or
\* exceed the replay bounds, and is then sent but not retained.
HandleAfterSettlement(r) ==
    /\ phase[r] = "charged"
    /\ \/ Goto(r, "delivering") /\ Silent
       \/ Finish(r, "paid", r)
       \/ Refuse(r, "unresolved")
    /\ UNCHANGED <<disk, now, epoch, bind, spend>>

-----------------------------------------------------------------------------
(* res.end: retain a paid result, release an unattempted reservation.      *)

Deliver(r) ==
    /\ phase[r] = "delivering"
    /\ LET kept == Retained(Recs, bind[r], now, r)
       IN  Commit(kept) \/ Throws(kept)
    /\ Finish(r, "paid", r)
    /\ UNCHANGED <<now, epoch, bind, spend>>

Release(r) ==
    /\ phase[r] = "refused"
    /\ Commit(Released(Recs, bind[r]))
    /\ Refuse(r, "refused")
    /\ UNCHANGED <<now, epoch, bind, spend>>

\* The release is lost, or the SDK put a payment-response header on its
\* refusal, which res.end takes for a settlement proof.
EndUnreleased(r) ==
    /\ phase[r] = "refused"
    /\ Throws(Released(Recs, bind[r]))
    /\ Refuse(r, "unresolved")
    /\ UNCHANGED <<now, epoch, bind, spend>>

-----------------------------------------------------------------------------
(* The environment.                                                        *)

\* The chain (external) executes a dispatched authorization while it is
\* valid, whatever became of the process that dispatched it.
ChainExecutes(r) ==
    /\ spend[r] = "dispatched"
    /\ ~Expired(bind[r])
    /\ spend' = [spend EXCEPT ![r] = "executed"]
    /\ UNCHANGED <<disk, now, epoch, phase, bind, answer, served>>

ChainRejects(r) ==
    /\ spend[r] = "dispatched"
    /\ spend' = [spend EXCEPT ![r] = "rejected"]
    /\ UNCHANGED <<disk, now, epoch, phase, bind, answer, served>>

Tick ==
    /\ now < MaxTime
    /\ now' = now + 1
    /\ UNCHANGED <<disk, epoch, phase, bind, spend, answer, served>>

\* The process dies with its memory and restarts, perhaps under another
\* secret; the journal and the dispatched settlements stay.
Crash ==
    /\ epoch' \in Epochs
    /\ LET hit == {r \in Requests : phase[r] \notin {"idle", "done"}}
       IN  /\ phase' = [r \in Requests |->
                          IF r \in hit THEN "done" ELSE phase[r]]
           /\ answer' = [r \in Requests |->
                          IF r \in hit THEN "lost" ELSE answer[r]]
    /\ UNCHANGED <<disk, now, bind, spend, served>>

-----------------------------------------------------------------------------

Execute(r) ==
    \/ Verify(r) \/ HandleBeforeSettlement(r)
    \/ Prepare(r) \/ PrepareFails(r)
    \/ Mark(r) \/ MarkFails(r) \/ Dispatch(r)
    \/ SettlementSucceeds(r) \/ SettlementUnresolved(r)
    \/ HandleAfterSettlement(r)
    \/ Deliver(r) \/ Release(r) \/ EndUnreleased(r)

Handle(r) == ArriveInvalid(r) \/ Claim(r) \/ Poll(r) \/ Execute(r)

Chain(r) == ChainExecutes(r) \/ ChainRejects(r)

Next == Tick \/ Crash \/ \E r \in Requests : Handle(r) \/ Chain(r)

Spec == Init /\ [][Next]_vars

\* A request in progress keeps being served: its steps are resolved promises,
\* a poll with a deadline, and facilitator calls that return or fail.  No
\* fairness is asked of clients, the clock, the chain, crashes or faults.
FairSpec ==
    /\ Spec
    /\ \A r \in Requests :
         /\ WF_vars(PollHit(r) \/ PollConflict(r) \/ PollGivesUp(r))
         /\ WF_vars(Execute(r))

-----------------------------------------------------------------------------
(* Properties.                                                             *)

Spent(r) == spend[r] # "none"

\* No signed credential is handed to the facilitator twice, whatever the
\* retries, crashes, key rotations and failing writes in between (mutate,
\* claim and markSettlementAttempt together).
SettledOnce ==
    \A r, q \in Requests :
        Spent(r) /\ Spent(q) /\ bind[r] = bind[q] => r = q

\* A settlement that may still move money: dispatched or executed, under an
\* authorization that has not expired.
LiveSpend(r) == spend[r] \in {"dispatched", "executed"} /\ ~Expired(bind[r])

\* Two requests that share a payment identifier or a signed nonce never both
\* have a settlement that can move money.
NoRivalSpend ==
    \A r, q \in Requests :
        LiveSpend(r) /\ LiveSpend(q) /\ Related(bind[r], bind[q]) => r = q

\* While an authorization handed to the facilitator is valid, the journal
\* holds a record that refuses another claim of it: the completed result, or
\* a reservation with the possible-spend marker.
SpendIsQuarantined ==
    \A r \in Requests :
        Spent(r) /\ ~Expired(bind[r]) =>
            \E rec \in Recs : rec.binding = bind[r]
                              /\ (rec.pending => rec.attempted)

\* An x402 settlement is dispatched only when the bytes it pays for are
\* durable: while the record lives it holds the response of that very
\* request, as unqualified preparation or as the completed result.
PreparedBeforeSpend ==
    \A r \in Requests :
        Spent(r) /\ bind[r] \in X402 =>
            \A rec \in Recs :
                rec.binding = bind[r] =>
                    IF rec.pending THEN rec.prepared = r ELSE rec.result = r

\* A replayed response is the response of a request of the same binding
\* whose settlement was executed; prepared bytes are never served.
ReplayedWasPaid ==
    \A r \in Requests :
        answer[r] = "replayed" =>
            \E q \in Requests : /\ served[r] = q
                                /\ bind[q] = bind[r]
                                /\ spend[q] = "executed"

\* The handler of one binding never runs for two requests at a time.
Executing(r) == phase[r] \in {"verified", "handled", "prepared", "marked",
                              "settling", "charged", "delivering"}
OneExecution ==
    \A r, q \in Requests :
        Executing(r) /\ Executing(q) /\ bind[r] = bind[q] => r = q

\* The time in which the record of a credential is in the journal, however
\* late it was written.
Guarded(b) == b \in Dated /\ now < Until[b] + Grace

\* A charge that may still be reported can be answered for: until a minute
\* after its authorization expires, the result of a dispatched request finds
\* room in the journal, however the other clients filled it meanwhile, and
\* storing it drops no record of another credential (claim and mutate refuse
\* at the capacity, persistResponse replaces by identifier).
ResultHasRoom ==
    \A r \in Requests :
        phase[r] \in {"settling", "charged", "delivering"} /\ Guarded(bind[r]) =>
            LET kept == Retained(Recs, bind[r], now, r)
            IN  /\ Cardinality(kept) <= MaxEntries
                /\ \A rec \in Recs : rec.binding # bind[r] => rec \in kept

\* A reservation without the marker has a request that still owns it, or one
\* whose release was lost: normal operation leaks no reservation.
NoOrphanReservation ==
    \A rec \in Recs :
        rec.pending /\ ~rec.attempted =>
            \E r \in Requests :
                /\ bind[r] = rec.binding
                /\ \/ phase[r] \in {"reserved", "verified", "handled",
                                     "prepared", "refused"}
                   \/ answer[r] \in {"error", "unresolved", "lost"}

\* Every request taken up is answered, or dies with its process.
EveryRequestAnswered ==
    \A r \in Requests : phase[r] # "idle" ~> phase[r] = "done"

-----------------------------------------------------------------------------
(* The inductive invariant behind SettledOnce.                             *)

\* The phases in which a request owns a reservation.
Owning(r) == phase[r] \in {"reserved", "verified", "handled", "prepared",
                           "marked", "settling", "charged", "delivering",
                           "refused"}

Unspending == {"idle", "waiting", "reserved", "verified", "handled",
               "prepared", "marked", "refused"}

RecordsOutliveValidity ==
    \A rec \in disk.recs :
        rec.binding \in Dated => rec.expiresAt >= Until[rec.binding] + Grace

KeysUnique ==
    \A rec, other \in disk.recs :
        Key[rec.binding] = Key[other.binding] => rec = other

SpendingIsDated ==
    \A r \in Requests :
        /\ phase[r] \in Unspending => spend[r] = "none"
        /\ Spent(r) \/ Executing(r) => bind[r] \in Dated

\* While its authorization is guarded, an owner's record is in the journal.
OwnersHold ==
    \A r \in Requests :
        Owning(r) /\ Guarded(bind[r]) =>
            \E rec \in Recs : rec.binding = bind[r]

\* SpendIsQuarantined, from the marker on and through the grace period.
MarkedIsQuarantined ==
    \A r \in Requests :
        (Spent(r) \/ phase[r] = "marked") /\ Guarded(bind[r]) =>
            \E rec \in Recs : rec.binding = bind[r]
                              /\ (rec.pending => rec.attempted)

Holds(r) == Owning(r) \/ Spent(r)

\* Nobody else ever holds a credential under the same payment identifier,
\* nor one with the same nonce while both are guarded.
SoleHolder ==
    \A r, q \in Requests :
        /\ Holds(r) /\ bind[r] \in Dated
        /\ Holds(q) /\ bind[q] \in Dated
        /\ \/ Key[bind[r]] = Key[bind[q]]
           \/ /\ Related(bind[r], bind[q])
              /\ Guarded(bind[r])
              /\ Guarded(bind[q])
        => r = q

\* What keeps a credential from being settled twice: it has one holder, and
\* its record outlives its validity.
SpendInv ==
    /\ RecordsOutliveValidity
    /\ KeysUnique
    /\ SpendingIsDated
    /\ OwnersHold
    /\ MarkedIsQuarantined
    /\ SoleHolder

-----------------------------------------------------------------------------
(* The abstract promise this module implements.                            *)

CallsFor(b) == {r \in Requests : bind[r] = b /\ Spent(r)}

Operation == INSTANCE PaidOperation WITH
    Operations <- Bindings,
    attempts <- [b \in Bindings |-> Cardinality(CallsFor(b))],
    charged <- {b \in Bindings :
                  \E r \in CallsFor(b) : spend[r] = "executed"},
    delivered <- {bind[r] : r \in {q \in Requests :
                                  answer[q] \in {"paid", "replayed"}}}

\* Every behaviour of the HTTP path is one the promise of PaidOperation
\* allows: one attempt per credential, a charge through it, then results.
ImplementsPaidOperation == Operation!Spec
=============================================================================
