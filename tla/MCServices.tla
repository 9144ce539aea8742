------------------------------ MODULE MCServices -----------------------------
(***************************************************************************)
(* Finite instances of the services beside the journals, with what each is *)
(* fair about.  They share nothing that decides what they do, so one       *)
(* behaviour runs one of them: `service` says which.  The fairness of the  *)
(* others asks nothing of it: what it is about is not enabled in their     *)
(* initial states.                                                         *)
(***************************************************************************)
EXTENDS ReferralRecheck, Naturals

CONSTANTS
    Results, McpResults, Dispositions, SaysLimit, MaxPolls, MaxSaysFaults,
    Jobs, MaxConcurrent, HttpJobs, ProfileJobs,
    Writes, Notes, Flushes, Drains,
    Keys, MaxRecords, MaxProspectiveFaults

CONSTANTS c1, c2, c3, f1, f2

\* Two claims of one referral, and one of another.
MCReferralOf == [c \in Claims |-> IF c = c3 THEN f2 ELSE f1]

VARIABLES
    service,
    says, olderSays, visible, polls, accepted, broken, saysFaults,
    owned, settling, child, signalled, exchange, active, gone,
    queue, gate, nested, notes, tail, ended, waiter, awaits, asked, pending,
    rows, unseen, records, saturated, torn, prospectiveFaults

Feedback == INSTANCE CallerFeedback
Workers == INSTANCE CompareExchange
Admission == INSTANCE JournalAdmission
Prospective == INSTANCE ProspectiveDelivery

saysVars == <<says, olderSays, visible, polls, accepted, broken, saysFaults>>
workerVars == <<owned, settling, child, signalled, exchange, active, gone>>
gateVars == <<queue, gate, nested, notes, tail, ended, waiter, awaits, asked, pending>>
prospectiveVars == <<rows, unseen, records, saturated, torn, prospectiveFaults>>
vars == <<service, saysVars, workerVars, claimVars, gateVars, prospectiveVars>>

ServicesInit ==
    /\ service \in {"feedback", "workers", "referral", "admission", "prospective"}
    /\ Feedback!Init
    /\ Workers!Init
    /\ Init
    /\ Admission!Init
    /\ Prospective!Init

Only(s) ==
    /\ service = s
    /\ UNCHANGED service
    /\ s # "feedback" => UNCHANGED saysVars
    /\ s # "workers" => UNCHANGED workerVars
    /\ s # "referral" => UNCHANGED claimVars
    /\ s # "admission" => UNCHANGED gateVars
    /\ s # "prospective" => UNCHANGED prospectiveVars

ServicesNext ==
    \/ Only("feedback") /\ Feedback!Next
    \/ Only("workers") /\ Workers!Next
    \/ Only("referral") /\ Next
    \/ Only("admission") /\ Admission!Next
    \/ Only("prospective") /\ Prospective!Next

FairSpec ==
    /\ ServicesInit /\ [][ServicesNext]_vars
    /\ Feedback!Fairness
    /\ Workers!Fairness
    /\ Admission!Fairness
    /\ Prospective!Fairness

-----------------------------------------------------------------------------
\* The type invariants of the services.
ServicesTypeOK ==
    /\ Feedback!TypeOK
    /\ Workers!TypeOK
    /\ TypeOK
    /\ Admission!TypeOK
    /\ Prospective!TypeOK

\* The files never hold two statements on one result
\* (caller-result-feedback.mjs:944).
OneStatement == Feedback!OneStatement

\* An accepted statement can be read until it is rotated out or a write failed
\* inside a line (caller-result-feedback.mjs:639).
AcceptedIsReadable == Feedback!AcceptedIsReadable

\* No more workers than the capacity, and none behind an answered comparison or
\* for a client that is gone (page-change-http.mjs:503, 725).
NoStrayWorker == Workers!NoStrayWorker

\* A flush leaves no work of before it, and no observation
\* (commerce-events.mjs:3919).
FlushIsComplete == Admission!FlushIsComplete

\* A prospective record is filled and advanced, never revised
\* (commerce-prospective-delivery.mjs:30).
RecordsOnlyAdvance == Prospective!RecordsOnlyAdvance

\* A submission does not wait for ever (caller-result-feedback.mjs:1012).
WaitEnds == Feedback!WaitEnds

\* Workers and slots are held for a time only (page-change-http.mjs:489, 668).
ComparisonEnds == Workers!ComparisonEnds

\* A flush returns (commerce-journal-admission.mjs:26).
FlushReturns == Admission!FlushReturns

\* An open record advances with its settlement's row, unless a rejected
\* statement bars it (commerce-prospective-delivery.mjs:601).
CaptureAdvances == Prospective!CaptureAdvances
=============================================================================
