--------------------------- MODULE ReferralRecheck --------------------------
(***************************************************************************)
(* The free recheck of a referral (src/receipt-referral-recheck.mjs        *)
(* 226-420): one for each original receipt, consumed by the exclusive      *)
(* creation of a marker file after the audit and before the answer.  The   *)
(* receipts' signatures and terms are those of claims that verify.         *)
(***************************************************************************)
CONSTANTS
    Claims,          \* requests for a recheck
    ReferralOf,      \* receiptReferralId of the original receipt of each
    Referrals        \* its values

VARIABLES
    claim,      \* how far each request is
    markers,    \* files in claimsDir
    lost        \* referrals whose marker was made by a claim that got no reward

claimVars == <<claim, markers, lost>>

TypeOK ==
    /\ claim \in [Claims -> {"new", "verifying", "checking", "auditing", "creating", "closing", "rewarded", "refused"}]
    /\ markers \subseteq Referrals
    /\ lost \subseteq Referrals

Init ==
    /\ claim = [c \in Claims |-> "new"]
    /\ markers = {}
    /\ lost = {}

Becomes(c, stage) == claim' = [claim EXCEPT ![c] = stage]

\* isClaimed, before the receipts are verified and again after it.  It may
\* also fail.
IsClaimed(c, stage, next) ==
    /\ claim[c] = stage
    /\ \/ ReferralOf[c] \notin markers /\ Becomes(c, next)
       \/ Becomes(c, "refused")
    /\ UNCHANGED <<markers, lost>>

Verify(c) ==
    /\ claim[c] = "verifying"
    /\ \E next \in {"checking", "refused"} : Becomes(c, next)
    /\ UNCHANGED <<markers, lost>>

Audit(c) ==
    /\ claim[c] = "auditing"
    /\ \E next \in {"creating", "refused"} : Becomes(c, next)
    /\ UNCHANGED <<markers, lost>>

\* mutant: an existing marker is opened like a new one
OpensAnyway(c) == markers' = markers \cup {ReferralOf[c]} /\ Becomes(c, "closing")

\* The file is opened with "wx"; prepare or open may fail otherwise.
Exclusive(c) ==
    \/ ReferralOf[c] \notin markers /\ markers' = markers \cup {ReferralOf[c]} /\ Becomes(c, "closing")
    \/ UNCHANGED markers /\ Becomes(c, "refused")

Create(c) ==
    /\ claim[c] = "creating"
    /\ Exclusive(c)
    /\ UNCHANGED lost

\* chmod and close, then the answer; when one fails it is 503.
Finish(c) ==
    /\ claim[c] = "closing"
    /\ \/ Becomes(c, "rewarded") /\ UNCHANGED lost
       \/ Becomes(c, "refused") /\ lost' = lost \cup {ReferralOf[c]}
    /\ UNCHANGED markers

\* The process dies.
Die ==
    /\ claim' = [c \in Claims |-> IF claim[c] \in {"new", "rewarded"} THEN claim[c] ELSE "refused"]
    /\ lost' = lost \cup {ReferralOf[c] : c \in {d \in Claims : claim[d] = "closing"}}
    /\ UNCHANGED markers

Next ==
    \/ Die
    \/ \E c \in Claims :
         \/ IsClaimed(c, "new", "verifying") \/ IsClaimed(c, "checking", "auditing")
         \/ Verify(c) \/ Audit(c) \/ Create(c) \/ Finish(c)

Spec == Init /\ [][Next]_claimVars

-----------------------------------------------------------------------------
Winners(r) == {c \in Claims : ReferralOf[c] = r /\ claim[c] \in {"closing", "rewarded"}}

\* A referral earns one recheck, however many claims of it are audited at the
\* same time, and none after a claim that consumed it got no answer: the reward
\* may be lost, it is never given twice (receipt-referral-recheck.mjs:256, 380).
OneRecheck ==
    \A r \in Referrals :
        /\ \A c, d \in Winners(r) : c = d
        /\ Winners(r) # {} => r \in markers \ lost
        /\ r \in markers => Winners(r) # {} \/ r \in lost
=============================================================================
