---------------------------- MODULE ServicesProofs ---------------------------
(***************************************************************************)
(* Proofs about the services beside the journals, for any number of        *)
(* results, comparisons, works and settlements.  Each is proved of the     *)
(* specification of its own component; ServicesAreComponents carries it to *)
(* the behaviours in which one of the services runs.                       *)
(***************************************************************************)
EXTENDS MCServices, FiniteSetTheorems, Sequences, TLAPS

-----------------------------------------------------------------------------
(* The recheck of a receipt referral: one for each, for any number of      *)
(* claims.  A referral is lost only once it is marked; with this OneRecheck*)
(* is inductive.                                                           *)

\* Every claim has the receiptReferralId of its original receipt.
ClaimsHaveReferrals == ReferralOf \in [Claims -> Referrals]

RecheckInv == TypeOK /\ lost \subseteq markers /\ OneRecheck

\* A step that changes no marker and takes nobody in or out of the winners.
LEMMA NoWinnerMoves ==
    ASSUME RecheckInv, TypeOK', UNCHANGED <<markers, lost>>,
           \A c \in Claims : claim'[c] \in {"closing", "rewarded"} <=> claim[c] \in {"closing", "rewarded"}
    PROVE  RecheckInv'
<1>1. \A r \in Referrals : Winners(r)' = Winners(r)
  BY DEF Winners
<1> QED  BY <1>1 DEF RecheckInv, OneRecheck

\* The claim that creates the marker is the first winner of its referral.
LEMMA CreateKeeps ==
    ASSUME RecheckInv, ClaimsHaveReferrals, NEW c \in Claims, Create(c)
    PROVE  RecheckInv'
<1> USE DEF ClaimsHaveReferrals
<1>1. CASE ReferralOf[c] \notin markers /\ markers' = markers \cup {ReferralOf[c]} /\ Becomes(c, "closing")
  <2>1. TypeOK'
    BY <1>1 DEF RecheckInv, TypeOK, Create, Becomes
  <2>2. Winners(ReferralOf[c]) = {}
    BY <1>1 DEF RecheckInv, OneRecheck
  <2>3. Winners(ReferralOf[c])' = {c}
    BY <1>1, <2>2 DEF RecheckInv, TypeOK, Winners, Becomes
  <2>4. \A r \in Referrals : r # ReferralOf[c] => Winners(r)' = Winners(r)
    BY <1>1 DEF RecheckInv, TypeOK, Winners, Becomes
  <2>5. lost' = lost /\ ReferralOf[c] \notin lost
    BY <1>1 DEF RecheckInv, Create
  <2>6. OneRecheck'
    BY <1>1, <2>3, <2>4, <2>5 DEF RecheckInv, OneRecheck
  <2> QED  BY <1>1, <2>1, <2>5, <2>6 DEF RecheckInv
<1>2. CASE UNCHANGED markers /\ Becomes(c, "refused")
  <2>1. TypeOK' /\ UNCHANGED <<markers, lost>>
    BY <1>2 DEF RecheckInv, TypeOK, Create, Becomes
  <2> QED  BY <1>2, <2>1, NoWinnerMoves DEF RecheckInv, TypeOK, Create, Becomes
<1> QED  BY <1>1, <1>2 DEF Create, Exclusive

\* A claim that ends without its answer takes its referral along.
LEMMA FinishKeeps ==
    ASSUME RecheckInv, ClaimsHaveReferrals, NEW c \in Claims, Finish(c)
    PROVE  RecheckInv'
<1> USE DEF ClaimsHaveReferrals
<1>1. TypeOK'
  BY DEF RecheckInv, TypeOK, Finish, Becomes
<1>2. CASE Becomes(c, "rewarded") /\ UNCHANGED lost
  BY <1>1, <1>2, NoWinnerMoves DEF RecheckInv, TypeOK, Finish, Becomes
<1>3. CASE Becomes(c, "refused") /\ lost' = lost \cup {ReferralOf[c]}
  <2>1. Winners(ReferralOf[c]) = {c} /\ ReferralOf[c] \in markers
    BY DEF RecheckInv, OneRecheck, Finish, Winners
  <2>2. Winners(ReferralOf[c])' = {}
    BY <1>3, <2>1 DEF RecheckInv, TypeOK, Winners, Becomes
  <2>3. \A r \in Referrals : r # ReferralOf[c] => Winners(r)' = Winners(r)
    BY <1>3 DEF RecheckInv, TypeOK, Winners, Becomes
  <2>4. OneRecheck'
    BY <1>3, <2>2, <2>3 DEF RecheckInv, OneRecheck, Finish
  <2> QED  BY <1>1, <1>3, <2>1, <2>4 DEF RecheckInv, Finish
<1> QED  BY <1>2, <1>3 DEF Finish

\* So does the death of the process, with every claim that was about to end.
LEMMA DieKeeps ==
    ASSUME RecheckInv, ClaimsHaveReferrals, Die
    PROVE  RecheckInv'
<1> USE DEF ClaimsHaveReferrals
<1> DEFINE Taken == {ReferralOf[c] : c \in {d \in Claims : claim[d] = "closing"}}
<1>1. TypeOK'
  BY DEF RecheckInv, TypeOK, Die
<1>2. \A r \in Referrals : r \in Taken => r \in markers /\ Winners(r)' = {}
  <2> TAKE r \in Referrals
  <2> HAVE r \in Taken
  <2>1. PICK c \in Claims : ReferralOf[c] = r /\ claim[c] = "closing"
    OBVIOUS
  <2>2. Winners(r) = {c} /\ r \in markers
    BY <2>1 DEF RecheckInv, OneRecheck, Winners
  <2> QED  BY <2>1, <2>2 DEF Die, Winners
<1>3. \A r \in Referrals : r \notin Taken => Winners(r)' = Winners(r)
  BY DEF Die, Winners
<1>4. Taken \subseteq Referrals /\ markers' = markers /\ lost' = lost \cup Taken
  BY DEF Die
<1>5. OneRecheck'
  BY <1>2, <1>3, <1>4 DEF RecheckInv, OneRecheck
<1> QED  BY <1>1, <1>2, <1>4, <1>5 DEF RecheckInv

\* The invariant of a claim, its referral and the marker of it.
LEMMA RecheckInvHolds ==
    ClaimsHaveReferrals /\ Spec => []RecheckInv
<1>1. Init => RecheckInv
  BY DEF Init, RecheckInv, TypeOK, OneRecheck, Winners
<1>2. ClaimsHaveReferrals /\ RecheckInv /\ [Next]_claimVars => RecheckInv'
  <2> SUFFICES ASSUME ClaimsHaveReferrals, RecheckInv, [Next]_claimVars
               PROVE  RecheckInv'
    OBVIOUS
  <2>1. ASSUME NEW c \in Claims, IsClaimed(c, "new", "verifying")
        PROVE  RecheckInv'
    <3>1. TypeOK'
      BY <2>1 DEF RecheckInv, TypeOK, IsClaimed, Becomes
    <3> QED  BY <2>1, <3>1, NoWinnerMoves DEF RecheckInv, TypeOK, IsClaimed, Becomes
  <2>2. ASSUME NEW c \in Claims, IsClaimed(c, "checking", "auditing")
        PROVE  RecheckInv'
    <3>1. TypeOK'
      BY <2>2 DEF RecheckInv, TypeOK, IsClaimed, Becomes
    <3> QED  BY <2>2, <3>1, NoWinnerMoves DEF RecheckInv, TypeOK, IsClaimed, Becomes
  <2>3. ASSUME NEW c \in Claims, Verify(c)
        PROVE  RecheckInv'
    <3>1. TypeOK'
      BY <2>3 DEF RecheckInv, TypeOK, Verify, Becomes
    <3> QED  BY <2>3, <3>1, NoWinnerMoves DEF RecheckInv, TypeOK, Verify, Becomes
  <2>4. ASSUME NEW c \in Claims, Audit(c)
        PROVE  RecheckInv'
    <3>1. TypeOK'
      BY <2>4 DEF RecheckInv, TypeOK, Audit, Becomes
    <3> QED  BY <2>4, <3>1, NoWinnerMoves DEF RecheckInv, TypeOK, Audit, Becomes
  <2>5. CASE UNCHANGED claimVars
    BY <2>5 DEF RecheckInv, TypeOK, OneRecheck, Winners, claimVars
  <2> QED
    BY <2>1, <2>2, <2>3, <2>4, <2>5, CreateKeeps, FinishKeeps, DieKeeps DEF Next
<1>3. ClaimsHaveReferrals => ClaimsHaveReferrals'
  OBVIOUS
<1> QED
  BY <1>1, <1>2, <1>3, PTL DEF Spec

\* A referral earns one recheck, and none after a claim that consumed it got no
\* answer (OneRecheck), whatever claims are audited at the same time and
\* wherever storage or the process fails (receiptReferralRecheck).
THEOREM OneRecheckHolds ==
    ClaimsHaveReferrals /\ Spec => []OneRecheck
<1>1. RecheckInv => OneRecheck
  BY DEF RecheckInv
<1> QED
  BY <1>1, RecheckInvHolds, PTL

-----------------------------------------------------------------------------
(* Statements of callers about paid results.                               *)

\* Without a failed write the current file ends with a newline.
OpenOnlyWhenBroken == ~broken => ~says.open

\* The bounds of the instance are numbers.
SaysBounds == MaxPolls \in Nat /\ MaxSaysFaults \in Nat

SaysInv ==
    /\ Feedback!TypeOK
    /\ OpenOnlyWhenBroken
    /\ OneStatement
    /\ AcceptedIsReadable

LEMMA BlankFile ==
    /\ Feedback!Blank \in Feedback!File(Feedback!Statement)
    /\ Feedback!Blank.lines = {} /\ Feedback!Blank.open = FALSE
  BY DEF Feedback!File, Feedback!Blank

\* What a write of s may leave of a file: the lines it had and that of s, all of
\* them when it did not end inside a line.
LEMMA WriteOfStatement ==
    ASSUME NEW f \in Feedback!File(Feedback!Statement), NEW s \in Feedback!Statement,
           NEW g \in Feedback!Cuts(f, s, FALSE)
    PROVE  /\ g \in Feedback!File(Feedback!Statement)
           /\ g.lines \subseteq f.lines \cup {s}
           /\ ~f.open => f.lines \subseteq g.lines
<1> DEFINE Extended == Feedback!Extended(f, FALSE)
           Spelled == Feedback!Spelled(f, s, FALSE)
<1>1. /\ f.lines \subseteq Feedback!Statement /\ f.tail \subseteq Feedback!Statement
      /\ f.open \in BOOLEAN /\ f.size \in Nat /\ f.size + 1 \in Nat
  BY DEF Feedback!File
<1>2. /\ Extended \subseteq f.lines /\ Spelled \subseteq {s}
      /\ ~f.open => Extended = f.lines
  BY DEF Feedback!Extended, Feedback!Spelled
<1>3. CASE g = f
  BY <1>3
<1>4. CASE g = [lines |-> Extended, tail |-> {}, open |-> TRUE, size |-> f.size + 1]
  BY <1>1, <1>2, <1>4 DEF Feedback!File
<1>5. CASE g = [lines |-> Extended \cup Spelled, tail |-> Spelled, open |-> TRUE, size |-> f.size + 1]
  BY <1>1, <1>2, <1>5 DEF Feedback!File
<1>6. CASE g = [lines |-> Extended \cup Spelled, tail |-> {}, open |-> FALSE, size |-> f.size + 1]
  BY <1>1, <1>2, <1>6 DEF Feedback!File
<1> QED
  BY <1>3, <1>4, <1>5, <1>6 DEF Feedback!Cuts, Feedback!Torn, Feedback!Unterminated, Feedback!Appended

\* The line of s is readable when the file ended with a newline before.
LEMMA AppendOfStatement ==
    ASSUME NEW f \in Feedback!File(Feedback!Statement), NEW s \in Feedback!Statement
    PROVE  LET g == Feedback!Appended(f, s, FALSE)
           IN  /\ g \in Feedback!File(Feedback!Statement)
               /\ g.lines \subseteq f.lines \cup {s}
               /\ ~g.open
               /\ ~f.open => g.lines = f.lines \cup {s}
  BY DEF Feedback!File, Feedback!Appended, Feedback!Extended, Feedback!Spelled

\* The file a write goes to, and what it is moved behind.
LEMMA TargetOfWrite ==
    ASSUME SaysInv
    PROVE  /\ Feedback!Target.current \in Feedback!File(Feedback!Statement)
           /\ Feedback!Target.older \in Feedback!File(Feedback!Statement)
           /\ ~broken => ~Feedback!Target.current.open
           /\ Feedback!Target.current.lines \cup Feedback!Target.older.lines \subseteq Feedback!Rows
           /\ Feedback!Rows \ Feedback!RotatedOut
                \subseteq Feedback!Target.current.lines \cup Feedback!Target.older.lines
           /\ Feedback!RotatedOut = {} \/ Feedback!RotatedOut = olderSays.lines
  BY DEF SaysInv, OpenOnlyWhenBroken, Feedback!TypeOK, Feedback!Target, Feedback!Moved, Feedback!Full,
         Feedback!RotatedOut, Feedback!Rows, Feedback!Blank, Feedback!File

\* A statement on a result of which the files spell none.
LEMMA OneMoreStatement ==
    ASSUME OneStatement, NEW s, Feedback!PriorOn(s) = {}, Feedback!Rows' \subseteq Feedback!Rows \cup {s}
    PROVE  OneStatement'
  BY DEF OneStatement, Feedback!OneStatement, Feedback!PriorOn

LEMMA ForgottenPolls ==
    ASSUME Feedback!TypeOK, NEW s, polls' = Feedback!Forgotten(s)
    PROVE  DOMAIN polls' \subseteq Feedback!McpStatement /\ \A t \in DOMAIN polls' : polls'[t] \in 0..MaxPolls
  BY DEF Feedback!TypeOK, Feedback!Forgotten

LEMMA CommitKeeps ==
    ASSUME SaysInv, NEW s \in Feedback!Statement, Feedback!Commit(s)
    PROVE  SaysInv'
<1>1. /\ says' \in Feedback!File(Feedback!Statement)
      /\ says'.lines \subseteq Feedback!Target.current.lines \cup {s}
      /\ ~says'.open
      /\ ~Feedback!Target.current.open => says'.lines = Feedback!Target.current.lines \cup {s}
  BY AppendOfStatement, TargetOfWrite DEF Feedback!Commit
<1>2. Feedback!Rows' \subseteq Feedback!Rows \cup {s}
  BY <1>1, TargetOfWrite DEF Feedback!Commit, Feedback!Rows
<1>3. OneStatement'
  BY <1>2, OneMoreStatement DEF SaysInv, Feedback!Commit
<1>4. ~broken => accepted' \subseteq Feedback!Rows'
  <2> SUFFICES ASSUME ~broken PROVE accepted' \subseteq Feedback!Rows'
    OBVIOUS
  <2>1. Feedback!Rows' = Feedback!Target.current.lines \cup Feedback!Target.older.lines \cup {s}
    BY <1>1, TargetOfWrite DEF Feedback!Commit, Feedback!Rows
  <2>2. accepted \subseteq Feedback!Rows
    BY DEF SaysInv, AcceptedIsReadable, Feedback!AcceptedIsReadable
  <2> QED  BY <2>1, <2>2, TargetOfWrite DEF Feedback!Commit
<1>5. accepted' \subseteq Feedback!Statement /\ UNCHANGED <<visible, broken, saysFaults>>
  BY DEF SaysInv, Feedback!TypeOK, Feedback!Commit
<1>6. Feedback!TypeOK'
  BY <1>1, <1>5, ForgottenPolls, TargetOfWrite DEF SaysInv, Feedback!TypeOK, Feedback!Commit
<1> QED
  BY <1>1, <1>3, <1>4, <1>5, <1>6 DEF SaysInv, OpenOnlyWhenBroken, AcceptedIsReadable, Feedback!AcceptedIsReadable

LEMMA AnswerKeeps ==
    ASSUME SaysInv, NEW s \in Feedback!Statement, Feedback!AnswerFromPrior(s)
    PROVE  SaysInv'
<1>1. UNCHANGED <<says, olderSays, visible, broken, saysFaults>> /\ Feedback!Rows' = Feedback!Rows
  BY DEF Feedback!AnswerFromPrior, Feedback!saysFiles, Feedback!Rows
<1>2. accepted' \subseteq accepted \cup Feedback!Rows /\ accepted' \subseteq Feedback!Statement
  BY DEF SaysInv, Feedback!TypeOK, Feedback!AnswerFromPrior, Feedback!PriorOn
<1>3. Feedback!TypeOK'
  BY <1>1, <1>2, ForgottenPolls DEF SaysInv, Feedback!TypeOK, Feedback!AnswerFromPrior
<1> QED
  BY <1>1, <1>2, <1>3 DEF SaysInv, OpenOnlyWhenBroken, OneStatement, Feedback!OneStatement,
     AcceptedIsReadable, Feedback!AcceptedIsReadable

LEMMA CommitFailsKeeps ==
    ASSUME SaysBounds, SaysInv, NEW s \in Feedback!Statement, Feedback!CommitFails(s)
    PROVE  SaysInv'
<1>0. saysFaults' \in 0..MaxSaysFaults /\ broken' \in BOOLEAN /\ visible' = visible
  BY DEF SaysBounds, SaysInv, Feedback!TypeOK, Feedback!CommitFails, Feedback!File
<1>1. CASE says' = says /\ olderSays' \in {olderSays} \cup (IF Feedback!Full THEN {Feedback!Blank} ELSE {})
  <2>0. /\ olderSays' = olderSays \/ olderSays'.lines = {}
        /\ olderSays' \in Feedback!File(Feedback!Statement)
    BY <1>1, BlankFile DEF SaysInv, Feedback!TypeOK
  <2>1. /\ says' \in Feedback!File(Feedback!Statement) /\ olderSays' \in Feedback!File(Feedback!Statement)
        /\ Feedback!Rows' \subseteq Feedback!Rows
        /\ accepted \subseteq Feedback!Rows => accepted' \subseteq Feedback!Rows'
    BY <1>1, <2>0 DEF SaysInv, Feedback!TypeOK, Feedback!CommitFails, Feedback!Rows
  <2>2. OpenOnlyWhenBroken' /\ OneStatement'
    BY <2>1 DEF SaysInv, OpenOnlyWhenBroken, Feedback!CommitFails, OneStatement, Feedback!OneStatement
  <2>3. AcceptedIsReadable'
    BY <2>1 DEF SaysInv, Feedback!CommitFails, AcceptedIsReadable, Feedback!AcceptedIsReadable
  <2>4. Feedback!TypeOK'
    BY <1>0, <2>1, ForgottenPolls DEF SaysInv, Feedback!TypeOK, Feedback!CommitFails
  <2> QED  BY <2>2, <2>3, <2>4 DEF SaysInv
<1>2. CASE says' \in Feedback!Cuts(Feedback!Target.current, s, FALSE) /\ olderSays' = Feedback!Target.older
  <2>1. /\ says' \in Feedback!File(Feedback!Statement)
        /\ says'.lines \subseteq Feedback!Target.current.lines \cup {s}
        /\ ~Feedback!Target.current.open => Feedback!Target.current.lines \subseteq says'.lines
    BY <1>2, WriteOfStatement, TargetOfWrite
  <2>2. Feedback!Rows' \subseteq Feedback!Rows \cup {s}
    BY <1>2, <2>1, TargetOfWrite DEF Feedback!Rows
  <2>3. OneStatement'
    BY <2>2, OneMoreStatement DEF SaysInv, Feedback!CommitFails
  <2>4. OpenOnlyWhenBroken'
    BY DEF OpenOnlyWhenBroken, Feedback!CommitFails
  <2>5. ~broken => accepted' \subseteq Feedback!Rows'
    <3> SUFFICES ASSUME ~broken PROVE accepted' \subseteq Feedback!Rows'
      OBVIOUS
    <3>1. Feedback!Target.current.lines \cup Feedback!Target.older.lines \subseteq Feedback!Rows'
      BY <1>2, <2>1, TargetOfWrite DEF Feedback!Rows
    <3>2. accepted \subseteq Feedback!Rows
      BY DEF SaysInv, AcceptedIsReadable, Feedback!AcceptedIsReadable
    <3>3. olderSays' = olderSays => olderSays.lines \subseteq Feedback!Rows'
      BY DEF Feedback!Rows
    <3> QED  BY <3>1, <3>2, <3>3, TargetOfWrite DEF Feedback!CommitFails
  <2>6. Feedback!TypeOK'
    BY <1>0, <1>2, <2>1, TargetOfWrite, ForgottenPolls DEF SaysInv, Feedback!TypeOK, Feedback!CommitFails
  <2> QED
    BY <2>3, <2>4, <2>5, <2>6 DEF SaysInv, AcceptedIsReadable, Feedback!AcceptedIsReadable, Feedback!CommitFails
<1> QED  BY <1>1, <1>2 DEF Feedback!CommitFails

\* A step that leaves files, answers and faults alone.
LEMMA OtherSaysSteps ==
    ASSUME SaysInv, Feedback!TypeOK', UNCHANGED <<says, olderSays, accepted, broken>>
    PROVE  SaysInv'
  BY DEF SaysInv, OpenOnlyWhenBroken, OneStatement, Feedback!OneStatement, AcceptedIsReadable,
     Feedback!AcceptedIsReadable, Feedback!Rows

LEMMA SaysStep == SaysBounds /\ SaysInv /\ [Feedback!Next]_Feedback!saysVars => SaysInv'
<1> SUFFICES ASSUME SaysBounds, SaysInv, [Feedback!Next]_Feedback!saysVars PROVE SaysInv'
  OBVIOUS
<1> USE DEF Feedback!saysFiles
<1>1. ASSUME NEW p \in Results, Feedback!Capture(p) PROVE SaysInv'
  BY <1>1, OtherSaysSteps DEF SaysInv, Feedback!TypeOK, Feedback!Capture
<1>2. ASSUME NEW s \in Feedback!Statement, Feedback!Admit(s) PROVE SaysInv'
  BY <1>2, CommitKeeps, AnswerKeeps, CommitFailsKeeps DEF Feedback!Admit
<1>3. ASSUME NEW s \in Feedback!Statement, Feedback!Arrive(s) PROVE SaysInv'
  <2>1. s \in Feedback!McpStatement
    BY <1>3 DEF Feedback!Arrive, Feedback!Statement, Feedback!McpStatement
  <2>2. 0 \in 0..MaxPolls
    BY DEF SaysBounds
  <2> QED  BY <1>3, <2>1, <2>2, OtherSaysSteps DEF SaysInv, Feedback!TypeOK, Feedback!Arrive
<1>4. ASSUME NEW s \in Feedback!Statement, s \in DOMAIN polls, Feedback!Poll(s) PROVE SaysInv'
  <2>1. DOMAIN polls' \subseteq Feedback!McpStatement /\ \A t \in DOMAIN polls' : polls'[t] \in 0..MaxPolls
    BY <1>4, ForgottenPolls DEF SaysBounds, SaysInv, Feedback!TypeOK, Feedback!Poll
  <2> QED  BY <1>4, <2>1, OtherSaysSteps DEF SaysInv, Feedback!TypeOK, Feedback!Poll
<1>5. CASE Feedback!RestartService
  BY <1>5, OtherSaysSteps DEF SaysInv, Feedback!TypeOK, Feedback!RestartService, Feedback!NoPolls
<1>6. CASE UNCHANGED Feedback!saysVars
  BY <1>6, OtherSaysSteps DEF SaysInv, Feedback!TypeOK, Feedback!saysVars
<1> QED
  BY <1>1, <1>2, <1>3, <1>4, <1>5, <1>6 DEF Feedback!Next, Feedback!Submit, Feedback!SubmitMcp

LEMMA SaysInitially == SaysBounds /\ Feedback!Init => SaysInv
<1> SUFFICES ASSUME SaysBounds, Feedback!Init PROVE SaysInv
  OBVIOUS
<1>1. /\ says = Feedback!Blank /\ olderSays = Feedback!Blank /\ visible = {}
      /\ DOMAIN polls = {} /\ accepted = {} /\ broken = FALSE /\ saysFaults = 0
  BY DEF Feedback!Init, Feedback!NoPolls
<1>2. Feedback!Rows = {} /\ says.open = FALSE
  BY <1>1, BlankFile DEF Feedback!Rows
<1>3. Feedback!TypeOK
  <2>1. \A t \in DOMAIN polls : polls[t] \in 0..MaxPolls
    BY <1>1
  <2>2. broken \in BOOLEAN
    BY <1>1
  <2>3. saysFaults \in 0..MaxSaysFaults
    BY <1>1 DEF SaysBounds
  <2>4. DOMAIN polls \subseteq Feedback!McpStatement /\ visible \subseteq Results /\ accepted \subseteq Feedback!Statement
    BY <1>1
  <2> QED  BY <1>1, <2>1, <2>2, <2>3, <2>4, BlankFile DEF Feedback!TypeOK
<1>4. OneStatement /\ AcceptedIsReadable
  BY <1>1, <1>2 DEF OneStatement, Feedback!OneStatement, AcceptedIsReadable, Feedback!AcceptedIsReadable
<1> QED
  BY <1>2, <1>3, <1>4 DEF SaysInv, OpenOnlyWhenBroken

\* The files never hold two statements on one result, whichever of its
\* submissions failed half-way and whatever was spoiled behind a torn line
\* (caller-result-feedback.mjs:944).
THEOREM OneStatementHolds == SaysBounds /\ Feedback!Spec => []OneStatement
<1>1. SaysBounds => SaysBounds'
  OBVIOUS
<1>2. SaysInv => OneStatement
  BY DEF SaysInv
<1> QED  BY <1>1, <1>2, SaysInitially, SaysStep, PTL DEF Feedback!Spec

\* As long as no write failed inside a line, an accepted statement can be read
\* until a rotation removes it (caller-result-feedback.mjs:639).
THEOREM AcceptedIsReadableHolds == SaysBounds /\ Feedback!Spec => []AcceptedIsReadable
<1>1. SaysBounds => SaysBounds'
  OBVIOUS
<1>2. SaysInv => AcceptedIsReadable
  BY DEF SaysInv
<1> QED  BY <1>1, <1>2, SaysInitially, SaysStep, PTL DEF Feedback!Spec

-----------------------------------------------------------------------------
(* The comparison workers and the requests in front of them.               *)

\* A request with an exchange comes to the HTTP route or to the profile, and
\* asks for one comparison.
ExchangesAreJobs ==
    /\ HttpJobs \subseteq Jobs /\ ProfileJobs \subseteq Jobs /\ HttpJobs \cap ProfileJobs = {}
    /\ MaxConcurrent \in Nat

OwnedIsBounded == IsFiniteSet(owned) /\ Cardinality(owned) <= MaxConcurrent

RunningIsOwned ==
    \A j \in Jobs : child[j] = "running" => j \in owned /\ settling[j] \in {"open", "reaping"}

UnstartedHasNoChild ==
    \A j \in Jobs : settling[j] \in {"new", "refused"} => child[j] = "none"

WorkerInv ==
    /\ Workers!Workers!TypeOK
    /\ OwnedIsBounded
    /\ RunningIsOwned
    /\ UnstartedHasNoChild

\* Nothing new starts and no client is forgotten: how a step may leave the
\* comparisons that it does not start.
NothingStarts ==
    \A j \in Jobs :
        /\ settling[j] = "new" => settling'[j] = "new"
        /\ child'[j] = "running" => child[j] = "running" /\ (settling[j] = "reaping" => settling'[j] = "reaping")

\* The workers count with the cardinality of the library.
LEMMA WorkerCardinality == \A S : Workers!Workers!Cardinality(S) = Cardinality(S)
  BY DEF Workers!Workers!Cardinality, Cardinality

LEMMA SlotCardinality == \A S : Workers!Cardinality(S) = Cardinality(S)
  BY DEF Workers!Cardinality, Cardinality

LEMMA OwnedShrinks ==
    ASSUME ExchangesAreJobs, OwnedIsBounded, owned' \subseteq owned
    PROVE  OwnedIsBounded'
<1>1. IsFiniteSet(owned') /\ Cardinality(owned') <= Cardinality(owned)
  BY FS_Subset DEF OwnedIsBounded
<1>2. Cardinality(owned) \in Nat /\ Cardinality(owned') \in Nat
  BY <1>1, FS_CardinalityType DEF OwnedIsBounded
<1> QED  BY <1>1, <1>2 DEF OwnedIsBounded, ExchangesAreJobs

\* An open comparison is stopped: its worker was told, or there was none left.
LEMMA ReapKeeps ==
    ASSUME ExchangesAreJobs, WorkerInv, NEW j \in Jobs, settling[j] = "open", Workers!Workers!Reap(j),
           \/ child' = child
           \/ child[j] = "unborn" /\ child' = [child EXCEPT ![j] = "closed"]
    PROVE  WorkerInv' /\ NothingStarts /\ settling'[j] # "open"
           /\ (child'[j] = "running" => settling'[j] = "reaping")
           /\ \A i \in Jobs \ {j} : settling'[i] = settling[i]
<1> USE DEF WorkerInv, Workers!Workers!TypeOK, Workers!Workers!Reap, Workers!Workers!Settle
<1>1. owned' \subseteq owned /\ Workers!Workers!TypeOK'
  OBVIOUS
<1>2. RunningIsOwned' /\ UnstartedHasNoChild'
  BY DEF RunningIsOwned, UnstartedHasNoChild
<1>3. NothingStarts /\ settling'[j] # "open"
      /\ (child'[j] = "running" => settling'[j] = "reaping")
      /\ \A i \in Jobs \ {j} : settling'[i] = settling[i]
  BY DEF NothingStarts
<1> QED  BY <1>1, <1>2, <1>3, OwnedShrinks

LEMMA StartKeeps ==
    ASSUME ExchangesAreJobs, WorkerInv, NEW j \in Jobs, Workers!Start(j)
    PROVE  WorkerInv' /\ \A i \in Jobs \ {j} : settling'[i] = settling[i] /\ child'[i] = child[i]
<1> USE DEF WorkerInv, Workers!Workers!TypeOK, Workers!Workers!Settle, Workers!Workers!Turns
<1>1. CASE Workers!Workers!Refuse(j)
  <2>1. Workers!Workers!TypeOK' /\ owned' \subseteq owned
    BY <1>1 DEF Workers!Workers!Refuse
  <2>2. RunningIsOwned' /\ UnstartedHasNoChild'
    BY <1>1 DEF Workers!Workers!Refuse, RunningIsOwned, UnstartedHasNoChild
  <2> QED  BY <1>1, <2>1, <2>2, OwnedShrinks DEF Workers!Workers!Refuse
<1>2. CASE Workers!Workers!Spawn(j)
  <2>1. Workers!Workers!TypeOK'
    BY <1>2 DEF Workers!Workers!Spawn
  <2>2. RunningIsOwned' /\ UnstartedHasNoChild'
    BY <1>2 DEF Workers!Workers!Spawn, RunningIsOwned, UnstartedHasNoChild
  <2>3. OwnedIsBounded'
    <3>1. IsFiniteSet(owned') /\ Cardinality(owned') \in {Cardinality(owned), Cardinality(owned) + 1}
      BY <1>2, FS_AddElement DEF Workers!Workers!Spawn, OwnedIsBounded
    <3>2. Cardinality(owned) \in Nat /\ Cardinality(owned) < MaxConcurrent
      BY <1>2, WorkerCardinality, FS_CardinalityType DEF Workers!Workers!Spawn, OwnedIsBounded
    <3> QED  BY <3>1, <3>2 DEF OwnedIsBounded, ExchangesAreJobs
  <2> QED  BY <1>2, <2>1, <2>2, <2>3 DEF Workers!Workers!Spawn
<1> QED  BY <1>1, <1>2 DEF Workers!Start

LEMMA WorkerStepKeeps ==
    ASSUME ExchangesAreJobs, WorkerInv, NEW j \in Jobs, Workers!WorkerStep(j)
    PROVE  WorkerInv' /\ NothingStarts
<1> USE DEF WorkerInv, Workers!Workers!TypeOK, Workers!Workers!Settle, Workers!Workers!Turns
<1>1. CASE Workers!Workers!Fail(j)
  BY <1>1, ReapKeeps DEF Workers!Workers!Fail
<1>2. CASE Workers!Workers!SpawnFails(j)
  <2>1. CASE settling[j] = "open"
    BY <1>2, <2>1, ReapKeeps DEF Workers!Workers!SpawnFails
  <2>2. CASE settling[j] # "open"
    <3>1. Workers!Workers!TypeOK' /\ owned' \subseteq owned
      BY <1>2, <2>2 DEF Workers!Workers!SpawnFails
    <3>2. RunningIsOwned' /\ UnstartedHasNoChild' /\ NothingStarts
      BY <1>2, <2>2 DEF Workers!Workers!SpawnFails, RunningIsOwned, UnstartedHasNoChild, NothingStarts
    <3> QED  BY <3>1, <3>2, OwnedShrinks
  <2> QED  BY <2>1, <2>2
<1>3. CASE Workers!Workers!EndOfGrace(j)
  <2>1. Workers!Workers!TypeOK' /\ owned' \subseteq owned
    BY <1>3 DEF Workers!Workers!EndOfGrace, Workers!Workers!Kills
  <2>2. RunningIsOwned' /\ UnstartedHasNoChild' /\ NothingStarts
    BY <1>3 DEF Workers!Workers!EndOfGrace, RunningIsOwned, UnstartedHasNoChild, NothingStarts
  <2> QED  BY <2>1, <2>2, OwnedShrinks
<1>4. CASE Workers!Workers!Die(j)
  <2>1. Workers!Workers!TypeOK' /\ owned' \subseteq owned
    BY <1>4 DEF Workers!Workers!Die
  <2>2. RunningIsOwned' /\ UnstartedHasNoChild' /\ NothingStarts
    BY <1>4 DEF Workers!Workers!Die, RunningIsOwned, UnstartedHasNoChild, NothingStarts
  <2> QED  BY <2>1, <2>2, OwnedShrinks
<1>5. CASE Workers!Workers!Exit(j)
  <2>1. Workers!Workers!TypeOK' /\ owned' \subseteq owned
    BY <1>5 DEF Workers!Workers!Exit, Workers!Workers!OnExit
  <2>2. RunningIsOwned' /\ UnstartedHasNoChild' /\ NothingStarts
    BY <1>5 DEF Workers!Workers!Exit, Workers!Workers!OnExit, RunningIsOwned, UnstartedHasNoChild, NothingStarts
  <2> QED  BY <2>1, <2>2, OwnedShrinks
<1>6. CASE Workers!Workers!Close(j)
  <2>1. Workers!Workers!TypeOK' /\ owned' \subseteq owned
    BY <1>6 DEF Workers!Workers!Close
  <2>2. RunningIsOwned' /\ UnstartedHasNoChild' /\ NothingStarts
    BY <1>6 DEF Workers!Workers!Close, RunningIsOwned, UnstartedHasNoChild, NothingStarts
  <2> QED  BY <2>1, <2>2, OwnedShrinks
<1> QED  BY <1>1, <1>2, <1>3, <1>4, <1>5, <1>6 DEF Workers!WorkerStep

\* Before its comparison a request has no worker.
NotYetCompared ==
    \A j \in Workers!Exchanges : exchange[j] \in {"new", "reading", "refused"} => settling[j] = "new"

AnsweredAfterWorker ==
    \A j \in HttpJobs : child[j] = "running" => exchange[j] = "comparing"

GoneIsReaped ==
    \A j \in gone : child[j] = "running" => settling[j] = "reaping"

SlotsAreCounted == IsFiniteSet(Workers!InProgress) /\ active = Cardinality(Workers!InProgress)

ExchangeInv ==
    /\ Workers!TypeOK
    /\ WorkerInv
    /\ NotYetCompared
    /\ AnsweredAfterWorker
    /\ GoneIsReaped
    /\ SlotsAreCounted

LEMMA SameSlots ==
    ASSUME ExchangeInv, UNCHANGED active, Workers!InProgress' = Workers!InProgress
    PROVE  SlotsAreCounted'
  BY DEF ExchangeInv, SlotsAreCounted

\* A step of a worker or of the kernel.
LEMMA QuietKeeps ==
    ASSUME ExchangesAreJobs, ExchangeInv, WorkerInv', NothingStarts, UNCHANGED <<exchange, active, gone>>
    PROVE  ExchangeInv'
<1>1. Workers!InProgress' = Workers!InProgress
  BY DEF Workers!InProgress
<1>2. Workers!TypeOK'
  BY DEF ExchangeInv, Workers!TypeOK, WorkerInv
<1>3. NotYetCompared' /\ AnsweredAfterWorker' /\ GoneIsReaped'
  BY DEF ExchangesAreJobs, ExchangeInv, NotYetCompared, AnsweredAfterWorker, GoneIsReaped, NothingStarts,
     Workers!Exchanges, Workers!TypeOK
<1> QED  BY <1>1, <1>2, <1>3, SameSlots DEF ExchangeInv

LEMMA CallToolKeeps ==
    ASSUME ExchangesAreJobs, ExchangeInv, NEW j \in Jobs, Workers!CallTool(j)
    PROVE  ExchangeInv'
<1>1. WorkerInv' /\ \A i \in Jobs \ {j} : settling'[i] = settling[i] /\ child'[i] = child[i]
  BY StartKeeps DEF ExchangeInv, Workers!CallTool
<1>2. j \notin Workers!Exchanges /\ UNCHANGED <<exchange, active, gone>>
  BY DEF Workers!CallTool, Workers!exchangeVars
<1>3. Workers!InProgress' = Workers!InProgress
  BY <1>2 DEF Workers!InProgress
<1>4. Workers!TypeOK'
  BY <1>1, <1>2 DEF ExchangeInv, Workers!TypeOK, WorkerInv
<1>5. NotYetCompared' /\ AnsweredAfterWorker' /\ GoneIsReaped'
  BY <1>1, <1>2 DEF ExchangesAreJobs, ExchangeInv, NotYetCompared, AnsweredAfterWorker, GoneIsReaped,
     Workers!Exchanges, Workers!TypeOK
<1> QED  BY <1>1, <1>2, <1>3, <1>4, <1>5, SameSlots DEF ExchangeInv

LEMMA BeginKeeps ==
    ASSUME ExchangesAreJobs, ExchangeInv, NEW j \in Workers!Exchanges, Workers!Begin(j)
    PROVE  ExchangeInv'
<1>1. UNCHANGED <<owned, settling, child, signalled, gone>> /\ exchange[j] = "new"
  BY DEF Workers!Begin, Workers!workerVars
<1>2. WorkerInv'
  BY <1>1 DEF ExchangeInv, WorkerInv, Workers!Workers!TypeOK, OwnedIsBounded, RunningIsOwned, UnstartedHasNoChild
<1>3. NotYetCompared' /\ AnsweredAfterWorker' /\ GoneIsReaped'
  BY <1>1 DEF ExchangesAreJobs, ExchangeInv, NotYetCompared, AnsweredAfterWorker, GoneIsReaped,
     Workers!Exchanges, Workers!TypeOK, Workers!Begin, Workers!Goes
<1>4. CASE active < MaxConcurrent /\ active' = active + 1 /\ Workers!Goes(j, "reading")
  <2>1. Workers!InProgress' = Workers!InProgress \cup {j} /\ j \notin Workers!InProgress
    BY <1>1, <1>4 DEF ExchangeInv, Workers!TypeOK, Workers!InProgress, Workers!Goes
  <2>2. SlotsAreCounted'
    BY <1>4, <2>1, FS_AddElement DEF ExchangeInv, SlotsAreCounted
  <2>3. Workers!TypeOK'
    BY <1>1, <1>2, <1>4 DEF ExchangeInv, Workers!TypeOK, WorkerInv, Workers!Goes, ExchangesAreJobs
  <2> QED  BY <1>2, <1>3, <2>2, <2>3 DEF ExchangeInv
<1>5. CASE Workers!Goes(j, "refused") /\ UNCHANGED active
  <2>1. Workers!InProgress' = Workers!InProgress
    BY <1>1, <1>5 DEF ExchangeInv, Workers!TypeOK, Workers!InProgress, Workers!Goes
  <2>2. Workers!TypeOK'
    BY <1>1, <1>2, <1>5 DEF ExchangeInv, Workers!TypeOK, WorkerInv, Workers!Goes
  <2> QED  BY <1>2, <1>3, <1>5, <2>1, <2>2, SameSlots DEF ExchangeInv
<1> QED  BY <1>4, <1>5 DEF Workers!Begin

\* An exchange is over, and no process of an HTTP request is left.
LEMMA ReleaseKeeps ==
    ASSUME ExchangesAreJobs, ExchangeInv, NEW j \in Workers!InProgress, Workers!Release(j),
           UNCHANGED <<owned, settling, child, signalled>>,
           j \in HttpJobs => child[j] # "running"
    PROVE  ExchangeInv'
<1>1. WorkerInv'
  BY DEF ExchangeInv, WorkerInv, Workers!Workers!TypeOK, OwnedIsBounded, RunningIsOwned, UnstartedHasNoChild
<1>2. j \in Workers!Exchanges
  BY DEF Workers!InProgress
<1>3. NotYetCompared' /\ AnsweredAfterWorker' /\ GoneIsReaped'
  BY <1>2 DEF ExchangesAreJobs, ExchangeInv, NotYetCompared, AnsweredAfterWorker, GoneIsReaped,
     Workers!Exchanges, Workers!TypeOK, Workers!Release, Workers!Goes
<1>4. Workers!InProgress' = Workers!InProgress \ {j}
  BY <1>2 DEF ExchangeInv, Workers!TypeOK, Workers!InProgress, Workers!Release, Workers!Goes
<1>5. SlotsAreCounted' /\ active' \in Nat
  <2>1. IsFiniteSet(Workers!InProgress') /\ Cardinality(Workers!InProgress') = Cardinality(Workers!InProgress) - 1
    BY <1>4, FS_RemoveElement DEF ExchangeInv, SlotsAreCounted
  <2>2. Cardinality(Workers!InProgress') \in Nat
    BY <2>1, FS_CardinalityType
  <2> QED  BY <2>1, <2>2 DEF ExchangeInv, SlotsAreCounted, Workers!Release
<1>6. active' \in 0..MaxConcurrent
  BY <1>5 DEF ExchangeInv, Workers!TypeOK, Workers!Release, ExchangesAreJobs
<1>7. Workers!TypeOK'
  BY <1>1, <1>2, <1>6 DEF ExchangeInv, WorkerInv, Workers!TypeOK, Workers!Release, Workers!Goes
<1> QED  BY <1>1, <1>3, <1>5, <1>7 DEF ExchangeInv

LEMMA CompareKeeps ==
    ASSUME ExchangesAreJobs, ExchangeInv, NEW j \in Workers!Exchanges, Workers!Compare(j)
    PROVE  ExchangeInv'
<1>1. j \in Jobs
  BY DEF ExchangesAreJobs, Workers!Exchanges
<1>2. WorkerInv' /\ \A i \in Jobs \ {j} : settling'[i] = settling[i] /\ child'[i] = child[i]
  BY <1>1, StartKeeps DEF ExchangeInv, Workers!Compare
<1>3. UNCHANGED <<active, gone>> /\ j \notin gone /\ exchange[j] = "reading"
      /\ exchange' = [exchange EXCEPT ![j] = "comparing"]
  BY DEF Workers!Compare, Workers!Goes
<1>4. NotYetCompared' /\ AnsweredAfterWorker' /\ GoneIsReaped'
  BY <1>2, <1>3 DEF ExchangesAreJobs, ExchangeInv, NotYetCompared, AnsweredAfterWorker, GoneIsReaped,
     Workers!Exchanges, Workers!TypeOK
<1>5. Workers!InProgress' = Workers!InProgress
  BY <1>3 DEF ExchangeInv, Workers!TypeOK, Workers!InProgress
<1>6. Workers!TypeOK'
  BY <1>2, <1>3 DEF ExchangeInv, Workers!TypeOK, WorkerInv
<1> QED  BY <1>2, <1>3, <1>4, <1>5, <1>6, SameSlots DEF ExchangeInv

LEMMA ClientGoneKeeps ==
    ASSUME ExchangesAreJobs, ExchangeInv, NEW j \in Workers!Exchanges, Workers!ClientGone(j)
    PROVE  ExchangeInv'
<1>1. j \in Jobs /\ UNCHANGED <<child, exchange, active>> /\ gone' = gone \cup {j}
  BY DEF ExchangesAreJobs, Workers!Exchanges, Workers!ClientGone
<1>2. WorkerInv' /\ NothingStarts /\ (child'[j] = "running" => settling'[j] = "reaping")
  <2>1. CASE settling[j] = "open"
    BY <1>1, <2>1, ReapKeeps DEF ExchangeInv, Workers!ClientGone
  <2>2. CASE settling[j] # "open"
    <3>1. UNCHANGED <<owned, settling, child, signalled>>
      BY <1>1, <2>2 DEF Workers!ClientGone
    <3>2. child[j] = "running" => settling[j] = "reaping"
      BY <1>1, <2>2 DEF ExchangeInv, WorkerInv, RunningIsOwned
    <3> QED
      BY <3>1, <3>2 DEF ExchangeInv, WorkerInv, Workers!Workers!TypeOK, OwnedIsBounded, RunningIsOwned,
         UnstartedHasNoChild, NothingStarts
  <2> QED  BY <2>1, <2>2
<1>3. NotYetCompared' /\ AnsweredAfterWorker' /\ GoneIsReaped'
  BY <1>1, <1>2 DEF ExchangesAreJobs, ExchangeInv, NotYetCompared, AnsweredAfterWorker, GoneIsReaped,
     Workers!Exchanges, Workers!TypeOK, NothingStarts
<1>4. Workers!InProgress' = Workers!InProgress
  BY <1>1 DEF Workers!InProgress
<1>5. Workers!TypeOK'
  BY <1>1, <1>2 DEF ExchangeInv, Workers!TypeOK, WorkerInv
<1> QED  BY <1>1, <1>2, <1>3, <1>4, <1>5, SameSlots DEF ExchangeInv

LEMMA ExchangeStep ==
    ExchangesAreJobs /\ ExchangeInv /\ [Workers!Next]_<<Workers!workerVars, Workers!exchangeVars>> => ExchangeInv'
<1> SUFFICES ASSUME ExchangesAreJobs, ExchangeInv, [Workers!Next]_<<Workers!workerVars, Workers!exchangeVars>>
             PROVE  ExchangeInv'
  OBVIOUS
<1>1. ASSUME NEW j \in Jobs, Workers!WorkerStep(j) PROVE ExchangeInv'
  BY <1>1, WorkerStepKeeps, QuietKeeps DEF ExchangeInv, Workers!WorkerStep, Workers!exchangeVars
<1>2. ASSUME NEW j \in Jobs, Workers!CallTool(j) PROVE ExchangeInv'
  BY <1>2, CallToolKeeps
<1>3. ASSUME NEW j \in Workers!Exchanges, Workers!Begin(j) PROVE ExchangeInv'
  BY <1>3, BeginKeeps
<1>4. ASSUME NEW j \in Workers!Exchanges, Workers!ReadFails(j) PROVE ExchangeInv'
  <2>1. j \in Workers!InProgress /\ UNCHANGED <<owned, settling, child, signalled>>
    BY <1>4 DEF Workers!ReadFails, Workers!InProgress, Workers!workerVars
  <2>2. j \in HttpJobs => child[j] # "running"
    BY <1>4 DEF ExchangeInv, AnsweredAfterWorker, Workers!ReadFails
  <2> QED  BY <1>4, <2>1, <2>2, ReleaseKeeps DEF Workers!ReadFails
<1>5. ASSUME NEW j \in Workers!Exchanges, Workers!Compare(j) PROVE ExchangeInv'
  BY <1>5, CompareKeeps
<1>6. ASSUME NEW j \in Workers!Exchanges, Workers!ClientGone(j) PROVE ExchangeInv'
  BY <1>6, ClientGoneKeeps
<1>7. ASSUME NEW j \in Workers!Exchanges, Workers!Answer(j) PROVE ExchangeInv'
  <2>1. j \in Workers!InProgress /\ UNCHANGED <<owned, settling, child, signalled>>
    BY <1>7 DEF Workers!Answer, Workers!InProgress, Workers!workerVars
  <2>2. j \in HttpJobs => child[j] # "running"
    BY <1>7 DEF ExchangesAreJobs, ExchangeInv, WorkerInv, RunningIsOwned, Workers!Answer
  <2> QED  BY <1>7, <2>1, <2>2, ReleaseKeeps DEF Workers!Answer
<1>8. ASSUME NEW j \in Workers!Exchanges, Workers!TransportReturns(j) PROVE ExchangeInv'
  <2>1. j \in Workers!InProgress /\ UNCHANGED <<owned, settling, child, signalled>>
    BY <1>8 DEF Workers!TransportReturns, Workers!InProgress, Workers!workerVars
  <2>2. j \notin HttpJobs
    BY <1>8 DEF ExchangesAreJobs, Workers!TransportReturns
  <2> QED  BY <1>8, <2>1, <2>2, ReleaseKeeps DEF Workers!TransportReturns
<1>9. CASE UNCHANGED <<Workers!workerVars, Workers!exchangeVars>>
  <2>1. UNCHANGED <<owned, settling, child, signalled, exchange, active, gone>>
    BY <1>9 DEF Workers!workerVars, Workers!exchangeVars
  <2>2. WorkerInv' /\ NothingStarts
    BY <2>1 DEF ExchangeInv, WorkerInv, Workers!Workers!TypeOK, OwnedIsBounded, RunningIsOwned,
       UnstartedHasNoChild, NothingStarts
  <2> QED  BY <2>1, <2>2, QuietKeeps
<1> QED
  BY <1>1, <1>2, <1>3, <1>4, <1>5, <1>6, <1>7, <1>8, <1>9 DEF Workers!Next

LEMMA ExchangeInitially == ExchangesAreJobs /\ Workers!Init => ExchangeInv
<1> SUFFICES ASSUME ExchangesAreJobs, Workers!Init PROVE ExchangeInv
  OBVIOUS
<1> USE DEF Workers!Init, Workers!Workers!Init
<1>1. Workers!InProgress = {} /\ owned = {}
  BY DEF Workers!InProgress
<1>2. IsFiniteSet({}) /\ Cardinality({}) = 0
  BY FS_EmptySet
<1>3. Workers!TypeOK /\ Workers!Workers!TypeOK
  BY DEF Workers!TypeOK, Workers!Workers!TypeOK, ExchangesAreJobs
<1>4. RunningIsOwned /\ UnstartedHasNoChild /\ NotYetCompared /\ AnsweredAfterWorker /\ GoneIsReaped
  BY DEF RunningIsOwned, UnstartedHasNoChild, NotYetCompared, AnsweredAfterWorker, GoneIsReaped,
     ExchangesAreJobs, Workers!Exchanges
<1>5. OwnedIsBounded /\ SlotsAreCounted
  BY <1>1, <1>2 DEF OwnedIsBounded, SlotsAreCounted, ExchangesAreJobs
<1> QED  BY <1>3, <1>4, <1>5 DEF ExchangeInv, WorkerInv

\* No more worker processes run than the capacity allows, none behind an
\* answered comparison, none on its own for a client that is gone, and the slots
\* are given back once (page-change-http.mjs:503, 529, 725).
THEOREM NoStrayWorkerHolds == ExchangesAreJobs /\ Workers!Spec => []NoStrayWorker
<1>1. ExchangesAreJobs => ExchangesAreJobs'
  OBVIOUS
<1>2. ExchangesAreJobs /\ ExchangeInv => NoStrayWorker
  <2> SUFFICES ASSUME ExchangesAreJobs, ExchangeInv PROVE NoStrayWorker
    OBVIOUS
  <2> DEFINE alive == {j \in Jobs : child[j] = "running"}
  <2>1. alive \subseteq owned
    BY DEF ExchangeInv, WorkerInv, RunningIsOwned
  <2>2. Cardinality(alive) <= Cardinality(owned) /\ IsFiniteSet(alive)
    BY <2>1, FS_Subset DEF ExchangeInv, WorkerInv, OwnedIsBounded
  <2>3. Cardinality(alive) \in Nat /\ Cardinality(owned) \in Nat /\ Cardinality(owned) <= MaxConcurrent
    BY <2>2, FS_CardinalityType DEF ExchangeInv, WorkerInv, OwnedIsBounded
  <2>4. Workers!Workers!Cardinality(alive) <= MaxConcurrent
    BY <2>2, <2>3, WorkerCardinality DEF ExchangesAreJobs
  <2>5. \A j \in alive : settling[j] \in {"open", "reaping"}
    BY DEF ExchangeInv, WorkerInv, RunningIsOwned
  <2>6. Workers!Workers!NoStrayWorker
    BY <2>4, <2>5 DEF Workers!Workers!NoStrayWorker
  <2>7. active = Workers!Cardinality(Workers!InProgress)
    BY SlotCardinality DEF ExchangeInv, SlotsAreCounted
  <2>8. \A j \in Workers!Exchanges : child[j] = "running" =>
            /\ j \in HttpJobs => exchange[j] = "comparing"
            /\ j \in gone => settling[j] = "reaping"
    BY DEF ExchangeInv, AnsweredAfterWorker, GoneIsReaped
  <2> QED  BY <2>6, <2>7, <2>8 DEF NoStrayWorker, Workers!NoStrayWorker
<1> QED  BY <1>1, <1>2, ExchangeInitially, ExchangeStep, PTL DEF Workers!Spec

-----------------------------------------------------------------------------
(* The admission gate and the callers of flush.                            *)

\* A work is a write of the telemetry queue or an observation.
WritesAreNotNotes == Writes \cap Notes = {}

\* The write in the gate is the one the queue is at.
GateHasHeadOfQueue ==
    \A i \in 1..Len(gate) : gate[i] \in Writes => queue # <<>> /\ Head(queue) = gate[i]

AdmittedOnce ==
    \A i, j \in 1..Len(gate) : gate[i] = gate[j] => i = j

\* No observation is on its way once the tail was deleted.
ForgottenWhenEnded == tail = 0 => Admission!ToSet(notes) \subseteq ended

\* What a caller asked for is an observation, has ended, or is a write it still
\* waits for.
AskedIsAccounted ==
    \A f \in Admission!Waiters :
        asked[f] \ Admission!ToSet(notes) \subseteq ended \cup (IF waiter[f] = "queue" THEN awaits[f] ELSE {})

GateInv ==
    /\ Admission!TypeOK
    /\ GateHasHeadOfQueue
    /\ AdmittedOnce

FlushInv ==
    /\ GateInv
    /\ ForgottenWhenEnded
    /\ AskedIsAccounted
    /\ FlushIsComplete

LEMMA ToSetOfAppend ==
    ASSUME NEW S, NEW s \in Seq(S), NEW e \in S
    PROVE  /\ Append(s, e) \in Seq(S) /\ Len(Append(s, e)) = Len(s) + 1
           /\ Append(s, e)[Len(s) + 1] = e /\ \A i \in 1..Len(s) : Append(s, e)[i] = s[i]
           /\ Admission!ToSet(Append(s, e)) = Admission!ToSet(s) \cup {e}
<1>1. /\ Append(s, e) \in Seq(S) /\ Len(Append(s, e)) = Len(s) + 1
      /\ Append(s, e)[Len(s) + 1] = e /\ \A i \in 1..Len(s) : Append(s, e)[i] = s[i]
  OBVIOUS
<1>2. DOMAIN s = 1..Len(s) /\ DOMAIN Append(s, e) = 1..Len(s) + 1 /\ Len(s) \in Nat
  BY <1>1
<1>3. /\ Admission!ToSet(s) = {s[i] : i \in 1..Len(s)}
      /\ Admission!ToSet(Append(s, e)) = {Append(s, e)[i] : i \in 1..Len(s) + 1}
  BY <1>2 DEF Admission!ToSet
<1> QED  BY <1>1, <1>2, <1>3

LEMMA ToSetOfSequence ==
    ASSUME NEW S, NEW s \in Seq(S)
    PROVE  Admission!ToSet(s) = {s[i] : i \in 1..Len(s)} /\ Admission!ToSet(s) \subseteq S
  BY DEF Admission!ToSet

LEMMA ToSetOfPrefix ==
    ASSUME NEW S, NEW s \in Seq(S), NEW n \in 0..Len(s)
    PROVE  Admission!ToSet(SubSeq(s, 1, n)) \subseteq Admission!ToSet(s)
<1>1. SubSeq(s, 1, n) \in Seq(S) /\ Len(SubSeq(s, 1, n)) = n /\ \A i \in 1..n : SubSeq(s, 1, n)[i] = s[i]
  OBVIOUS
<1>2. /\ Admission!ToSet(SubSeq(s, 1, n)) = {SubSeq(s, 1, n)[i] : i \in 1..n}
      /\ Admission!ToSet(s) = {s[i] : i \in 1..Len(s)}
  BY <1>1, ToSetOfSequence
<1>3. 1..n \subseteq 1..Len(s)
  OBVIOUS
<1> QED  BY <1>1, <1>2, <1>3

LEMMA GateSequences ==
    ASSUME GateInv
    PROVE  queue \in Seq(Writes) /\ gate \in Seq(Admission!Works) /\ notes \in Seq(Notes)
  BY DEF GateInv, Admission!TypeOK

\* A step that leaves gate and queue alone.
LEMMA SameGate ==
    ASSUME GateInv, Admission!TypeOK', UNCHANGED <<queue, gate>>
    PROVE  GateInv'
  BY DEF GateInv, GateHasHeadOfQueue, AdmittedOnce

LEMMA EnqueueKeepsGate ==
    ASSUME GateInv, NEW w \in Writes, Admission!Enqueue(w)
    PROVE  GateInv'
<1>1. queue \in Seq(Writes) /\ queue' = Append(queue, w) /\ UNCHANGED <<gate, nested, notes, tail, ended, waiter, awaits, asked, pending>>
  BY DEF GateInv, Admission!TypeOK, Admission!Enqueue, Admission!waitVars
<1>2. queue' \in Seq(Writes) /\ queue' # <<>> /\ (queue # <<>> => Head(queue') = Head(queue))
  BY <1>1
<1>3. Admission!TypeOK'
  BY <1>1, <1>2 DEF GateInv, Admission!TypeOK
<1> QED  BY <1>1, <1>2, <1>3 DEF GateInv, GateHasHeadOfQueue, AdmittedOnce

LEMMA ObserveKeepsGate ==
    ASSUME GateInv, NEW o \in Notes, Admission!Observe(o)
    PROVE  GateInv' /\ tail' # 0 /\ Admission!ToSet(notes) \subseteq Admission!ToSet(notes')
<1>1. notes \in Seq(Notes) /\ notes' = Append(notes, o) /\ tail' = Len(notes') /\ UNCHANGED <<queue, gate, nested, ended, waiter, awaits, asked, pending>>
  BY DEF GateInv, Admission!TypeOK, Admission!Observe, Admission!waitVars
<1>2. notes' \in Seq(Notes) /\ Len(notes') = Len(notes) + 1 /\ Len(notes) \in Nat /\ tail' # 0 /\ tail' \in 0..Len(notes')
  BY <1>1
<1>3. Admission!TypeOK'
  BY <1>1, <1>2 DEF GateInv, Admission!TypeOK
<1>4. Admission!ToSet(notes) \subseteq Admission!ToSet(notes')
  BY <1>1, ToSetOfAppend
<1> QED  BY <1>1, <1>2, <1>3, <1>4, SameGate

LEMMA AdmitKeepsGate ==
    ASSUME WritesAreNotNotes, GateInv, NEW w \in Admission!Works, Admission!Admit(w)
    PROVE  GateInv'
<1>1. gate \in Seq(Admission!Works) /\ gate' = Append(gate, w) /\ UNCHANGED <<queue, nested, notes, tail, ended, waiter, awaits, asked, pending>>
  BY DEF GateInv, Admission!TypeOK, Admission!Admit, Admission!waitVars
<1>2. /\ gate' \in Seq(Admission!Works) /\ Len(gate') = Len(gate) + 1 /\ Len(gate) \in Nat
      /\ gate'[Len(gate) + 1] = w /\ \A i \in 1..Len(gate) : gate'[i] = gate[i]
  BY <1>1
<1>3. w \in Writes => queue # <<>> /\ Head(queue) = w
  <2>1. Admission!ToSet(notes) \subseteq Notes
    BY ToSetOfSequence DEF GateInv, Admission!TypeOK
  <2> QED  BY <2>1 DEF WritesAreNotNotes, Admission!Admit
<1>4. \A i \in 1..Len(gate) : gate[i] # w
  <2>1. Admission!ToSet(gate) = {gate[i] : i \in 1..Len(gate)} /\ w \notin Admission!ToSet(gate)
    BY <1>1, ToSetOfSequence DEF Admission!Admit
  <2> QED  BY <2>1
<1>5. GateHasHeadOfQueue'
  BY <1>1, <1>2, <1>3 DEF GateInv, GateHasHeadOfQueue
<1>6. AdmittedOnce'
  BY <1>2, <1>4 DEF GateInv, AdmittedOnce
<1>7. Admission!TypeOK'
  BY <1>1, <1>2 DEF GateInv, Admission!TypeOK
<1> QED  BY <1>5, <1>6, <1>7 DEF GateInv

LEMMA EndKeepsGate ==
    ASSUME WritesAreNotNotes, GateInv, NEW w \in Admission!Works, Admission!End(w)
    PROVE  GateInv'
<1>1. /\ gate \in Seq(Admission!Works) /\ gate # <<>> /\ gate[1] = w /\ gate' = Tail(gate)
      /\ queue \in Seq(Writes) /\ queue' = IF w \in Writes THEN Tail(queue) ELSE queue
      /\ ended' = ended \cup {w} /\ UNCHANGED <<nested, notes, tail, waiter, awaits, asked, pending>>
  BY GateSequences DEF Admission!End, Admission!waitVars
<1>2. /\ gate' \in Seq(Admission!Works) /\ Len(gate) \in Nat /\ Len(gate) > 0 /\ Len(gate') = Len(gate) - 1
      /\ \A i \in 1..Len(gate') : gate'[i] = gate[i + 1] /\ i + 1 \in 1..Len(gate) /\ i + 1 # 1
  BY <1>1
<1>3. \A i \in 1..Len(gate') : gate'[i] # w
  BY <1>1, <1>2 DEF GateInv, AdmittedOnce
<1>4. w \in Writes => queue # <<>> /\ Head(queue) = w
  BY <1>1, <1>2 DEF GateInv, GateHasHeadOfQueue
<1>5. queue' \in Seq(Writes)
  BY <1>1, <1>4
<1>6. GateHasHeadOfQueue'
  <2> SUFFICES ASSUME NEW i \in 1..Len(gate'), gate'[i] \in Writes PROVE queue' # <<>> /\ Head(queue') = gate'[i]
    BY DEF GateHasHeadOfQueue
  <2>1. queue # <<>> /\ Head(queue) = gate'[i]
    BY <1>2 DEF GateInv, GateHasHeadOfQueue
  <2>2. w \notin Writes
    BY <1>3, <1>4, <2>1
  <2> QED  BY <1>1, <2>1, <2>2
<1>7. AdmittedOnce'
  <2> SUFFICES ASSUME NEW i \in 1..Len(gate'), NEW j \in 1..Len(gate'), gate'[i] = gate'[j] PROVE i = j
    BY DEF AdmittedOnce
  <2>1. i + 1 = j + 1
    BY <1>2 DEF GateInv, AdmittedOnce
  <2> QED  BY <1>2, <2>1
<1>8. Admission!TypeOK'
  BY <1>1, <1>2, <1>5 DEF GateInv, Admission!TypeOK
<1> QED  BY <1>6, <1>7, <1>8 DEF GateInv

\* The works go on: the queue moves, notes are added, works end.
LEMMA WorksGoOn ==
    ASSUME FlushInv, GateInv', ForgottenWhenEnded', UNCHANGED <<waiter, awaits, asked, pending>>,
           Admission!ToSet(notes) \subseteq Admission!ToSet(notes'), ended \subseteq ended'
    PROVE  FlushInv'
<1>1. AskedIsAccounted'
  BY DEF FlushInv, AskedIsAccounted
<1>2. FlushIsComplete'
  BY DEF FlushInv, FlushIsComplete, Admission!FlushIsComplete
<1> QED  BY <1>1, <1>2 DEF FlushInv

\* The waiters move, the works stay.
LEMMA WaitersMove ==
    ASSUME FlushInv, Admission!TypeOK', UNCHANGED <<queue, gate, nested, notes, tail, ended>>,
           AskedIsAccounted', FlushIsComplete'
    PROVE  FlushInv'
  BY SameGate DEF FlushInv, ForgottenWhenEnded

LEMMA ServeKeeps ==
    ASSUME WritesAreNotNotes, FlushInv, NEW w \in Admission!Works, Admission!Serve(w)
    PROVE  FlushInv'
<1>1. CASE Admission!Admit(w)
  <2>1. GateInv' /\ UNCHANGED <<notes, tail, ended, waiter, awaits, asked, pending>>
    BY <1>1, AdmitKeepsGate DEF FlushInv, Admission!Admit, Admission!waitVars
  <2> QED  BY <2>1, WorksGoOn DEF FlushInv, ForgottenWhenEnded
<1>2. CASE Admission!Nest(w)
  <2>1. UNCHANGED <<queue, gate, notes, tail, ended, waiter, awaits, asked, pending>> /\ nested' \subseteq Writes
    BY <1>2 DEF FlushInv, GateInv, Admission!TypeOK, Admission!Nest, Admission!Reenters, Admission!waitVars
  <2>2. Admission!TypeOK'
    BY <2>1 DEF FlushInv, GateInv, Admission!TypeOK
  <2> QED  BY <2>1, <2>2, SameGate, WorksGoOn DEF FlushInv, ForgottenWhenEnded
<1>3. CASE Admission!End(w)
  <2>1. GateInv' /\ UNCHANGED <<notes, tail, waiter, awaits, asked, pending>> /\ ended \subseteq ended'
    BY <1>3, EndKeepsGate DEF FlushInv, Admission!End, Admission!waitVars
  <2> QED  BY <2>1, WorksGoOn DEF FlushInv, ForgottenWhenEnded
<1> QED  BY <1>1, <1>2, <1>3 DEF Admission!Serve

LEMMA CallKeeps ==
    ASSUME WritesAreNotNotes, FlushInv, NEW f \in Admission!Waiters, Admission!Call(f)
    PROVE  FlushInv'
<1>1. UNCHANGED <<queue, gate, nested, notes, tail, ended, pending>>
  BY DEF Admission!Call, Admission!workVars
<1>2. /\ Admission!ToSet(queue) \subseteq Writes /\ Admission!ToSet(notes) \subseteq Notes
      /\ Admission!Unended = (Admission!ToSet(queue) \cup Admission!ToSet(notes)) \ ended
  BY GateSequences, ToSetOfSequence DEF FlushInv, Admission!Unended
<1>3. PICK stage \in {"queue", "loop"}, for \in SUBSET Writes, those \in SUBSET Admission!Works :
         /\ waiter' = [waiter EXCEPT ![f] = stage] /\ awaits' = [awaits EXCEPT ![f] = for]
         /\ asked' = [asked EXCEPT ![f] = those]
         /\ those \ Admission!ToSet(notes) \subseteq IF stage = "queue" THEN for ELSE {}
  <2> DEFINE those == Admission!Unended \cap (IF f \in Flushes THEN Admission!Works ELSE Notes)
  <2>0. those \subseteq Admission!Works /\ asked' = [asked EXCEPT ![f] = those]
    BY DEF Admission!Call, Admission!Works
  <2>1. CASE f \in Flushes
    <3>1. waiter' = [waiter EXCEPT ![f] = "queue"] /\ awaits' = [awaits EXCEPT ![f] = Admission!ToSet(queue)]
      BY <2>1 DEF Admission!Call, Admission!Moves
    <3>2. those \ Admission!ToSet(notes) \subseteq Admission!ToSet(queue)
      BY <1>2
    <3> QED  BY <1>2, <2>0, <3>1, <3>2
  <2>2. CASE f \notin Flushes
    <3>1. waiter' = [waiter EXCEPT ![f] = "loop"] /\ awaits' = [awaits EXCEPT ![f] = {}]
      BY <2>2 DEF Admission!Call, Admission!Moves
    <3>2. those \ Admission!ToSet(notes) = {}
      BY <1>2, <2>2 DEF WritesAreNotNotes
    <3> QED  BY <2>0, <3>1, <3>2
  <2> QED  BY <2>1, <2>2
<1>4. Writes \subseteq Admission!Works
  BY DEF Admission!Works
<1>5. Admission!TypeOK'
  BY <1>1, <1>3, <1>4 DEF FlushInv, GateInv, Admission!TypeOK
<1>6. AskedIsAccounted'
  BY <1>1, <1>3 DEF FlushInv, GateInv, Admission!TypeOK, AskedIsAccounted
<1>7. FlushIsComplete'
  BY <1>1, <1>3 DEF FlushInv, GateInv, Admission!TypeOK, FlushIsComplete, Admission!FlushIsComplete
<1> QED  BY <1>1, <1>5, <1>6, <1>7, WaitersMove

\* What was waited for is over, or a tail is waited for.
LEMMA WaitKeeps ==
    ASSUME FlushInv, NEW f \in Admission!Waiters, Admission!Wait(f) \/ Admission!GiveUp(f)
    PROVE  FlushInv'
<1>1. UNCHANGED <<queue, gate, nested, notes, tail, ended, asked>>
  BY DEF Admission!Wait, Admission!Resume, Admission!Loop, Admission!GiveUp, Admission!workVars
<1>2. Admission!ToSet(notes) \subseteq Notes
  BY GateSequences, ToSetOfSequence DEF FlushInv
<1>3. CASE Admission!Resume(f)
  <2>1. /\ waiter' = [waiter EXCEPT ![f] = "loop"] /\ awaits' = [awaits EXCEPT ![f] = {}] /\ UNCHANGED pending
        /\ awaits[f] \subseteq ended
    BY <1>3 DEF Admission!Resume, Admission!Moves, Admission!Again
  <2>2. Admission!TypeOK'
    BY <1>1, <2>1 DEF FlushInv, GateInv, Admission!TypeOK
  <2>3. AskedIsAccounted'
    BY <1>1, <2>1 DEF FlushInv, GateInv, Admission!TypeOK, AskedIsAccounted
  <2>4. FlushIsComplete'
    BY <1>1, <2>1 DEF FlushInv, GateInv, Admission!TypeOK, FlushIsComplete, Admission!FlushIsComplete
  <2> QED  BY <1>1, <2>2, <2>3, <2>4, WaitersMove
<1>4. CASE Admission!Loop(f) /\ tail # 0
  <2> DEFINE for == Admission!ToSet(SubSeq(notes, 1, tail))
  <2>1. /\ waiter' = [waiter EXCEPT ![f] = "tail"] /\ awaits' = [awaits EXCEPT ![f] = for] /\ UNCHANGED pending
        /\ waiter[f] = "loop"
    BY <1>4 DEF Admission!Loop, Admission!Moves
  <2>2. for \subseteq Admission!Works
    <3>1. tail \in 0..Len(notes)
      BY DEF FlushInv, GateInv, Admission!TypeOK
    <3> QED  BY <1>2, <3>1, GateSequences, ToSetOfPrefix DEF FlushInv, Admission!Works
  <2> HIDE DEF for
  <2>3. Admission!TypeOK'
    BY <1>1, <2>1, <2>2 DEF FlushInv, GateInv, Admission!TypeOK
  <2>4. AskedIsAccounted'
    BY <1>1, <2>1 DEF FlushInv, GateInv, Admission!TypeOK, AskedIsAccounted
  <2>5. FlushIsComplete'
    BY <1>1, <2>1 DEF FlushInv, GateInv, Admission!TypeOK, FlushIsComplete, Admission!FlushIsComplete
  <2> QED  BY <1>1, <2>3, <2>4, <2>5, WaitersMove
<1>5. CASE \/ Admission!Loop(f) /\ tail = 0
           \/ Admission!GiveUp(f)
  <2>1. PICK how \in {"drained", "gave up"} :
           /\ waiter' = [waiter EXCEPT ![f] = how] /\ awaits' = [awaits EXCEPT ![f] = {}]
           /\ pending' = [pending EXCEPT ![f] = Admission!ToSet(notes) \ ended]
           /\ waiter[f] \in {"loop", "tail"} /\ (how = "drained" => tail = 0)
    BY <1>5 DEF Admission!Loop, Admission!GiveUp, Admission!Return, Admission!Moves
  <2>2. Admission!TypeOK'
    BY <1>1, <1>2, <2>1 DEF FlushInv, GateInv, Admission!TypeOK
  <2>3. AskedIsAccounted'
    BY <1>1, <2>1 DEF FlushInv, GateInv, Admission!TypeOK, AskedIsAccounted
  <2>4. how = "drained" => asked[f] \subseteq ended /\ Admission!ToSet(notes) \ ended = {}
    BY <2>1 DEF FlushInv, ForgottenWhenEnded, AskedIsAccounted
  <2>5. FlushIsComplete'
    BY <1>1, <2>1, <2>4 DEF FlushInv, GateInv, Admission!TypeOK, FlushIsComplete, Admission!FlushIsComplete
  <2> QED  BY <1>1, <2>2, <2>3, <2>5, WaitersMove
<1> QED  BY <1>3, <1>4, <1>5 DEF Admission!Wait

LEMMA FlushStep == WritesAreNotNotes /\ FlushInv /\ [Admission!Next]_Admission!gateVars => FlushInv'
<1> SUFFICES ASSUME WritesAreNotNotes, FlushInv, [Admission!Next]_Admission!gateVars PROVE FlushInv'
  OBVIOUS
<1>1. ASSUME NEW w \in Writes, Admission!Enqueue(w) PROVE FlushInv'
  <2>1. GateInv' /\ UNCHANGED <<notes, tail, ended, waiter, awaits, asked, pending>>
    BY <1>1, EnqueueKeepsGate DEF FlushInv, Admission!Enqueue, Admission!waitVars
  <2> QED  BY <2>1, WorksGoOn DEF FlushInv, ForgottenWhenEnded
<1>2. ASSUME NEW o \in Notes, Admission!Observe(o) PROVE FlushInv'
  <2>1. /\ GateInv' /\ tail' # 0 /\ Admission!ToSet(notes) \subseteq Admission!ToSet(notes')
        /\ UNCHANGED <<ended, waiter, awaits, asked, pending>>
    BY <1>2, ObserveKeepsGate DEF FlushInv, Admission!Observe, Admission!waitVars
  <2> QED  BY <2>1, WorksGoOn DEF FlushInv, ForgottenWhenEnded
<1>3. ASSUME NEW w \in Admission!Works, Admission!Serve(w) PROVE FlushInv'
  BY <1>3, ServeKeeps
<1>4. CASE Admission!Forget
  <2>1. /\ UNCHANGED <<queue, gate, nested, notes, ended, waiter, awaits, asked, pending>>
        /\ tail' = 0 /\ Admission!ToSet(notes) \subseteq ended
    BY <1>4 DEF Admission!Forget, Admission!waitVars
  <2>2. tail' \in 0..Len(notes')
    BY <2>1, GateSequences DEF FlushInv
  <2>3. Admission!TypeOK'
    BY <2>1, <2>2 DEF FlushInv, GateInv, Admission!TypeOK
  <2> QED  BY <2>1, <2>3, SameGate, WorksGoOn DEF FlushInv, ForgottenWhenEnded
<1>5. ASSUME NEW f \in Admission!Waiters, Admission!Call(f) PROVE FlushInv'
  BY <1>5, CallKeeps
<1>6. ASSUME NEW f \in Admission!Waiters, Admission!Wait(f) \/ Admission!GiveUp(f) PROVE FlushInv'
  BY <1>6, WaitKeeps
<1>7. CASE UNCHANGED Admission!gateVars
  <2>1. UNCHANGED <<queue, gate, nested, notes, tail, ended, waiter, awaits, asked, pending>>
    BY <1>7 DEF Admission!gateVars
  <2>2. Admission!TypeOK'
    BY <2>1 DEF FlushInv, GateInv, Admission!TypeOK
  <2> QED  BY <2>1, <2>2, SameGate, WorksGoOn DEF FlushInv, ForgottenWhenEnded
<1> QED  BY <1>1, <1>2, <1>3, <1>4, <1>5, <1>6, <1>7 DEF Admission!Next

LEMMA FlushInitially == Admission!Init => FlushInv
<1> SUFFICES ASSUME Admission!Init PROVE FlushInv
  OBVIOUS
<1>1. /\ queue = <<>> /\ gate = <<>> /\ notes = <<>> /\ Len(<<>>) = 0 /\ Admission!ToSet(<<>>) = {}
  BY DEF Admission!Init, Admission!ToSet
<1>2. Admission!TypeOK
  BY DEF Admission!Init, Admission!TypeOK
<1>3. GateHasHeadOfQueue /\ AdmittedOnce /\ ForgottenWhenEnded
  BY <1>1 DEF GateHasHeadOfQueue, AdmittedOnce, ForgottenWhenEnded
<1>4. AskedIsAccounted /\ FlushIsComplete
  BY DEF Admission!Init, AskedIsAccounted, FlushIsComplete, Admission!FlushIsComplete
<1> QED  BY <1>2, <1>3, <1>4 DEF FlushInv, GateInv

\* A flush returns when the writes and the observations before it have ended and
\* none is on its way, also a drain that did not give up
\* (commerce-events.mjs:3919).
THEOREM FlushIsCompleteHolds == WritesAreNotNotes /\ Admission!Spec => []FlushIsComplete
<1>1. WritesAreNotNotes => WritesAreNotNotes'
  OBVIOUS
<1>2. FlushInv => FlushIsComplete
  BY DEF FlushInv
<1> QED  BY <1>1, <1>2, FlushInitially, FlushStep, PTL DEF Admission!Spec

-----------------------------------------------------------------------------
(* The prospective delivery journal, whose proofs are in ProspectiveProofs.*)

Retention == INSTANCE ProspectiveProofs

LEMMA SameRetention ==
    /\ Prospective!Init <=> Retention!Init
    /\ Prospective!prospectiveVars = Retention!prospectiveVars
    /\ Prospective!Next <=> Retention!Next
    /\ Prospective!TypeOK <=> Retention!TypeOK
<1>1. Prospective!prospectiveVars = Retention!prospectiveVars
  BY DEF Prospective!prospectiveVars, Prospective!journal, Retention!prospectiveVars, Retention!journal
<1>2. \A S : Prospective!Cardinality(S) = Retention!Cardinality(S)
  BY DEF Prospective!Cardinality, Retention!Cardinality
<1>3. Prospective!Init <=> Retention!Init
  BY DEF Prospective!Init, Prospective!Empty, Retention!Init, Retention!Empty
<1>4. Prospective!TypeOK <=> Retention!TypeOK
  BY <1>2 DEF Prospective!TypeOK, Prospective!Row, Prospective!Observation, Prospective!Technical,
     Prospective!OpenTechnical, Prospective!Feedback, Prospective!Transmission, Retention!TypeOK, Retention!Row,
     Retention!Observation, Retention!Technical, Retention!OpenTechnical, Retention!Feedback, Retention!Transmission
<1>5. Prospective!Next <=> Retention!Next
  BY Zenon DEF Prospective!Next, Prospective!SettleKey, Prospective!JoinLearns, Prospective!Retain, Prospective!Bind,
     Prospective!Note, Prospective!Put, Prospective!journal, Prospective!Row, Prospective!Technical,
     Prospective!OpenTechnical, Prospective!Feedback, Prospective!Transmission, Prospective!Observation,
     Prospective!SameBut, Prospective!SameObservation, Prospective!FeedbackFill, Prospective!TransmissionFill,
     Prospective!AuthorizedTechnicalRevision, Prospective!RevisesToUnknown, Prospective!Accepts, Prospective!Parsed,
     Prospective!Outcome, Prospective!Appended, Prospective!CutShort, Prospective!Fails, Prospective!Revising,
     Prospective!Room, Prospective!NewOnes, Prospective!Creating, Prospective!Stated, Prospective!Bound,
     Prospective!Observed, Prospective!OpenKeys, Prospective!Leaves, Prospective!Journal, Prospective!Cardinality,
     Retention!Next, Retention!SettleKey, Retention!JoinLearns, Retention!Retain, Retention!Bind, Retention!Note,
     Retention!Put, Retention!journal, Retention!Row, Retention!Technical, Retention!OpenTechnical,
     Retention!Feedback, Retention!Transmission, Retention!Observation, Retention!SameBut,
     Retention!SameObservation, Retention!FeedbackFill, Retention!TransmissionFill,
     Retention!AuthorizedTechnicalRevision, Retention!RevisesToUnknown, Retention!Accepts, Retention!Parsed,
     Retention!Outcome, Retention!Appended, Retention!CutShort, Retention!Fails, Retention!Revising, Retention!Room,
     Retention!NewOnes, Retention!Creating, Retention!Stated, Retention!Bound, Retention!Observed,
     Retention!OpenKeys, Retention!Leaves, Retention!Journal, Retention!Cardinality
<1> QED  BY <1>1, <1>3, <1>4, <1>5

LEMMA ProspectiveIsRetention == Prospective!Spec => Retention!Spec
<1>1. [Prospective!Next]_Prospective!prospectiveVars => [Retention!Next]_Retention!prospectiveVars
  BY SameRetention DEF Prospective!prospectiveVars, Prospective!journal, Retention!prospectiveVars, Retention!journal
<1> QED  BY <1>1, SameRetention, PTL DEF Prospective!Spec, Retention!Spec

LEMMA RetentionTypeHolds ==
    Retention!ProspectiveBounds /\ Prospective!Spec => []Prospective!TypeOK
<1>1. Retention!RecordsInv => Prospective!TypeOK
  BY SameRetention DEF Retention!RecordsInv
<1> QED
  BY <1>1, ProspectiveIsRetention, Retention!RecordsInvHolds, PTL

\* No record is lost, whichever appends tear or stop half-way: its first
\* terminal class, its statement and its transmission stay ("A different terminal
\* class conflicts and the first one wins", commerce-prospective-delivery.mjs:30).
THEOREM RecordsOnlyAdvanceHolds ==
    Retention!ProspectiveBounds /\ Prospective!Spec => RecordsOnlyAdvance
<1> DEFINE Kept == \A k \in DOMAIN records :
                      /\ k \in DOMAIN records'
                      /\ records[k].technical \notin Prospective!OpenTechnical => records'[k].technical = records[k].technical
                      /\ records'[k].technical = "unknown" => records[k].technical = "unknown"
                      /\ records[k].feedback # "absent" => records'[k].feedback = records[k].feedback
                      /\ records[k].transmission # "unknown" => records'[k].transmission = records[k].transmission
                      /\ records'[k].observedAt = records[k].observedAt
<1>1. [Kept]_Retention!prospectiveVars => [Kept]_Prospective!prospectiveVars
  BY DEF Prospective!prospectiveVars, Prospective!journal, Retention!prospectiveVars, Retention!journal
<1> QED
  BY <1>1, ProspectiveIsRetention, Retention!RecordsOnlyAdvanceHolds, PTL
  DEF Retention!RecordsOnlyAdvance, RecordsOnlyAdvance, Prospective!RecordsOnlyAdvance, Prospective!OpenTechnical,
      Retention!OpenTechnical

-----------------------------------------------------------------------------
(* One behaviour, one service.                                             *)

LEMMA StepsAreComponents ==
    ASSUME [ServicesNext]_vars
    PROVE  /\ [Feedback!Next]_Feedback!saysVars
           /\ [Workers!Next]_<<Workers!workerVars, Workers!exchangeVars>>
           /\ [Next]_claimVars
           /\ [Admission!Next]_Admission!gateVars
           /\ [Prospective!Next]_Prospective!prospectiveVars
<1>1. /\ Feedback!Next \/ UNCHANGED saysVars
      /\ Workers!Next \/ UNCHANGED workerVars
      /\ Next \/ UNCHANGED claimVars
      /\ Admission!Next \/ UNCHANGED gateVars
      /\ Prospective!Next \/ UNCHANGED prospectiveVars
  BY DEF ServicesNext, Only, vars
<1>2. /\ UNCHANGED saysVars => UNCHANGED Feedback!saysVars
      /\ UNCHANGED workerVars => UNCHANGED <<Workers!workerVars, Workers!exchangeVars>>
      /\ UNCHANGED gateVars => UNCHANGED Admission!gateVars
      /\ UNCHANGED prospectiveVars => UNCHANGED Prospective!prospectiveVars
  BY DEF saysVars, workerVars, gateVars, prospectiveVars, Feedback!saysVars, Feedback!saysFiles, Workers!workerVars,
     Workers!exchangeVars, Admission!gateVars, Prospective!prospectiveVars, Prospective!journal
<1> QED  BY <1>1, <1>2

\* Whatever is proved of a component holds when the services are run together.
LEMMA ServicesAreComponents ==
    FairSpec => Feedback!Spec /\ Workers!Spec /\ Spec /\ Admission!Spec /\ Prospective!Spec
<1>1. ServicesInit => Feedback!Init /\ Workers!Init /\ Init /\ Admission!Init /\ Prospective!Init
  BY DEF ServicesInit
<1> QED
  BY <1>1, StepsAreComponents, PTL DEF FairSpec, Feedback!Spec, Workers!Spec, Spec, Admission!Spec, Prospective!Spec

\* The assumptions of the services on their constants.
ServicesAssumptions ==
    SaysBounds /\ ExchangesAreJobs /\ ClaimsHaveReferrals /\ WritesAreNotNotes
    /\ Retention!ProspectiveBounds

\* The state of every service keeps its type.
THEOREM ServicesTypeOKHolds == ServicesAssumptions /\ FairSpec => []ServicesTypeOK
<1>1. ServicesAssumptions => ServicesAssumptions'
  OBVIOUS
<1>2. SaysBounds /\ Feedback!Spec => []SaysInv
  <2>1. SaysBounds => SaysBounds'
    OBVIOUS
  <2> QED  BY <2>1, SaysInitially, SaysStep, PTL DEF Feedback!Spec
<1>3. ExchangesAreJobs /\ Workers!Spec => []ExchangeInv
  <2>1. ExchangesAreJobs => ExchangesAreJobs'
    OBVIOUS
  <2> QED  BY <2>1, ExchangeInitially, ExchangeStep, PTL DEF Workers!Spec
<1>4. WritesAreNotNotes /\ Admission!Spec => []FlushInv
  <2>1. WritesAreNotNotes => WritesAreNotNotes'
    OBVIOUS
  <2> QED  BY <2>1, FlushInitially, FlushStep, PTL DEF Admission!Spec
<1>5. SaysInv /\ ExchangeInv /\ RecheckInv /\ FlushInv /\ Prospective!TypeOK => ServicesTypeOK
  BY DEF SaysInv, ExchangeInv, FlushInv, GateInv, RecheckInv, ServicesTypeOK
<1>6. ServicesAssumptions => SaysBounds /\ ExchangesAreJobs /\ ClaimsHaveReferrals /\ WritesAreNotNotes
                           /\ Retention!ProspectiveBounds
  BY DEF ServicesAssumptions
<1> QED
  BY <1>2, <1>3, <1>4, <1>5, <1>6, RetentionTypeHolds, ServicesAreComponents, RecheckInvHolds, PTL
==============================================================================
