--------------------------- MODULE CallerFeedback ---------------------------
(***************************************************************************)
(* Statements of callers about paid results                                *)
(* (src/caller-result-feedback.mjs 540-1043): one for each result, in a    *)
(* journal of two generations.  A submission reads both files and appends  *)
(* behind the gate of the directory, alone, so one step is a whole         *)
(* admission.  A native MCP submission comes back for a capture that is    *)
(* not yet visible, and gives the gate up in between.                      *)
(***************************************************************************)
EXTENDS JournalFile, FiniteSets

CONSTANTS
    Results,            \* paid results; each has one channel
    McpResults,         \* those delivered by a native MCP call
    Dispositions,       \* what a caller may say
    SaysLimit,          \* boundedMax, in lines
    MaxPolls,           \* MCP_CAPTURE_VISIBILITY_WAIT_MS, in polls
    MaxSaysFaults       \* bound on failing appends

Statement == [result : Results, disposition : Dispositions]
McpStatement == [result : McpResults, disposition : Dispositions]

VARIABLES
    says, olderSays,   \* the two generations
    visible,          \* results whose capture is visible
    polls,             \* submissions that wait for a capture, with the polls made
    accepted,          \* statements answered as accepted and not rotated out since
    broken,            \* a write has failed inside a line
    saysFaults

saysFiles == <<says, olderSays>>
saysVars == <<saysFiles, visible, polls, accepted, broken, saysFaults>>

TypeOK ==
    /\ says \in File(Statement)
    /\ olderSays \in File(Statement)
    /\ visible \subseteq Results
    /\ DOMAIN polls \subseteq McpStatement
    /\ \A s \in DOMAIN polls : polls[s] \in 0..MaxPolls
    /\ accepted \subseteq Statement
    /\ broken \in BOOLEAN
    /\ saysFaults \in 0..MaxSaysFaults

NoPolls == [s \in {} |-> 0]

Init ==
    /\ says = Blank
    /\ olderSays = Blank
    /\ visible = {}
    /\ polls = NoPolls
    /\ accepted = {}
    /\ broken = FALSE
    /\ saysFaults = 0

Rows == olderSays.lines \cup says.lines

\* mutant: only the current file is read
PriorInCurrent(s) == {t \in says.lines : t.result = s.result}

PriorOn(s) == {t \in Rows : t.result = s.result}

\* The capture is appended after the paid response.
Capture(p) ==
    /\ p \notin visible
    /\ visible' = visible \cup {p}
    /\ UNCHANGED <<saysFiles, polls, accepted, broken, saysFaults>>

Forgotten(s) == [t \in DOMAIN polls \ {s} |-> polls[t]]

Full == says.size + 1 > SaysLimit

\* mutant: a full file is started anew, not moved
Truncated == [current |-> Blank, older |-> olderSays]

\* What appendStatementBytes writes into: a full file becomes the older one.
Moved == [current |-> Blank, older |-> says]

Target == IF Full THEN Moved ELSE [current |-> says, older |-> olderSays]

RotatedOut == IF Full THEN olderSays.lines ELSE {}

\* The statement is appended, without a look at how the last line ended.
Commit(s) ==
    /\ s.result \in visible
    /\ PriorOn(s) = {}
    /\ says' = Appended(Target.current, s, FALSE)
    /\ olderSays' = Target.older
    /\ accepted' = (accepted \ RotatedOut) \cup {s}
    /\ polls' = Forgotten(s)
    /\ UNCHANGED <<visible, broken, saysFaults>>

\* The same statement again is accepted, another one is a conflict.
AnswerFromPrior(s) ==
    /\ s.result \in visible
    /\ PriorOn(s) # {}
    /\ accepted' = accepted \cup (PriorOn(s) \cap {s})
    /\ polls' = Forgotten(s)
    /\ UNCHANGED <<saysFiles, visible, broken, saysFaults>>

\* The sync of the current file, the unlink, the rename, the write or a sync
\* after it fails: the answer is 503.
CommitFails(s) ==
    /\ s.result \in visible
    /\ PriorOn(s) = {}
    /\ saysFaults < MaxSaysFaults
    /\ saysFaults' = saysFaults + 1
    /\ \/ says' = says /\ olderSays' \in {olderSays} \cup (IF Full THEN {Blank} ELSE {})
       \/ says' \in Cuts(Target.current, s, FALSE) /\ olderSays' = Target.older
    /\ broken' = (broken \/ says'.open)
    /\ accepted' = IF olderSays' = olderSays THEN accepted ELSE accepted \ olderSays.lines
    /\ polls' = Forgotten(s)
    /\ UNCHANGED visible

Admit(s) == Commit(s) \/ AnswerFromPrior(s) \/ CommitFails(s)

\* submit refuses a missing capture at once.
Submit(s) == s.result \notin McpResults /\ Admit(s)

\* submitMcp: the first admission, and every one after a pause.
Arrive(s) ==
    /\ s.result \in McpResults
    /\ s \notin DOMAIN polls
    /\ polls' = [t \in DOMAIN polls \cup {s} |-> IF t = s THEN 0 ELSE polls[t]]
    /\ UNCHANGED <<saysFiles, visible, accepted, broken, saysFaults>>

\* mutant: the polls are not bounded
PollsForEver(s) ==
    /\ s.result \notin visible
    /\ polls' = [polls EXCEPT ![s] = @ + 1]
    /\ UNCHANGED <<saysFiles, visible, accepted, broken, saysFaults>>

\* mutant: the end of the wait is not looked at
PollsOn(s) ==
    /\ s.result \notin visible
    /\ polls' = [polls EXCEPT ![s] = IF @ < MaxPolls THEN @ + 1 ELSE @]
    /\ UNCHANGED <<saysFiles, visible, accepted, broken, saysFaults>>

Poll(s) ==
    /\ s.result \notin visible
    /\ polls' = IF polls[s] < MaxPolls THEN [polls EXCEPT ![s] = @ + 1] ELSE Forgotten(s)
    /\ UNCHANGED <<saysFiles, visible, accepted, broken, saysFaults>>

SubmitMcp(s) == s \in DOMAIN polls /\ (Poll(s) \/ Admit(s))

RestartService ==
    /\ polls # NoPolls
    /\ polls' = NoPolls
    /\ UNCHANGED <<saysFiles, visible, accepted, broken, saysFaults>>

Next ==
    \/ \E p \in Results : Capture(p)
    \/ \E s \in Statement : Submit(s) \/ Arrive(s) \/ SubmitMcp(s)
    \/ RestartService

Spec == Init /\ [][Next]_saysVars

\* Each poll is an admission that returns and a timer of 10 ms.
Fairness == \A s \in McpStatement : WF_saysVars(SubmitMcp(s))

-----------------------------------------------------------------------------
\* The two files never spell two statements on one result, whichever of its
\* submissions failed half-way and whatever was spoiled behind a torn line: a
\* conflicting statement is refused while the first can be read
\* (caller-result-feedback.mjs:944).
OneStatement == \A s, t \in Rows : s.result = t.result => s = t

\* As long as no write failed inside a line, an accepted statement can be read
\* until a rotation removes it.  After such a failure the next statement
\* is appended to the torn line, answered as accepted and read by nobody
\* (caller-result-feedback.mjs:639); commerce-outcome-binding.mjs:847 separates
\* the two lines, this writer does not.
AcceptedIsReadable == ~broken => accepted \subseteq Rows

\* A submission that waits for a capture is answered, by the capture or by the
\* end of the wait (caller-result-feedback.mjs:1012).
WaitEnds == \A s \in McpStatement : s \in DOMAIN polls ~> s \notin DOMAIN polls
=============================================================================
