---------------------------- MODULE JournalsProofs ---------------------------
(***************************************************************************)
(* Proofs about the journals of the commerce data directory, for any       *)
(* number of processes, runs, segments and events.  Each is proved of the  *)
(* specification of its own journal; JournalsAreComponents carries it to   *)
(* the behaviours in which one of the journals runs.                       *)
(***************************************************************************)
EXTENDS MCJournals, OutcomeJournalProofs, FiniteSetTheorems

-----------------------------------------------------------------------------
(* Reconciling runs and the manifests they publish.                        *)

\* None is not the number of a run.
NoneIsNoRun == MaxRuns \in Nat /\ None \notin Nat

Started == 1..started

\* The stages of a run before it has a lease or goes on without one.
Early == {"leasing", "inspecting", "binding", "marking"}

\* A run belongs to one process.
RunsAreOwn ==
    /\ \A p \in Processes : doing[p].stage # "idle" => doing[p].run \in Started
    /\ \A p, q \in Processes :
          doing[p].stage # "idle" /\ doing[q].stage # "idle" /\ doing[p].run = doing[q].run => p = q

OnlyStarted ==
    /\ temp \in Started \cup {None}
    /\ ledger \subseteq Started
    /\ \A r \in Settlement!Runs : met[r] \subseteq Started

\* The file of a run that has no lease yet was met by nobody.
EarlyIsUnknown ==
    \A p \in Processes : doing[p].stage \in Early =>
        doing[p].run # temp /\ \A r \in Settlement!Runs : doing[p].run \notin met[r]

NotYetInLedger ==
    \A p \in Processes : doing[p].stage \in Early \cup {"scanning"} => doing[p].run \notin ledger

\* A file that was met is marked, or has been renamed.
Discharged(f) == temp = f => nodes[f].marked

\* A run appends when every file it met is discharged.
MarksBeforeRows ==
    /\ \A r \in ledger : \A f \in met[r] : Discharged(f)
    /\ \A p \in Processes : doing[p].stage = "scanning" => \A f \in met[doing[p].run] : Discharged(f)
    /\ \A p \in Processes : doing[p].stage = "marking" =>
          \A f \in met[doing[p].run] : Discharged(f) \/ f = doing[p].file

\* A cut that has a row of a contender is in a marked file.
CutsAreMarked ==
    \A f \in Settlement!Runs :
        nodes[f].cut \subseteq ledger /\ \A r \in nodes[f].cut : f \in met[r] => nodes[f].marked

Uncontended(c) == c # None => c.cut \subseteq ledger /\ \A r \in c.cut : c.run \notin met[r]

RunsInv ==
    /\ Settlement!TypeOK
    /\ RunsAreOwn
    /\ OnlyStarted
    /\ EarlyIsUnknown
    /\ NotYetInLedger
    /\ MarksBeforeRows
    /\ CutsAreMarked
    /\ Uncontended(seen) /\ Uncontended(captured)

\* Only p moves, within its run or out of it.
Moves(p, stage, file) ==
    /\ doing'[p].stage = stage /\ doing'[p].file = file
    /\ stage # "idle" => doing'[p].run = doing[p].run
    /\ \A q \in Processes : q # p => doing'[q] = doing[q]

LEMMA MovesOnly ==
    ASSUME Settlement!TypeOK, NEW p \in Processes
    PROVE  /\ \A stage \in Settlement!Stages, file \in Settlement!Runs \cup {None} :
                 Settlement!Binds(p, stage, file) =>
                    Moves(p, stage, file)
                    /\ doing' \in [Processes -> [stage : Settlement!Stages, run : Settlement!Runs \cup {None},
                                                 file : Settlement!Runs \cup {None}]]
           /\ \A stage \in Settlement!Stages : Settlement!Go(p, stage) =>
                    Moves(p, stage, doing[p].file)
                    /\ doing' \in [Processes -> [stage : Settlement!Stages, run : Settlement!Runs \cup {None},
                                                 file : Settlement!Runs \cup {None}]]
           /\ Settlement!Ends(p) =>
                    Moves(p, "idle", None)
                    /\ doing' \in [Processes -> [stage : Settlement!Stages, run : Settlement!Runs \cup {None},
                                                 file : Settlement!Runs \cup {None}]]
<1> USE DEF Settlement!TypeOK, Moves
<1>1. ASSUME NEW stage \in Settlement!Stages, NEW file \in Settlement!Runs \cup {None}, Settlement!Binds(p, stage, file)
      PROVE  Moves(p, stage, file)
             /\ doing' \in [Processes -> [stage : Settlement!Stages, run : Settlement!Runs \cup {None},
                                          file : Settlement!Runs \cup {None}]]
  BY <1>1 DEF Settlement!Binds
<1>2. ASSUME NEW stage \in Settlement!Stages, Settlement!Go(p, stage)
      PROVE  Moves(p, stage, doing[p].file)
             /\ doing' \in [Processes -> [stage : Settlement!Stages, run : Settlement!Runs \cup {None},
                                          file : Settlement!Runs \cup {None}]]
  BY <1>2 DEF Settlement!Go
<1>3. ASSUME Settlement!Ends(p)
      PROVE  Moves(p, "idle", None)
             /\ doing' \in [Processes -> [stage : Settlement!Stages, run : Settlement!Runs \cup {None},
                                          file : Settlement!Runs \cup {None}]]
  BY <1>3 DEF Settlement!Ends, Settlement!Idle, Settlement!Stages
<1> QED  BY <1>1, <1>2, <1>3

\* What is a run here.
LEMMA KnownRuns ==
    ASSUME NoneIsNoRun, RunsInv
    PROVE  /\ started \in 0..MaxRuns /\ Started \subseteq Settlement!Runs /\ None \notin Settlement!Runs
           /\ temp \in Started \cup {None} /\ ledger \subseteq Settlement!Runs
           /\ \A r \in Settlement!Runs : met[r] \subseteq Settlement!Runs
           /\ \A q \in Processes : doing[q].stage # "idle" => doing[q].run \in Settlement!Runs
<1>1. started \in 0..MaxRuns /\ Started \subseteq Settlement!Runs /\ None \notin Settlement!Runs
  BY DEF RunsInv, Settlement!TypeOK, Started, Settlement!Runs, NoneIsNoRun
<1>2. ledger \subseteq Settlement!Runs /\ \A r \in Settlement!Runs : met[r] \subseteq Settlement!Runs
  BY DEF RunsInv, Settlement!TypeOK
<1>3. temp \in Started \cup {None}
  BY DEF RunsInv, OnlyStarted
<1>4. \A q \in Processes : doing[q].stage # "idle" => doing[q].run \in Settlement!Runs
  BY <1>1 DEF RunsInv, RunsAreOwn
<1> QED  BY <1>1, <1>2, <1>3, <1>4

\* Nobody changes its run, and only p its stage.
LEMMA RunsStay ==
    ASSUME RunsInv, NEW p \in Processes, doing[p].stage # "idle", NEW stage, NEW file, Moves(p, stage, file),
           UNCHANGED started
    PROVE  RunsAreOwn' /\ \A q \in Processes : doing'[q].stage # "idle" =>
                              doing'[q].run = doing[q].run /\ doing[q].stage # "idle"
<1>1. \A q \in Processes : doing'[q].stage # "idle" => doing'[q].run = doing[q].run /\ doing[q].stage # "idle"
  BY DEF Moves
<1>2. Started' = Started
  BY DEF Started
<1> QED  BY <1>1, <1>2 DEF RunsInv, RunsAreOwn

\* What of the stages depends on who moves: the runs before the append, the
\* discharged files.
LEMMA StagesStay ==
    ASSUME NoneIsNoRun, RunsInv, NEW p \in Processes, doing[p].stage # "idle", NEW stage, NEW file,
           Moves(p, stage, file), RunsAreOwn', UNCHANGED <<ledger, met>>,
           stage \in Early \cup {"scanning"} => doing[p].stage \in Early,
           stage = "scanning" => \A f \in met[doing[p].run] : Discharged(f)',
           stage = "marking" => \A f \in met[doing[p].run] : Discharged(f)' \/ f = file,
           \A f \in Settlement!Runs : Discharged(f) => Discharged(f)'
    PROVE  NotYetInLedger' /\ MarksBeforeRows'
<1>1. \A q \in Processes : q # p => doing'[q] = doing[q]
  BY DEF Moves
<1>2. /\ doing'[p].stage = stage /\ doing'[p].file = file
      /\ doing'[p].stage # "idle" => doing'[p].run = doing[p].run
  BY DEF Moves
<1>3. NotYetInLedger'
  <2> SUFFICES ASSUME NEW q \in Processes, doing'[q].stage \in Early \cup {"scanning"}
               PROVE  doing'[q].run \notin ledger'
    BY DEF NotYetInLedger
  <2>1. CASE q = p
    BY <1>2, <2>1 DEF RunsInv, NotYetInLedger, Early
  <2>2. CASE q # p
    BY <1>1, <2>2 DEF RunsInv, NotYetInLedger
  <2> QED  BY <2>1, <2>2
<1>4. \A r \in ledger' : \A f \in met'[r] : Discharged(f)'
  BY KnownRuns DEF RunsInv, MarksBeforeRows
<1>5. ASSUME NEW q \in Processes, doing'[q].stage = "scanning" PROVE \A f \in met'[doing'[q].run] : Discharged(f)'
  <2>1. CASE q = p
    BY <1>2, <1>5, <2>1
  <2>2. CASE q # p
    <3>1. doing[q].stage = "scanning" /\ doing[q].run \in Settlement!Runs /\ doing'[q].run = doing[q].run
      BY <1>1, <1>5, <2>2, KnownRuns
    <3> QED  BY <3>1, KnownRuns DEF RunsInv, MarksBeforeRows
  <2> QED  BY <2>1, <2>2
<1>6. ASSUME NEW q \in Processes, doing'[q].stage = "marking"
      PROVE  \A f \in met'[doing'[q].run] : Discharged(f)' \/ f = doing'[q].file
  <2>1. CASE q = p
    BY <1>2, <1>6, <2>1
  <2>2. CASE q # p
    <3>1. /\ doing[q].stage = "marking" /\ doing[q].run \in Settlement!Runs
          /\ doing'[q].run = doing[q].run /\ doing'[q].file = doing[q].file
      BY <1>1, <1>6, <2>2, KnownRuns
    <3> QED  BY <3>1, KnownRuns DEF RunsInv, MarksBeforeRows
  <2> QED  BY <2>1, <2>2
<1> QED  BY <1>3, <1>4, <1>5, <1>6 DEF MarksBeforeRows

\* A process goes on in its run or ends it, and of what others look at only the
\* file of a run may change.
LEMMA GoesOn ==
    ASSUME NoneIsNoRun, RunsInv, NEW p \in Processes, doing[p].stage # "idle", Settlement!TypeOK',
           UNCHANGED <<temp, ledger, met, started, seen, captured>>,
           NEW stage, NEW file, Moves(p, stage, file),
           stage \in Early \cup {"scanning"} => doing[p].stage \in Early,
           stage = "scanning" => \A f \in met[doing[p].run] : Discharged(f)',
           stage = "marking" => \A f \in met[doing[p].run] : Discharged(f)' \/ f = file,
           \A f \in Settlement!Runs : nodes[f].marked => nodes'[f].marked,
           CutsAreMarked'
    PROVE  RunsInv'
<1>1. RunsAreOwn' /\ \A q \in Processes : doing'[q].stage # "idle" =>
                        doing'[q].run = doing[q].run /\ doing[q].stage # "idle"
  BY RunsStay
<1>2. NotYetInLedger' /\ MarksBeforeRows'
  <2>1. \A f \in Settlement!Runs : Discharged(f) => Discharged(f)'
    BY DEF Discharged
  <2> QED  BY <1>1, <2>1, StagesStay
<1>3. OnlyStarted'
  BY DEF RunsInv, OnlyStarted, Started
<1>4. EarlyIsUnknown'
  <2>1. \A q \in Processes : doing'[q].stage \in Early => doing[q].stage \in Early
    BY DEF Moves, Early
  <2> QED  BY <1>1, <2>1 DEF RunsInv, EarlyIsUnknown, Early
<1>5. Uncontended(seen)' /\ Uncontended(captured)'
  BY DEF RunsInv, Uncontended
<1> QED  BY <1>1, <1>2, <1>3, <1>4, <1>5 DEF RunsInv

\* A step that leaves the files alone.
LEMMA SameCuts ==
    ASSUME RunsInv, UNCHANGED <<nodes, ledger, met>>
    PROVE  CutsAreMarked' /\ \A f \in Settlement!Runs : nodes[f].marked => nodes'[f].marked
  BY DEF RunsInv, CutsAreMarked

LEMMA InspectKeeps ==
    ASSUME NoneIsNoRun, RunsInv, NEW p \in Processes, Settlement!Inspect(p)
    PROVE  RunsInv'
<1>1. /\ doing[p].stage = "inspecting"
      /\ UNCHANGED <<temp, manifest, nodes, ledger, failed, met, started, reader, seen, captured>>
  BY DEF Settlement!Inspect, Settlement!dirVars, Settlement!readVars
<1>2. "scanning" \in Settlement!Stages /\ "binding" \in Settlement!Stages
  BY DEF Settlement!Stages
<1>3. CASE temp = None /\ Settlement!Go(p, "scanning")
  <2>1. Moves(p, "scanning", doing[p].file) /\ Settlement!TypeOK'
    BY <1>1, <1>2, <1>3, MovesOnly DEF RunsInv, Settlement!TypeOK
  <2>2. \A f \in met[doing[p].run] : Discharged(f)'
    BY <1>1, <1>3, KnownRuns DEF Discharged
  <2> QED  BY <1>1, <2>1, <2>2, SameCuts, GoesOn DEF Early
<1>4. CASE temp # None /\ Settlement!Binds(p, "binding", temp)
  <2>1. Moves(p, "binding", temp) /\ Settlement!TypeOK'
    BY <1>1, <1>2, <1>4, MovesOnly DEF RunsInv, Settlement!TypeOK
  <2> QED  BY <1>1, <2>1, SameCuts, GoesOn DEF Early
<1> QED  BY <1>3, <1>4 DEF Settlement!Inspect

LEMMA RecheckKeeps ==
    ASSUME NoneIsNoRun, RunsInv, NEW p \in Processes, Settlement!Recheck(p)
    PROVE  RunsInv'
<1>1. /\ doing[p].stage = "binding"
      /\ UNCHANGED <<temp, manifest, nodes, ledger, failed, met, started, reader, seen, captured>>
  BY DEF Settlement!Recheck, Settlement!dirVars, Settlement!readVars
<1>2. "scanning" \in Settlement!Stages /\ "marking" \in Settlement!Stages /\ "leasing" \in Settlement!Stages
  BY DEF Settlement!Stages
<1>3. CASE temp = doing[p].file /\ Settlement!Go(p, "marking")
  <2>1. Moves(p, "marking", doing[p].file) /\ Settlement!TypeOK'
    BY <1>1, <1>2, <1>3, MovesOnly DEF RunsInv, Settlement!TypeOK
  <2>2. \A f \in met[doing[p].run] : Discharged(f)' \/ f = doing[p].file
    BY <1>1, <1>3 DEF Discharged
  <2> QED  BY <1>1, <2>1, <2>2, SameCuts, GoesOn DEF Early
<1>4. CASE temp = None /\ Settlement!Binds(p, "scanning", None)
  <2>1. Moves(p, "scanning", None) /\ Settlement!TypeOK'
    BY <1>1, <1>2, <1>4, MovesOnly DEF RunsInv, Settlement!TypeOK
  <2>2. \A f \in met[doing[p].run] : Discharged(f)'
    BY <1>1, <1>4, KnownRuns DEF Discharged
  <2> QED  BY <1>1, <2>1, <2>2, SameCuts, GoesOn DEF Early
<1>5. CASE Settlement!Binds(p, "leasing", None)
  <2>1. Moves(p, "leasing", None) /\ Settlement!TypeOK'
    BY <1>1, <1>2, <1>5, MovesOnly DEF RunsInv, Settlement!TypeOK
  <2> QED  BY <1>1, <2>1, SameCuts, GoesOn DEF Early
<1> QED  BY <1>3, <1>4, <1>5 DEF Settlement!Recheck

\* The contender marks the file that it bound, whatever it is named by then.
LEMMA MarkContendedKeeps ==
    ASSUME NoneIsNoRun, RunsInv, NEW p \in Processes, Settlement!MarkContended(p)
    PROVE  RunsInv'
<1>1. /\ doing[p].stage = "marking" /\ nodes' = [nodes EXCEPT ![doing[p].file] = Settlement!Marked(@)]
      /\ UNCHANGED <<temp, manifest, ledger, failed, met, started, reader, seen, captured>>
      /\ Settlement!Binds(p, "scanning", None)
  BY DEF Settlement!MarkContended, Settlement!readVars
<1>2. nodes \in [Settlement!Runs -> Settlement!Node]
  BY DEF RunsInv, Settlement!TypeOK
<1>3. /\ nodes' \in [Settlement!Runs -> Settlement!Node]
      /\ \A f \in Settlement!Runs : /\ nodes'[f].cut = nodes[f].cut
                                    /\ nodes[f].marked => nodes'[f].marked
                                    /\ f = doing[p].file => nodes'[f].marked
  <2>1. \A g \in Settlement!Runs : nodes'[g] = IF g = doing[p].file THEN Settlement!Marked(nodes[g]) ELSE nodes[g]
    BY <1>1, <1>2
  <2>2. DOMAIN nodes' = Settlement!Runs /\ nodes' = [g \in Settlement!Runs |-> nodes'[g]]
    BY <1>1, <1>2
  <2>3. \A node \in Settlement!Node : /\ Settlement!Marked(node) \in Settlement!Node
                                      /\ Settlement!Marked(node).cut = node.cut
                                      /\ Settlement!Marked(node).marked
    BY DEF Settlement!Marked, Settlement!Node
  <2>4. \A g \in Settlement!Runs : nodes[g] \in Settlement!Node
    BY <1>2
  <2>5. \A g \in Settlement!Runs : nodes'[g] \in Settlement!Node
    BY <2>1, <2>3, <2>4
  <2>6. nodes' \in [Settlement!Runs -> Settlement!Node]
    BY <2>2, <2>5
  <2>7. \A g \in Settlement!Runs : /\ nodes'[g].cut = nodes[g].cut
                                   /\ nodes[g].marked => nodes'[g].marked
                                   /\ g = doing[p].file => nodes'[g].marked
    BY <2>1, <2>3, <2>4
  <2> QED  BY <2>6, <2>7
<1>4. "scanning" \in Settlement!Stages
  BY DEF Settlement!Stages
<1>5. Moves(p, "scanning", None) /\ Settlement!TypeOK'
  BY <1>1, <1>3, <1>4, MovesOnly DEF RunsInv, Settlement!TypeOK
<1>6. \A f \in met[doing[p].run] : Discharged(f)'
  <2>1. \A f \in met[doing[p].run] : f \in Settlement!Runs /\ (Discharged(f) \/ f = doing[p].file)
    BY <1>1, KnownRuns DEF RunsInv, MarksBeforeRows
  <2> QED  BY <1>1, <1>3, <2>1 DEF Discharged
<1>7. CutsAreMarked'
  BY <1>1, <1>3 DEF RunsInv, CutsAreMarked
<1> QED  BY <1>1, <1>3, <1>5, <1>6, <1>7, GoesOn DEF Early

\* The rows come when every file the run met is discharged.
LEMMA OperateKeeps ==
    ASSUME NoneIsNoRun, RunsInv, NEW p \in Processes, Settlement!Operate(p)
    PROVE  RunsInv'
<1>1. /\ doing[p].stage = "scanning" /\ ledger' \in {ledger, ledger \cup {doing[p].run}}
      /\ failed' \in {failed, failed \cup {doing[p].run}}
      /\ UNCHANGED <<temp, manifest, nodes, met, started, reader, seen, captured>>
  BY DEF Settlement!Operate, Settlement!readVars
<1>2. doing[p].run \in Settlement!Runs /\ doing[p].run \in Started
  BY <1>1, KnownRuns DEF RunsInv, RunsAreOwn
<1>3. PICK stage \in {"publishing", "idle"}, file \in Settlement!Runs \cup {None} :
         Moves(p, stage, file)
         /\ doing' \in [Processes -> [stage : Settlement!Stages, run : Settlement!Runs \cup {None},
                                      file : Settlement!Runs \cup {None}]]
  <2>1. "publishing" \in Settlement!Stages /\ doing[p].file \in Settlement!Runs \cup {None}
    BY DEF RunsInv, Settlement!TypeOK, Settlement!Stages
  <2>2. Settlement!Go(p, "publishing") \/ Settlement!Ends(p)
    BY DEF Settlement!Operate
  <2> QED  BY <2>1, <2>2, MovesOnly DEF RunsInv
<1>4. Settlement!TypeOK'
  BY <1>1, <1>2, <1>3 DEF RunsInv, Settlement!TypeOK
<1>5. RunsAreOwn'
  BY <1>1, <1>3, RunsStay
<1>6. \A q \in Processes : doing'[q].stage # "idle" /\ q # p => doing'[q] = doing[q] /\ doing[q].run # doing[p].run
  BY <1>1, <1>3 DEF Moves, RunsInv, RunsAreOwn
<1>7. OnlyStarted'
  BY <1>1, <1>2 DEF RunsInv, OnlyStarted, Started
<1>8. EarlyIsUnknown'
  BY <1>1, <1>3, <1>6 DEF RunsInv, EarlyIsUnknown, Moves, Early
<1>9. NotYetInLedger'
  BY <1>1, <1>3, <1>6 DEF RunsInv, NotYetInLedger, Moves, Early
<1>10. MarksBeforeRows'
  <2>1. \A f : Discharged(f)' <=> Discharged(f)
    BY <1>1 DEF Discharged
  <2>2. \A r \in ledger' : \A f \in met[r] : Discharged(f)
    BY <1>1 DEF RunsInv, MarksBeforeRows
  <2>3. \A q \in Processes : doing'[q].stage \in {"scanning", "marking"} => doing'[q] = doing[q]
    BY <1>3 DEF Moves
  <2> QED  BY <1>1, <2>1, <2>2, <2>3 DEF RunsInv, MarksBeforeRows
<1>11. CutsAreMarked'
  BY <1>1 DEF RunsInv, CutsAreMarked
<1>12. Uncontended(seen)' /\ Uncontended(captured)'
  BY <1>1 DEF RunsInv, Uncontended
<1> QED  BY <1>4, <1>5, <1>7, <1>8, <1>9, <1>10, <1>11, <1>12 DEF RunsInv

\* The cut is taken from an unmarked file: it has no row of a run that met it.
LEMMA CutLedgerKeeps ==
    ASSUME NoneIsNoRun, RunsInv, NEW p \in Processes, Settlement!CutLedger(p)
    PROVE  RunsInv'
<1>1. doing[p].stage = "publishing"
      /\ UNCHANGED <<temp, manifest, ledger, failed, met, started, reader, seen, captured>>
  BY DEF Settlement!CutLedger, Settlement!readVars
<1>2. doing[p].run \in Settlement!Runs
  BY <1>1, KnownRuns
<1>3. CASE /\ Settlement!Checkpoint(p, "empty")
           /\ nodes' = [nodes EXCEPT ![doing[p].run].cut = ledger]
           /\ Settlement!Go(p, "writing")
  <2>1. nodes \in [Settlement!Runs -> Settlement!Node] /\ ledger \in SUBSET Settlement!Runs
    BY DEF RunsInv, Settlement!TypeOK
  <2>2. /\ nodes' \in [Settlement!Runs -> Settlement!Node]
        /\ \A f \in Settlement!Runs : /\ nodes'[f].marked = nodes[f].marked
                                      /\ f # doing[p].run => nodes'[f].cut = nodes[f].cut
        /\ nodes'[doing[p].run].cut = ledger
    BY <1>2, <1>3, <2>1 DEF Settlement!Node
  <2>3. "writing" \in Settlement!Stages
    BY DEF Settlement!Stages
  <2>4. Moves(p, "writing", doing[p].file) /\ Settlement!TypeOK'
    BY <1>1, <1>3, <2>2, <2>3, MovesOnly DEF RunsInv, Settlement!TypeOK
  <2>5. \A r \in ledger : doing[p].run \notin met[r]
    BY <1>3 DEF RunsInv, MarksBeforeRows, Discharged, Settlement!Checkpoint
  <2>6. CutsAreMarked'
    BY <1>1, <2>2, <2>5 DEF RunsInv, CutsAreMarked
  <2> QED  BY <1>1, <2>2, <2>4, <2>6, GoesOn DEF Early
<1>4. CASE Settlement!Ends(p) /\ UNCHANGED nodes
  <2>1. Moves(p, "idle", None) /\ Settlement!TypeOK'
    BY <1>1, <1>4, MovesOnly DEF RunsInv, Settlement!TypeOK
  <2> QED  BY <1>1, <1>4, <2>1, SameCuts, GoesOn DEF Early
<1> QED  BY <1>3, <1>4 DEF Settlement!CutLedger

LEMMA WriteManifestKeeps ==
    ASSUME NoneIsNoRun, RunsInv, NEW p \in Processes, Settlement!WriteManifest(p)
    PROVE  RunsInv'
<1>1. doing[p].stage = "writing"
      /\ UNCHANGED <<temp, manifest, ledger, failed, met, started, reader, seen, captured>>
  BY DEF Settlement!WriteManifest, Settlement!readVars
<1>2. PICK content \in {"whole", "part"}, stage \in {"verifying", "idle"}, file \in Settlement!Runs \cup {None} :
         /\ nodes' = [nodes EXCEPT ![doing[p].run].content = content]
         /\ Moves(p, stage, file)
         /\ doing' \in [Processes -> [stage : Settlement!Stages, run : Settlement!Runs \cup {None},
                                      file : Settlement!Runs \cup {None}]]
  <2>1. "verifying" \in Settlement!Stages /\ doing[p].file \in Settlement!Runs \cup {None}
    BY DEF RunsInv, Settlement!TypeOK, Settlement!Stages
  <2>2. CASE nodes' = [nodes EXCEPT ![doing[p].run].content = "whole"] /\ Settlement!Go(p, "verifying")
    BY <2>1, <2>2, MovesOnly DEF RunsInv
  <2>3. CASE nodes' = [nodes EXCEPT ![doing[p].run].content = "part"] /\ Settlement!Ends(p)
    BY <2>1, <2>3, MovesOnly DEF RunsInv
  <2> QED  BY <2>2, <2>3 DEF Settlement!WriteManifest
<1>3. nodes \in [Settlement!Runs -> Settlement!Node]
  BY DEF RunsInv, Settlement!TypeOK
<1>4. /\ nodes' \in [Settlement!Runs -> Settlement!Node]
      /\ \A f \in Settlement!Runs : nodes'[f].marked = nodes[f].marked /\ nodes'[f].cut = nodes[f].cut
  <2>1. /\ doing[p].run \in Settlement!Runs
        /\ nodes' = [nodes EXCEPT ![doing[p].run] = [@ EXCEPT !.content = content]]
    BY <1>1, <1>2, KnownRuns
  <2>2. \A node \in Settlement!Node : /\ [node EXCEPT !.content = content] \in Settlement!Node
                                      /\ [node EXCEPT !.content = content].marked = node.marked
                                      /\ [node EXCEPT !.content = content].cut = node.cut
    BY DEF Settlement!Node
  <2>3. \A g \in Settlement!Runs :
           nodes'[g] = IF g = doing[p].run THEN [nodes[g] EXCEPT !.content = content] ELSE nodes[g]
    BY <1>3, <2>1
  <2>4. nodes' = [g \in Settlement!Runs |-> nodes'[g]]
    BY <1>3, <2>1
  <2>5. \A g \in Settlement!Runs : nodes[g] \in Settlement!Node
    BY <1>3
  <2>6. \A g \in Settlement!Runs : nodes'[g] \in Settlement!Node
    BY <2>2, <2>3, <2>5
  <2>7. nodes' \in [Settlement!Runs -> Settlement!Node]
    BY <2>4, <2>6
  <2>8. \A g \in Settlement!Runs : nodes'[g].marked = nodes[g].marked /\ nodes'[g].cut = nodes[g].cut
    BY <2>2, <2>3, <2>5
  <2> QED  BY <2>7, <2>8
<1>5. Settlement!TypeOK'
  BY <1>1, <1>2, <1>4 DEF RunsInv, Settlement!TypeOK
<1>6. CutsAreMarked'
  BY <1>1, <1>4 DEF RunsInv, CutsAreMarked
<1> QED  BY <1>1, <1>2, <1>4, <1>5, <1>6, GoesOn DEF Early

\* A checkpoint or the end of a process.
LEMMA VerifyKeeps ==
    ASSUME NoneIsNoRun, RunsInv, NEW p \in Processes, Settlement!Verify(p) \/ Settlement!Kill(p)
    PROVE  RunsInv'
<1>1. doing[p].stage # "idle"
      /\ UNCHANGED <<temp, manifest, nodes, ledger, failed, met, started, reader, seen, captured>>
  BY DEF Settlement!Verify, Settlement!Kill, Settlement!dirVars, Settlement!readVars
<1>2. PICK stage \in {"renaming", "idle"}, file \in Settlement!Runs \cup {None} :
         /\ Moves(p, stage, file)
         /\ doing' \in [Processes -> [stage : Settlement!Stages, run : Settlement!Runs \cup {None},
                                      file : Settlement!Runs \cup {None}]]
  <2>1. "renaming" \in Settlement!Stages /\ doing[p].file \in Settlement!Runs \cup {None}
    BY <1>1 DEF RunsInv, Settlement!TypeOK, Settlement!Stages
  <2>2. Settlement!Go(p, "renaming") \/ Settlement!Ends(p)
    BY DEF Settlement!Verify, Settlement!Kill
  <2> QED  BY <2>1, <2>2, MovesOnly DEF RunsInv
<1>3. Settlement!TypeOK'
  BY <1>1, <1>2 DEF RunsInv, Settlement!TypeOK
<1> QED  BY <1>1, <1>2, <1>3, SameCuts, GoesOn DEF Early

\* A new run has a number that nobody has met and that has no row.
LEMMA StartKeeps ==
    ASSUME NoneIsNoRun, RunsInv, NEW p \in Processes, Settlement!Start(p)
    PROVE  RunsInv'
<1>1. /\ doing[p].stage = "idle" /\ started < MaxRuns /\ started' = started + 1
      /\ UNCHANGED <<temp, manifest, nodes, ledger, failed, met, reader, seen, captured>>
      /\ doing' = [doing EXCEPT ![p] = [stage |-> "leasing", run |-> started + 1, file |-> None]]
  BY DEF Settlement!Start, Settlement!dirVars, Settlement!readVars
<1> DEFINE new == started + 1
<1>2. /\ started \in 0..MaxRuns /\ MaxRuns \in Nat /\ started' \in 0..MaxRuns
      /\ new \in Settlement!Runs /\ new \notin Started /\ Started' = Started \cup {new}
      /\ new \in Started' /\ new # None
  BY <1>1, KnownRuns DEF Started, Settlement!Runs, NoneIsNoRun
<1>3. /\ doing'[p].stage = "leasing" /\ doing'[p].run = new
      /\ \A q \in Processes : q # p => doing'[q] = doing[q]
      /\ doing' \in [Processes -> [stage : Settlement!Stages, run : Settlement!Runs \cup {None},
                                   file : Settlement!Runs \cup {None}]]
  <2>1. doing \in [Processes -> [stage : Settlement!Stages, run : Settlement!Runs \cup {None},
                                 file : Settlement!Runs \cup {None}]]
    BY DEF RunsInv, Settlement!TypeOK
  <2>2. [stage |-> "leasing", run |-> new, file |-> None]
           \in [stage : Settlement!Stages, run : Settlement!Runs \cup {None}, file : Settlement!Runs \cup {None}]
    BY <1>2 DEF Settlement!Stages
  <2> QED  BY <1>1, <2>1, <2>2
<1> HIDE DEF new
<1>4. Settlement!TypeOK'
  BY <1>1, <1>2, <1>3 DEF RunsInv, Settlement!TypeOK
<1>5. \A q \in Processes : q # p /\ doing'[q].stage # "idle" => doing'[q].run \in Started /\ doing'[q] = doing[q]
  BY <1>3 DEF RunsInv, RunsAreOwn
<1>6. RunsAreOwn'
  BY <1>2, <1>3, <1>5 DEF RunsInv, RunsAreOwn
<1>7. OnlyStarted'
  BY <1>1, <1>2 DEF RunsInv, OnlyStarted
<1>8. EarlyIsUnknown'
  BY <1>1, <1>2, <1>3 DEF RunsInv, EarlyIsUnknown, OnlyStarted
<1>9. NotYetInLedger'
  BY <1>1, <1>2, <1>3 DEF RunsInv, NotYetInLedger, OnlyStarted
<1>10. MarksBeforeRows'
  <2>1. \A f : Discharged(f)' <=> Discharged(f)
    BY <1>1 DEF Discharged
  <2>2. \A q \in Processes : doing'[q].stage \in {"scanning", "marking"} => doing'[q] = doing[q]
    BY <1>3
  <2> QED  BY <1>1, <2>1, <2>2 DEF RunsInv, MarksBeforeRows
<1>11. CutsAreMarked'
  BY <1>1, SameCuts
<1>12. Uncontended(seen)' /\ Uncontended(captured)'
  BY <1>1 DEF RunsInv, Uncontended
<1> QED  BY <1>4, <1>6, <1>7, <1>8, <1>9, <1>10, <1>11, <1>12 DEF RunsInv

\* The run creates the file: nobody can have met it.
LEMMA AcquireKeeps ==
    ASSUME NoneIsNoRun, RunsInv, NEW p \in Processes, Settlement!Lease(p), temp = None
    PROVE  RunsInv'
<1> DEFINE run == doing[p].run
<1>1. /\ doing[p].stage = "leasing" /\ temp' = run /\ Settlement!Go(p, "scanning")
      /\ nodes' = [nodes EXCEPT ![run].content = "empty"]
      /\ UNCHANGED <<manifest, ledger, failed, met, started, reader, seen, captured>>
  BY DEF Settlement!Lease, Settlement!readVars
<1>2. run \in Settlement!Runs /\ run \in Started /\ run # None
  BY <1>1, KnownRuns DEF RunsInv, RunsAreOwn
<1>3. /\ nodes' \in [Settlement!Runs -> Settlement!Node]
      /\ \A g \in Settlement!Runs : nodes'[g].marked = nodes[g].marked /\ nodes'[g].cut = nodes[g].cut
  <2>1. nodes \in [Settlement!Runs -> Settlement!Node]
    BY DEF RunsInv, Settlement!TypeOK
  <2>2. \A node \in Settlement!Node : /\ [node EXCEPT !.content = "empty"] \in Settlement!Node
                                      /\ [node EXCEPT !.content = "empty"].marked = node.marked
                                      /\ [node EXCEPT !.content = "empty"].cut = node.cut
    BY DEF Settlement!Node
  <2>3. nodes' = [nodes EXCEPT ![run] = [@ EXCEPT !.content = "empty"]]
    BY <1>1, <1>2, <2>1
  <2>4. \A g \in Settlement!Runs : nodes'[g] = IF g = run THEN [nodes[g] EXCEPT !.content = "empty"] ELSE nodes[g]
    BY <2>1, <2>3
  <2>5. nodes' = [g \in Settlement!Runs |-> nodes'[g]]
    BY <2>1, <2>3
  <2>6. \A g \in Settlement!Runs : nodes[g] \in Settlement!Node
    BY <2>1
  <2>7. \A g \in Settlement!Runs : nodes'[g] \in Settlement!Node
    BY <2>2, <2>4, <2>6
  <2>8. \A g \in Settlement!Runs : nodes'[g].marked = nodes[g].marked /\ nodes'[g].cut = nodes[g].cut
    BY <2>2, <2>4, <2>6
  <2> QED  BY <2>5, <2>7, <2>8
<1>4. "scanning" \in Settlement!Stages
  BY DEF Settlement!Stages
<1>5. Moves(p, "scanning", doing[p].file) /\ Settlement!TypeOK'
  BY <1>1, <1>2, <1>3, <1>4, MovesOnly DEF RunsInv, Settlement!TypeOK
<1>6. RunsAreOwn'
  BY <1>1, <1>5, RunsStay
<1>7. /\ doing'[p].stage = "scanning" /\ doing'[p].run = run
      /\ \A q \in Processes : q # p => doing'[q] = doing[q]
  BY <1>5 DEF Moves
<1>8. \A r \in Settlement!Runs : run \notin met[r]
  BY <1>1 DEF RunsInv, EarlyIsUnknown, Early
<1>9. OnlyStarted'
  BY <1>1, <1>2 DEF RunsInv, OnlyStarted, Started
<1>10. EarlyIsUnknown'
  <2> SUFFICES ASSUME NEW q \in Processes, doing'[q].stage \in Early
               PROVE  doing'[q].run # temp' /\ \A r \in Settlement!Runs : doing'[q].run \notin met'[r]
    BY DEF EarlyIsUnknown
  <2>1. q # p /\ doing'[q] = doing[q] /\ doing[q].stage \in Early
    BY <1>7 DEF Early
  <2>2. doing[q].run # run
    BY <1>1, <2>1 DEF RunsInv, RunsAreOwn, Early
  <2> QED  BY <1>1, <2>1, <2>2 DEF RunsInv, EarlyIsUnknown
<1>11. \A r \in Settlement!Runs : \A f \in met[r] : Discharged(f)'
  BY <1>1, <1>8 DEF Discharged
<1>12. NotYetInLedger'
  BY <1>1, <1>7 DEF RunsInv, NotYetInLedger, Early
<1>13. MarksBeforeRows'
  <2>1. \A r \in ledger' : \A f \in met'[r] : Discharged(f)'
    BY <1>1, <1>11, KnownRuns
  <2>2. \A q \in Processes : doing'[q].stage # "idle" => doing'[q].run \in Settlement!Runs
    BY <1>2, <1>7, KnownRuns
  <2> QED  BY <1>1, <1>11, <2>1, <2>2 DEF MarksBeforeRows
<1>14. CutsAreMarked'
  BY <1>1, <1>3 DEF RunsInv, CutsAreMarked
<1>15. Uncontended(seen)' /\ Uncontended(captured)'
  BY <1>1 DEF RunsInv, Uncontended
<1> QED  BY <1>5, <1>6, <1>9, <1>10, <1>12, <1>13, <1>14, <1>15 DEF RunsInv

\* The run meets the file of another one; it has no row that a cut could have.
LEMMA MeetKeeps ==
    ASSUME NoneIsNoRun, RunsInv, NEW p \in Processes, Settlement!Lease(p), temp # None
    PROVE  RunsInv'
<1> DEFINE run == doing[p].run
<1>1. /\ doing[p].stage = "leasing" /\ Settlement!Go(p, "inspecting")
      /\ met' = [met EXCEPT ![run] = @ \cup {temp}]
      /\ UNCHANGED <<temp, nodes, manifest, ledger, failed, started, reader, seen, captured>>
  BY DEF Settlement!Lease, Settlement!readVars
<1>2. run \in Settlement!Runs /\ run \notin ledger /\ temp \in Started /\ temp \in Settlement!Runs
  BY <1>1, KnownRuns DEF RunsInv, NotYetInLedger, Early
<1>3. /\ met' \in [Settlement!Runs -> SUBSET Settlement!Runs]
      /\ met'[run] = met[run] \cup {temp}
      /\ \A r \in Settlement!Runs : r # run => met'[r] = met[r]
  BY <1>1, <1>2 DEF RunsInv, Settlement!TypeOK
<1>4. "inspecting" \in Settlement!Stages
  BY DEF Settlement!Stages
<1>5. Moves(p, "inspecting", doing[p].file) /\ Settlement!TypeOK'
  BY <1>1, <1>3, <1>4, MovesOnly DEF RunsInv, Settlement!TypeOK
<1>6. RunsAreOwn' /\ \A q \in Processes : doing'[q].stage # "idle" =>
                        doing'[q].run = doing[q].run /\ doing[q].stage # "idle"
  BY <1>1, <1>5, RunsStay
<1>7. /\ doing'[p].stage = "inspecting" /\ doing'[p].run = run
      /\ \A q \in Processes : q # p => doing'[q] = doing[q]
  BY <1>5 DEF Moves
<1>8. OnlyStarted'
  BY <1>1, <1>2, <1>3 DEF RunsInv, OnlyStarted, Started
<1>9. EarlyIsUnknown'
  <2> SUFFICES ASSUME NEW q \in Processes, doing'[q].stage \in Early
               PROVE  doing'[q].run # temp' /\ \A r \in Settlement!Runs : doing'[q].run \notin met'[r]
    BY DEF EarlyIsUnknown
  <2>1. doing[q].stage \in Early /\ doing'[q].run = doing[q].run
    BY <1>1, <1>6, <1>7 DEF Early
  <2>2. doing[q].run # temp /\ \A r \in Settlement!Runs : doing[q].run \notin met[r]
    BY <2>1 DEF RunsInv, EarlyIsUnknown
  <2> QED  BY <1>1, <1>3, <2>1, <2>2
<1>10. NotYetInLedger'
  BY <1>1, <1>7 DEF RunsInv, NotYetInLedger, Early
<1>11. \A f : Discharged(f)' <=> Discharged(f)
  BY <1>1 DEF Discharged
<1>12. \A r \in ledger : met'[r] = met[r]
  BY <1>2, <1>3, KnownRuns
<1>13. MarksBeforeRows'
  <2>1. \A q \in Processes : doing'[q].stage \in {"scanning", "marking"} =>
                                doing'[q] = doing[q] /\ met'[doing[q].run] = met[doing[q].run]
    <3> SUFFICES ASSUME NEW q \in Processes, doing'[q].stage \in {"scanning", "marking"}
                 PROVE  doing'[q] = doing[q] /\ met'[doing[q].run] = met[doing[q].run]
      OBVIOUS
    <3>1. q # p /\ doing'[q] = doing[q] /\ doing[q].stage # "idle"
      BY <1>7
    <3>2. doing[q].run \in Settlement!Runs /\ doing[q].run # run
      BY <1>1, <3>1, KnownRuns DEF RunsInv, RunsAreOwn
    <3> QED  BY <1>3, <3>1, <3>2
  <2> QED  BY <1>1, <1>11, <1>12, <2>1 DEF RunsInv, MarksBeforeRows
<1>14. CutsAreMarked'
  <2> SUFFICES ASSUME NEW f \in Settlement!Runs
               PROVE  nodes'[f].cut \subseteq ledger' /\ \A r \in nodes'[f].cut : f \in met'[r] => nodes'[f].marked
    BY DEF CutsAreMarked
  <2>1. nodes[f].cut \subseteq ledger /\ \A r \in nodes[f].cut : f \in met[r] => nodes[f].marked
    BY DEF RunsInv, CutsAreMarked
  <2> QED  BY <1>1, <1>12, <2>1
<1>15. Uncontended(seen)' /\ Uncontended(captured)'
  BY <1>1, <1>12 DEF RunsInv, Uncontended
<1> QED  BY <1>5, <1>6, <1>8, <1>9, <1>10, <1>13, <1>14, <1>15 DEF RunsInv

\* With its name the file loses those who still look for it.
LEMMA RenameKeeps ==
    ASSUME NoneIsNoRun, RunsInv, NEW p \in Processes, Settlement!Rename(p)
    PROVE  RunsInv'
<1>1. /\ doing[p].stage = "renaming" /\ manifest' = temp /\ temp' = None /\ Settlement!Ends(p)
      /\ nodes' = IF manifest = None THEN nodes ELSE [nodes EXCEPT ![manifest] = Settlement!NoNode]
      /\ UNCHANGED <<ledger, failed, met, started, reader, seen, captured>>
  BY DEF Settlement!Rename, Settlement!readVars
<1>2. /\ nodes' \in [Settlement!Runs -> Settlement!Node]
      /\ \A f \in Settlement!Runs : nodes'[f] = nodes[f] \/ nodes'[f].cut = {}
  <2>1. nodes \in [Settlement!Runs -> Settlement!Node]
    BY DEF RunsInv, Settlement!TypeOK
  <2>2. Settlement!NoNode \in Settlement!Node /\ Settlement!NoNode.cut = {}
    BY DEF Settlement!NoNode, Settlement!Node
  <2> QED  BY <1>1, <2>1, <2>2
<1>3. Moves(p, "idle", None) /\ Settlement!TypeOK'
  BY <1>1, <1>2, MovesOnly DEF RunsInv, Settlement!TypeOK
<1>4. RunsAreOwn' /\ \A q \in Processes : doing'[q].stage # "idle" =>
                        doing'[q].run = doing[q].run /\ doing[q].stage # "idle"
  BY <1>1, <1>3, RunsStay
<1>5. None \notin Settlement!Runs /\ \A r \in Settlement!Runs : met[r] \subseteq Settlement!Runs
  BY KnownRuns
<1>6. \A f \in Settlement!Runs : Discharged(f)'
  BY <1>1, <1>5 DEF Discharged
<1>7. NotYetInLedger' /\ MarksBeforeRows'
  BY <1>1, <1>3, <1>4, <1>6, StagesStay DEF Early
<1>8. OnlyStarted'
  BY <1>1 DEF RunsInv, OnlyStarted, Started
<1>9. EarlyIsUnknown'
  <2> SUFFICES ASSUME NEW q \in Processes, doing'[q].stage \in Early
               PROVE  doing'[q].run # temp' /\ \A r \in Settlement!Runs : doing'[q].run \notin met'[r]
    BY DEF EarlyIsUnknown
  <2>1. doing[q].stage \in Early /\ doing'[q].run = doing[q].run /\ doing[q].run \in Settlement!Runs
    BY <1>3, <1>4, KnownRuns DEF Moves, Early
  <2> QED  BY <1>1, <1>5, <2>1 DEF RunsInv, EarlyIsUnknown
<1>10. CutsAreMarked'
  BY <1>1, <1>2 DEF RunsInv, CutsAreMarked
<1>11. Uncontended(seen)' /\ Uncontended(captured)'
  BY <1>1 DEF RunsInv, Uncontended
<1> QED  BY <1>3, <1>4, <1>7, <1>8, <1>9, <1>10, <1>11 DEF RunsInv

\* The reader accepts what it read from an unmarked file.
LEMMA ReaderKeeps ==
    ASSUME NoneIsNoRun, RunsInv, Settlement!Reader
    PROVE  RunsInv'
<1>1. UNCHANGED <<temp, manifest, nodes, ledger, doing, failed, met, started>>
  BY DEF Settlement!Reader, Settlement!BeginCapture, Settlement!ReadManifest, Settlement!ReadLedger,
         Settlement!ReadManifestAgain, Settlement!AcceptCapture, Settlement!EndAttempt,
         Settlement!ReadOn, Settlement!dirVars
<1>2. Uncontended(None)' /\ None \in Settlement!Capture \cup {None}
  BY DEF Uncontended
<1>3. /\ seen' \in Settlement!Capture \cup {None} /\ Uncontended(seen)'
      /\ captured' \in Settlement!Capture \cup {None} /\ Uncontended(captured)'
      /\ reader' \in {"idle", "manifest", "ledger", "again", "temp"}
  <2>1. /\ seen \in Settlement!Capture \cup {None} /\ captured \in Settlement!Capture \cup {None}
        /\ UNCHANGED seen => Uncontended(seen)'
        /\ UNCHANGED captured => Uncontended(captured)'
    BY <1>1 DEF RunsInv, Settlement!TypeOK, Uncontended
  <2>2. CASE Settlement!ReadManifest
    <3>1. /\ manifest \in Settlement!Runs /\ ~nodes[manifest].marked
          /\ seen' = [run |-> manifest, cut |-> nodes[manifest].cut] /\ captured' = captured
          /\ reader' = "ledger"
      BY <2>2 DEF Settlement!ReadManifest, Settlement!Readable, Settlement!ReadOn, RunsInv, Settlement!TypeOK
    <3>2. nodes[manifest].cut \in SUBSET Settlement!Runs
      BY <3>1 DEF RunsInv, Settlement!TypeOK, Settlement!Node
    <3>3. nodes[manifest].cut \subseteq ledger /\ \A r \in nodes[manifest].cut : manifest \notin met[r]
      BY <3>1 DEF RunsInv, CutsAreMarked
    <3> QED  BY <1>1, <2>1, <3>1, <3>2, <3>3 DEF Uncontended, Settlement!Capture
  <2>3. CASE Settlement!BeginCapture
    BY <1>2, <2>1, <2>3 DEF Settlement!BeginCapture, Settlement!ReadOn, Uncontended
  <2>4. CASE Settlement!ReadLedger \/ Settlement!ReadManifestAgain
    BY <2>1, <2>4 DEF Settlement!ReadLedger, Settlement!ReadManifestAgain, Settlement!ReadOn
  <2>5. CASE Settlement!AcceptCapture
    <3>1. captured' = seen /\ seen' = None /\ reader' = "idle"
      BY <2>5 DEF Settlement!AcceptCapture, Settlement!ReadOn
    <3> QED  BY <1>1, <2>1, <3>1 DEF RunsInv, Uncontended
  <2>6. CASE Settlement!EndAttempt
    BY <1>2, <2>1, <2>6 DEF Settlement!EndAttempt, Settlement!ReadOn, Uncontended
  <2> QED  BY <2>2, <2>3, <2>4, <2>5, <2>6 DEF Settlement!Reader
<1>4. Settlement!TypeOK'
  BY <1>1, <1>3 DEF RunsInv, Settlement!TypeOK
<1>5. RunsAreOwn' /\ OnlyStarted' /\ EarlyIsUnknown' /\ NotYetInLedger'
  BY <1>1 DEF RunsInv, RunsAreOwn, OnlyStarted, Started, EarlyIsUnknown, NotYetInLedger
<1>6. MarksBeforeRows' /\ CutsAreMarked'
  BY <1>1 DEF RunsInv, MarksBeforeRows, CutsAreMarked, Discharged
<1> QED  BY <1>3, <1>4, <1>5, <1>6 DEF RunsInv

LEMMA RunsInit ==
    ASSUME NoneIsNoRun, Settlement!Init
    PROVE  RunsInv
<1>1. /\ temp = None /\ manifest = None /\ ledger = {} /\ failed = {} /\ started = 0 /\ reader = "idle"
      /\ seen = None /\ captured = None
      /\ nodes = [r \in Settlement!Runs |-> Settlement!NoNode]
      /\ met = [r \in Settlement!Runs |-> {}]
      /\ \A p \in Processes : doing[p].stage = "idle"
  BY DEF Settlement!Init, Settlement!Idle
<1>2. Settlement!TypeOK
  <2>1. Settlement!NoNode \in Settlement!Node
    BY DEF Settlement!NoNode, Settlement!Node
  <2>2. doing \in [Processes -> [stage : Settlement!Stages, run : Settlement!Runs \cup {None},
                                 file : Settlement!Runs \cup {None}]]
    BY DEF Settlement!Init, Settlement!Idle, Settlement!Stages
  <2>3. started \in 0..MaxRuns
    BY <1>1 DEF NoneIsNoRun
  <2> QED  BY <1>1, <2>1, <2>2, <2>3 DEF Settlement!TypeOK
<1>3. RunsAreOwn /\ OnlyStarted /\ EarlyIsUnknown /\ NotYetInLedger
  BY <1>1 DEF RunsAreOwn, OnlyStarted, EarlyIsUnknown, NotYetInLedger, Early
<1>4. MarksBeforeRows
  BY <1>1 DEF MarksBeforeRows
<1>5. CutsAreMarked /\ Uncontended(seen) /\ Uncontended(captured)
  BY <1>1 DEF CutsAreMarked, Uncontended, Settlement!NoNode
<1> QED  BY <1>2, <1>3, <1>4, <1>5 DEF RunsInv

LEMMA RunsInvHolds == NoneIsNoRun /\ Settlement!Spec => []RunsInv
<1>1. NoneIsNoRun /\ Settlement!Init => RunsInv
  BY RunsInit
<1>2. NoneIsNoRun /\ RunsInv /\ [Settlement!Next]_Settlement!runVars => RunsInv'
  <2> SUFFICES ASSUME NoneIsNoRun, RunsInv, [Settlement!Next]_Settlement!runVars PROVE RunsInv'
    OBVIOUS
  <2>1. CASE Settlement!Reader
    BY <2>1, ReaderKeeps
  <2>2. ASSUME NEW p \in Processes, Settlement!Run(p) PROVE RunsInv'
    <3>1. CASE Settlement!Start(p)
      BY <3>1, StartKeeps
    <3>2. CASE Settlement!Lease(p)
      BY <3>2, AcquireKeeps, MeetKeeps
    <3>3. CASE Settlement!Inspect(p) \/ Settlement!Recheck(p) \/ Settlement!MarkContended(p)
      BY <3>3, InspectKeeps, RecheckKeeps, MarkContendedKeeps
    <3>4. CASE Settlement!Operate(p) \/ Settlement!CutLedger(p) \/ Settlement!WriteManifest(p)
      BY <3>4, OperateKeeps, CutLedgerKeeps, WriteManifestKeeps
    <3>5. CASE Settlement!Verify(p) \/ Settlement!Kill(p)
      BY <3>5, VerifyKeeps
    <3>6. CASE Settlement!Rename(p)
      BY <3>6, RenameKeeps
    <3> QED  BY <2>2, <3>1, <3>2, <3>3, <3>4, <3>5, <3>6 DEF Settlement!Run
  <2>3. CASE UNCHANGED Settlement!runVars
    <3>1. UNCHANGED <<temp, manifest, nodes, ledger, doing, failed, met, started, reader, seen, captured>>
      BY <2>3 DEF Settlement!runVars
    <3>2. Settlement!TypeOK' /\ RunsAreOwn' /\ OnlyStarted' /\ EarlyIsUnknown' /\ NotYetInLedger'
      BY <3>1 DEF RunsInv, Settlement!TypeOK, RunsAreOwn, OnlyStarted, Started, EarlyIsUnknown, NotYetInLedger
    <3> QED  BY <3>1, <3>2 DEF RunsInv, MarksBeforeRows, CutsAreMarked, Discharged, Uncontended
  <2> QED  BY <2>1, <2>2, <2>3 DEF Settlement!Next
<1>3. NoneIsNoRun => NoneIsNoRun'
  OBVIOUS
<1> QED  BY <1>1, <1>2, <1>3, PTL DEF Settlement!Spec

\* Every run, of every process, marks what it met or finds it renamed before it
\* appends, so a readable manifest covers none of its rows.
THEOREM NoCutUnderContentionHolds == NoneIsNoRun /\ Settlement!Spec => []NoCutUnderContention
<1>1. RunsInv => NoCutUnderContention
  BY DEF RunsInv, Uncontended, NoCutUnderContention, Settlement!NoCutUnderContention
<1> QED  BY <1>1, RunsInvHolds, PTL

-----------------------------------------------------------------------------
(* Task references, a call of a writer at a time.                          *)

\* A torn line is no line of a reference.
TornIsNoLine == TornLine \notin TaskRefs!RefLines /\ MaxRefFaults \in Nat

IsRefFile(file) == file \in Seq(TaskRefs!RefLines \cup {TornLine})

LineOf(w, r) == [ref |-> r, by |-> w]

InFiles == TaskRefs!Spelled(olderRefs) \cup TaskRefs!Spelled(refs)

WrittenNow == TaskRefs!Written(olderRefs) \cup TaskRefs!Written(refs)

\* A line behind the others.
LEMMA BehindWrites ==
    ASSUME NEW file, IsRefFile(file), NEW line \in TaskRefs!RefLines \cup {TornLine}
    PROVE  /\ IsRefFile(TaskRefs!Behind(file, line))
           /\ TaskRefs!Written(TaskRefs!Behind(file, line)) = TaskRefs!Written(file) \cup ({line} \ {TornLine})
           /\ DOMAIN file = 1..Len(file) /\ Len(file) \in Nat
           /\ DOMAIN TaskRefs!Behind(file, line) = 1..Len(file) + 1
           /\ \A i \in 1..Len(file) : TaskRefs!Behind(file, line)[i] = file[i]
           /\ TaskRefs!Behind(file, line)[Len(file) + 1] = line
<1> DEFINE longer == Append(file, line)
<1>1. TaskRefs!Behind(file, line) = longer
  BY DEF TaskRefs!Behind
<1>2. /\ longer \in Seq(TaskRefs!RefLines \cup {TornLine})
      /\ DOMAIN longer = 1..Len(file) + 1 /\ DOMAIN file = 1..Len(file) /\ Len(file) \in Nat
      /\ \A i \in 1..Len(file) : longer[i] = file[i]
      /\ longer[Len(file) + 1] = line
  BY DEF IsRefFile
<1> HIDE DEF longer
<1>3. {longer[i] : i \in DOMAIN longer} = {file[i] : i \in DOMAIN file} \cup {line}
  BY <1>2
<1>4. TaskRefs!Written(longer) = TaskRefs!Written(file) \cup ({line} \ {TornLine})
  BY <1>3 DEF TaskRefs!Written, TaskRefs!ToSet
<1> QED  BY <1>1, <1>2, <1>4 DEF IsRefFile

LEMMA NothingWritten == IsRefFile(<<>>) /\ TaskRefs!Written(<<>>) = {} /\ TaskRefs!Spelled(<<>>) = {}
BY DEF IsRefFile, TaskRefs!Written, TaskRefs!Spelled, TaskRefs!ToSet

LEMMA WrittenAreLines ==
    ASSUME NEW file, IsRefFile(file)
    PROVE  TaskRefs!Written(file) \subseteq TaskRefs!RefLines /\ TaskRefs!Spelled(file) \subseteq Refs
<1>1. \A i \in DOMAIN file : file[i] \in TaskRefs!RefLines \cup {TornLine}
  BY DEF IsRefFile
<1>2. TaskRefs!Written(file) \subseteq TaskRefs!RefLines
  BY <1>1 DEF TaskRefs!Written, TaskRefs!ToSet
<1> QED  BY <1>2 DEF TaskRefs!Spelled, TaskRefs!RefLines

\* The files a call starts from, and how far it gets with them.
BeginsWith(begun, moved) ==
    \/ ~TaskRefs!Full /\ begun = refs /\ moved = olderRefs
    \/ TaskRefs!Full /\ begun = <<>> /\ moved = refs

Reaches(left, begun, moved, line) ==
    \/ left = <<refs, olderRefs>>
    \/ left = <<begun, moved>>
    \/ left = <<TaskRefs!Behind(begun, TornLine), moved>>
    \/ left = <<TaskRefs!Behind(begun, line), moved>>
    \/ TaskRefs!Full /\ left = <<refs, <<>>>>

LEMMA AttemptsAre ==
    ASSUME NEW w, NEW r, NEW left \in TaskRefs!Attempts(w, r)
    PROVE  \E begun, moved : BeginsWith(begun, moved) /\ Reaches(left, begun, moved, LineOf(w, r))
<1> WITNESS IF TaskRefs!Full THEN <<>> ELSE refs, IF TaskRefs!Full THEN refs ELSE olderRefs
<1> QED  BY DEF TaskRefs!Attempts, LineOf, BeginsWith, Reaches

LEMMA RefsTypeStep ==
    ASSUME MaxRefFaults \in Nat, TaskRefs!TypeOK, [TaskRefs!Next]_TaskRefs!refVars
    PROVE  TaskRefs!TypeOK'
<1>1. /\ IsRefFile(refs) /\ IsRefFile(olderRefs)
      /\ ids \in [RefWriters -> (SUBSET Refs) \cup {Unloaded}] /\ acknowledged \subseteq Refs
      /\ refFaults \in 0..MaxRefFaults
  BY DEF TaskRefs!TypeOK, IsRefFile
<1>2. /\ TaskRefs!Spelled(refs) \subseteq Refs /\ TaskRefs!Spelled(olderRefs) \subseteq Refs /\ IsRefFile(<<>>)
      /\ \A w \in RefWriters : TaskRefs!Seen(w) \subseteq Refs
  BY <1>1, WrittenAreLines, NothingWritten DEF TaskRefs!Seen
<1>3. ASSUME NEW w \in RefWriters, NEW r \in Refs, NEW left \in TaskRefs!Attempts(w, r)
      PROVE  IsRefFile(left[1]) /\ IsRefFile(left[2])
  <2>1. LineOf(w, r) \in TaskRefs!RefLines \cup {TornLine}
    BY DEF LineOf, TaskRefs!RefLines
  <2>2. PICK begun, moved : BeginsWith(begun, moved) /\ Reaches(left, begun, moved, LineOf(w, r))
    BY AttemptsAre
  <2>3. IsRefFile(begun) /\ IsRefFile(moved)
    BY <1>1, <1>2, <2>2 DEF BeginsWith
  <2>4. IsRefFile(TaskRefs!Behind(begun, TornLine)) /\ IsRefFile(TaskRefs!Behind(begun, LineOf(w, r)))
    BY <2>1, <2>3, BehindWrites
  <2> QED  BY <1>1, <1>2, <2>2, <2>3, <2>4 DEF Reaches
<1>4. ASSUME NEW w \in RefWriters, NEW r \in Refs, TaskRefs!AppendTaskRef(w, r) PROVE TaskRefs!TypeOK'
  <2>1. <<refs', olderRefs'>> \in TaskRefs!Attempts(w, r)
    BY <1>4 DEF TaskRefs!AppendTaskRef, TaskRefs!Attempts
  <2>2. IsRefFile(refs') /\ IsRefFile(olderRefs')
    BY <1>3, <2>1
  <2>3. TaskRefs!Remembered(w, r) \in SUBSET Refs
    BY <1>2 DEF TaskRefs!Remembered
  <2>4. ids' \in [RefWriters -> (SUBSET Refs) \cup {Unloaded}]
    BY <1>1, <1>4, <2>3 DEF TaskRefs!AppendTaskRef
  <2>5. acknowledged' \subseteq Refs /\ refFaults' = refFaults
    BY <1>1, <1>4 DEF TaskRefs!AppendTaskRef
  <2> QED  BY <1>1, <2>2, <2>4, <2>5 DEF TaskRefs!TypeOK, IsRefFile
<1>5. ASSUME NEW w \in RefWriters, NEW r \in Refs, TaskRefs!RefuseTaskRef(w, r) PROVE TaskRefs!TypeOK'
  BY <1>1, <1>2, <1>5 DEF TaskRefs!RefuseTaskRef, TaskRefs!TypeOK, IsRefFile
<1>6. ASSUME NEW w \in RefWriters, NEW r \in Refs, TaskRefs!TaskRefFails(w, r) PROVE TaskRefs!TypeOK'
  <2>1. IsRefFile(refs') /\ IsRefFile(olderRefs')
    BY <1>3, <1>6 DEF TaskRefs!TaskRefFails
  <2>2. TaskRefs!Spelled(refs') \cup TaskRefs!Spelled(olderRefs') \in SUBSET Refs
    BY <2>1, WrittenAreLines
  <2>3. ids' \in [RefWriters -> (SUBSET Refs) \cup {Unloaded}]
    BY <1>1, <1>6, <2>2 DEF TaskRefs!TaskRefFails
  <2>4. acknowledged' \subseteq Refs /\ refFaults' \in 0..MaxRefFaults
    BY <1>1, <1>6 DEF TaskRefs!TaskRefFails
  <2> QED  BY <2>1, <2>3, <2>4 DEF TaskRefs!TypeOK, IsRefFile
<1>7. CASE TaskRefs!RestartWriters
  BY <1>1, <1>7 DEF TaskRefs!RestartWriters, TaskRefs!TypeOK, IsRefFile
<1>8. CASE UNCHANGED TaskRefs!refVars
  BY <1>8 DEF TaskRefs!refVars, TaskRefs!TypeOK
<1> QED  BY <1>4, <1>5, <1>6, <1>7, <1>8 DEF TaskRefs!Next

LEMMA RefsTypeHolds == MaxRefFaults \in Nat /\ TaskRefs!Spec => []TaskRefs!TypeOK
<1>1. (MaxRefFaults \in Nat) => (MaxRefFaults \in Nat)'
  OBVIOUS
<1>2. MaxRefFaults \in Nat /\ TaskRefs!Init => TaskRefs!TypeOK
  BY DEF TaskRefs!Init, TaskRefs!TypeOK
<1>3. MaxRefFaults \in Nat /\ TaskRefs!TypeOK /\ [TaskRefs!Next]_TaskRefs!refVars => TaskRefs!TypeOK'
  BY RefsTypeStep
<1> QED  BY <1>1, <1>2, <1>3, PTL DEF TaskRefs!Spec

\* The file holds no line of a writer twice.
NoneTwice(file) == \A i, j \in DOMAIN file : file[i] # TornLine /\ file[i] = file[j] => i = j

NoLineTwice ==
    /\ NoneTwice(olderRefs) /\ NoneTwice(refs)
    /\ TaskRefs!Written(olderRefs) \cap TaskRefs!Written(refs) = {}

\* What a writer has in the files it knows, whatever other writers appended,
\* moved and removed since it read them.
IdsAreOwn == \A line \in WrittenNow : line.ref \in TaskRefs!Seen(line.by)

RefsInv == NoLineTwice /\ IdsAreOwn /\ acknowledged \subseteq InFiles

\* What a call may make of the files: lines that were there, without repetition,
\* and perhaps its own.
FilesAfter(line) ==
    /\ NoLineTwice'
    /\ WrittenNow' \subseteq WrittenNow \cup {line}
    /\ \/ olderRefs' = olderRefs /\ TaskRefs!Written(refs) \subseteq TaskRefs!Written(refs)'
       \/ TaskRefs!Full /\ TaskRefs!Written(refs) \subseteq WrittenNow'

LEMMA BehindRepeatsNothing ==
    ASSUME NEW file, IsRefFile(file), NEW line \in TaskRefs!RefLines \cup {TornLine},
           NoneTwice(file), line \notin TaskRefs!Written(file)
    PROVE  NoneTwice(TaskRefs!Behind(file, line))
<1> DEFINE longer == TaskRefs!Behind(file, line)
<1>1. /\ DOMAIN longer = 1..Len(file) + 1 /\ DOMAIN file = 1..Len(file) /\ Len(file) \in Nat
      /\ \A i \in 1..Len(file) : longer[i] = file[i]
      /\ longer[Len(file) + 1] = line
  BY BehindWrites
<1>2. \A i \in 1..Len(file) : line # TornLine => file[i] # line
  BY <1>1 DEF TaskRefs!Written, TaskRefs!ToSet
<1> HIDE DEF longer
<1>3. NoneTwice(longer)
  BY <1>1, <1>2 DEF NoneTwice
<1> QED  BY <1>3 DEF longer

LEMMA AttemptsRepeatNothing ==
    ASSUME TornIsNoLine, TaskRefs!TypeOK, NoLineTwice, NEW w \in RefWriters, NEW r \in Refs,
           LineOf(w, r) \notin WrittenNow, NEW left \in TaskRefs!Attempts(w, r),
           refs' = left[1], olderRefs' = left[2]
    PROVE  FilesAfter(LineOf(w, r))
<1> DEFINE line == LineOf(w, r)
<1>1. line \in TaskRefs!RefLines /\ line # TornLine /\ IsRefFile(refs) /\ IsRefFile(olderRefs)
  BY DEF LineOf, TaskRefs!RefLines, TornIsNoLine, TaskRefs!TypeOK, IsRefFile
<1>2. PICK begun, moved : BeginsWith(begun, moved) /\ Reaches(left, begun, moved, line)
  BY AttemptsAre
<1>3. NoneTwice(<<>>)
  BY DEF NoneTwice
<1>4. /\ IsRefFile(begun) /\ NoneTwice(begun) /\ NoneTwice(moved)
      /\ TaskRefs!Written(begun) \cap TaskRefs!Written(moved) = {}
      /\ TaskRefs!Written(begun) \cup TaskRefs!Written(moved) \subseteq WrittenNow
      /\ TaskRefs!Written(refs) \subseteq TaskRefs!Written(begun) \cup TaskRefs!Written(moved)
  BY <1>1, <1>2, <1>3, NothingWritten DEF NoLineTwice, WrittenNow, BeginsWith
<1>5. /\ NoneTwice(TaskRefs!Behind(begun, TornLine))
      /\ TaskRefs!Written(TaskRefs!Behind(begun, TornLine)) = TaskRefs!Written(begun)
  <2>1. TornLine \notin TaskRefs!Written(begun)
    BY DEF TaskRefs!Written
  <2>2. NoneTwice(TaskRefs!Behind(begun, TornLine))
    BY <1>4, <2>1, BehindRepeatsNothing
  <2>3. TaskRefs!Written(TaskRefs!Behind(begun, TornLine)) = TaskRefs!Written(begun) \cup ({TornLine} \ {TornLine})
    BY <1>4, BehindWrites
  <2> QED  BY <2>2, <2>3
<1>6. /\ NoneTwice(TaskRefs!Behind(begun, line))
      /\ TaskRefs!Written(TaskRefs!Behind(begun, line)) = TaskRefs!Written(begun) \cup {line}
  <2>1. line \notin TaskRefs!Written(begun)
    BY <1>4
  <2> QED  BY <1>1, <1>4, <2>1, BehindRepeatsNothing, BehindWrites
<1> HIDE DEF line
<1>7. line \notin WrittenNow
  BY DEF line
<1>8. FilesAfter(line)
  <2>1. CASE left = <<refs, olderRefs>>
    BY <2>1 DEF FilesAfter, NoLineTwice, WrittenNow, BeginsWith
  <2>2. CASE left = <<begun, moved>>
    BY <1>2, <1>4, <2>2 DEF FilesAfter, NoLineTwice, WrittenNow, BeginsWith
  <2>3. CASE left = <<TaskRefs!Behind(begun, TornLine), moved>>
    BY <1>2, <1>4, <1>5, <2>3 DEF FilesAfter, NoLineTwice, WrittenNow, BeginsWith
  <2>4. CASE left = <<TaskRefs!Behind(begun, line), moved>>
    BY <1>2, <1>4, <1>6, <1>7, <2>4 DEF FilesAfter, NoLineTwice, WrittenNow, BeginsWith
  <2>5. CASE TaskRefs!Full /\ left = <<refs, <<>>>>
    BY <1>3, <2>5, NothingWritten DEF FilesAfter, NoLineTwice, WrittenNow, BeginsWith
  <2> QED  BY <1>2, <2>1, <2>2, <2>3, <2>4, <2>5 DEF Reaches
<1> QED  BY <1>8 DEF line

\* A writer that was not called knows its lines: the call wrote none of them.
LEMMA OthersStayCurrent ==
    ASSUME RefsInv, NEW w \in RefWriters, NEW r \in Refs, WrittenNow' \subseteq WrittenNow \cup {LineOf(w, r)},
           \A v \in RefWriters \ {w} : ids'[v] = ids[v],
           WrittenNow' \subseteq TaskRefs!RefLines,
           \A line \in WrittenNow' : line.by = w => line.ref \in TaskRefs!Seen(w)'
    PROVE  IdsAreOwn'
<1> SUFFICES ASSUME NEW line \in WrittenNow', line.by # w PROVE line.ref \in TaskRefs!Seen(line.by)'
  BY DEF IdsAreOwn
<1>1. line.by \in RefWriters \ {w} /\ line # LineOf(w, r)
  BY DEF TaskRefs!RefLines, LineOf
<1>2. line.ref \in TaskRefs!Seen(line.by)
  BY <1>1 DEF RefsInv, IdsAreOwn
<1>3. ids'[line.by] = ids[line.by]
  BY <1>1
<1>4. CASE ids[line.by] = Unloaded
  <2>1. line.ref \in InFiles'
    BY DEF InFiles, WrittenNow, TaskRefs!Spelled
  <2> QED  BY <1>3, <1>4, <2>1 DEF TaskRefs!Seen, InFiles
<1>5. CASE ids[line.by] # Unloaded
  BY <1>2, <1>3, <1>5 DEF TaskRefs!Seen
<1> QED  BY <1>4, <1>5

LEMMA WrittenIsSpelled ==
    /\ \A line \in WrittenNow : line.ref \in InFiles
    /\ \A r \in InFiles : \E line \in WrittenNow : line.ref = r
BY DEF WrittenNow, InFiles, TaskRefs!Spelled

LEMMA AppendTaskRefKeeps ==
    ASSUME TornIsNoLine, TaskRefs!TypeOK, TaskRefs!TypeOK', RefsInv,
           NEW w \in RefWriters, NEW r \in Refs, TaskRefs!AppendTaskRef(w, r)
    PROVE  RefsInv'
<1>1. /\ r \notin TaskRefs!Seen(w)
      /\ refs' = TaskRefs!Behind(IF TaskRefs!Full THEN <<>> ELSE refs, LineOf(w, r))
      /\ olderRefs' = IF TaskRefs!Full THEN refs ELSE olderRefs
      /\ ids' = [ids EXCEPT ![w] = TaskRefs!Remembered(w, r)]
      /\ acknowledged' = (acknowledged \ (IF TaskRefs!Full THEN TaskRefs!Spelled(olderRefs) ELSE {})) \cup {r}
  BY DEF TaskRefs!AppendTaskRef, LineOf
<1>2. LineOf(w, r) \notin WrittenNow /\ LineOf(w, r).ref = r /\ LineOf(w, r).by = w
  BY <1>1 DEF RefsInv, IdsAreOwn, LineOf
<1>3. FilesAfter(LineOf(w, r))
  <2>1. <<refs', olderRefs'>> \in TaskRefs!Attempts(w, r)
    BY <1>1 DEF TaskRefs!Attempts, LineOf
  <2> QED  BY <1>2, <2>1, AttemptsRepeatNothing DEF RefsInv
<1>4. ids'[w] = TaskRefs!Remembered(w, r) /\ \A v \in RefWriters \ {w} : ids'[v] = ids[v]
  BY <1>1 DEF TaskRefs!TypeOK
<1>5. /\ IsRefFile(refs) /\ IsRefFile(refs') /\ IsRefFile(olderRefs')
      /\ LineOf(w, r) \in TaskRefs!RefLines /\ LineOf(w, r) # TornLine
  BY DEF TaskRefs!TypeOK, IsRefFile, LineOf, TaskRefs!RefLines, TornIsNoLine
<1>6. /\ TaskRefs!Written(refs)' = (IF TaskRefs!Full THEN {} ELSE TaskRefs!Written(refs)) \cup {LineOf(w, r)}
      /\ TaskRefs!Written(olderRefs)' = IF TaskRefs!Full THEN TaskRefs!Written(refs) ELSE TaskRefs!Written(olderRefs)
  <2> DEFINE begun == IF TaskRefs!Full THEN <<>> ELSE refs
  <2>1. /\ IsRefFile(begun)
        /\ TaskRefs!Written(begun) = IF TaskRefs!Full THEN {} ELSE TaskRefs!Written(refs)
    BY <1>5, NothingWritten
  <2>2. refs' = TaskRefs!Behind(begun, LineOf(w, r))
    BY <1>1
  <2> HIDE DEF begun
  <2>3. TaskRefs!Written(refs') = TaskRefs!Written(begun) \cup {LineOf(w, r)}
    BY <1>5, <2>1, <2>2, BehindWrites
  <2>4. TaskRefs!Written(olderRefs') = IF TaskRefs!Full THEN TaskRefs!Written(refs) ELSE TaskRefs!Written(olderRefs)
    BY <1>1
  <2> QED  BY <2>1, <2>3, <2>4
<1>7. \A line \in WrittenNow' : line.by = w => line.ref \in TaskRefs!Seen(w)'
  <2> SUFFICES ASSUME NEW line \in WrittenNow', line.by = w PROVE line.ref \in TaskRefs!Seen(w)'
    OBVIOUS
  <2>1. line.ref \in TaskRefs!Remembered(w, r)
    <3>1. CASE line = LineOf(w, r)
      BY <1>2, <3>1 DEF TaskRefs!Remembered
    <3>2. CASE line # LineOf(w, r) /\ TaskRefs!Full
      BY <1>6, <3>2 DEF WrittenNow, TaskRefs!Remembered, TaskRefs!Spelled
    <3>3. CASE line # LineOf(w, r) /\ ~TaskRefs!Full
      BY <1>6, <3>3 DEF WrittenNow, TaskRefs!Remembered, RefsInv, IdsAreOwn
    <3> QED  BY <3>1, <3>2, <3>3
  <2>2. line.ref \in InFiles'
    BY DEF InFiles, WrittenNow, TaskRefs!Spelled
  <2> QED  BY <1>4, <2>1, <2>2 DEF TaskRefs!Seen, InFiles
<1>8. WrittenNow' \subseteq TaskRefs!RefLines
  BY <1>5, WrittenAreLines DEF WrittenNow
<1>9. IdsAreOwn'
  BY <1>3, <1>4, <1>7, <1>8, OthersStayCurrent DEF FilesAfter
<1>10. acknowledged' \subseteq InFiles'
  <2>1. /\ TaskRefs!Spelled(refs)' = (IF TaskRefs!Full THEN {} ELSE TaskRefs!Spelled(refs)) \cup {r}
        /\ TaskRefs!Spelled(olderRefs)' = IF TaskRefs!Full THEN TaskRefs!Spelled(refs) ELSE TaskRefs!Spelled(olderRefs)
    BY <1>2, <1>6 DEF TaskRefs!Spelled
  <2> QED  BY <1>1, <2>1 DEF InFiles, RefsInv
<1> QED  BY <1>3, <1>9, <1>10 DEF FilesAfter, RefsInv

LEMMA RefuseTaskRefKeeps ==
    ASSUME TaskRefs!TypeOK, RefsInv, NEW w \in RefWriters, NEW r \in Refs, TaskRefs!RefuseTaskRef(w, r)
    PROVE  RefsInv'
<1>1. ids' = [ids EXCEPT ![w] = TaskRefs!Seen(w)] /\ UNCHANGED <<refs, olderRefs, acknowledged>>
  BY DEF TaskRefs!RefuseTaskRef
<1>2. \A v \in RefWriters : ids'[v] = ids[v] \/ ids'[v] = TaskRefs!Seen(v)
  BY <1>1 DEF TaskRefs!TypeOK
<1>3. WrittenNow' = WrittenNow /\ InFiles' = InFiles /\ NoLineTwice'
  BY <1>1 DEF WrittenNow, InFiles, RefsInv, NoLineTwice
<1>4. WrittenNow \subseteq TaskRefs!RefLines
  BY WrittenAreLines DEF WrittenNow, TaskRefs!TypeOK, IsRefFile
<1>5. ASSUME NEW line \in WrittenNow PROVE line.ref \in TaskRefs!Seen(line.by)'
  <2>1. line.by \in RefWriters /\ line.ref \in TaskRefs!Seen(line.by) /\ line.ref \in InFiles
    BY <1>4, <1>5, WrittenIsSpelled DEF RefsInv, IdsAreOwn, TaskRefs!RefLines
  <2> QED  BY <1>1, <1>2, <2>1 DEF TaskRefs!Seen, InFiles
<1> QED  BY <1>1, <1>3, <1>5 DEF RefsInv, IdsAreOwn

LEMMA TaskRefFailsKeeps ==
    ASSUME TornIsNoLine, TaskRefs!TypeOK, TaskRefs!TypeOK', RefsInv,
           NEW w \in RefWriters, NEW r \in Refs, TaskRefs!TaskRefFails(w, r)
    PROVE  RefsInv'
<1>1. /\ r \notin TaskRefs!Seen(w)
      /\ \E left \in TaskRefs!Attempts(w, r) : refs' = left[1] /\ olderRefs' = left[2]
      /\ ids' \in {[ids EXCEPT ![w] = Unloaded],
                   [ids EXCEPT ![w] = TaskRefs!Spelled(refs') \cup TaskRefs!Spelled(olderRefs')]}
      /\ acknowledged' = IF olderRefs' = olderRefs THEN acknowledged ELSE acknowledged \ TaskRefs!Spelled(olderRefs)
  BY DEF TaskRefs!TaskRefFails
<1>2. LineOf(w, r) \notin WrittenNow
  BY <1>1 DEF RefsInv, IdsAreOwn, LineOf
<1>3. FilesAfter(LineOf(w, r))
  BY <1>1, <1>2, AttemptsRepeatNothing DEF RefsInv
<1>4. /\ \A v \in RefWriters \ {w} : ids'[v] = ids[v]
      /\ ids'[w] = Unloaded \/ ids'[w] = TaskRefs!Spelled(refs') \cup TaskRefs!Spelled(olderRefs')
  BY <1>1 DEF TaskRefs!TypeOK
<1>5. TaskRefs!Seen(w)' = InFiles'
  BY <1>4 DEF TaskRefs!Seen, InFiles
<1>6. /\ \A line \in WrittenNow' : line.ref \in InFiles'
      /\ WrittenNow' \subseteq TaskRefs!RefLines
  <2>1. IsRefFile(refs') /\ IsRefFile(olderRefs')
    BY DEF TaskRefs!TypeOK, IsRefFile
  <2> QED  BY <2>1, WrittenAreLines DEF WrittenNow, InFiles, TaskRefs!Spelled
<1>7. IdsAreOwn'
  BY <1>3, <1>4, <1>5, <1>6, OthersStayCurrent DEF FilesAfter
<1>8. acknowledged' \subseteq InFiles'
  <2>1. CASE olderRefs' = olderRefs /\ TaskRefs!Written(refs) \subseteq TaskRefs!Written(refs)'
    BY <1>1, <2>1 DEF InFiles, RefsInv, TaskRefs!Spelled
  <2>2. CASE TaskRefs!Written(refs) \subseteq WrittenNow'
    <3>1. TaskRefs!Spelled(refs) \subseteq InFiles'
      BY <1>6, <2>2 DEF TaskRefs!Spelled
    <3>2. CASE olderRefs' = olderRefs
      BY <1>1, <3>1, <3>2 DEF InFiles, RefsInv
    <3>3. CASE olderRefs' # olderRefs
      BY <1>1, <3>1, <3>3 DEF InFiles, RefsInv
    <3> QED  BY <3>2, <3>3
  <2> QED  BY <1>3, <2>1, <2>2 DEF FilesAfter
<1> QED  BY <1>3, <1>7, <1>8 DEF FilesAfter, RefsInv

LEMMA RefsStep ==
    ASSUME TornIsNoLine, TaskRefs!TypeOK, TaskRefs!TypeOK', RefsInv, [TaskRefs!Next]_TaskRefs!refVars
    PROVE  RefsInv'
<1>1. ASSUME NEW w \in RefWriters, NEW r \in Refs,
             TaskRefs!AppendTaskRef(w, r) \/ TaskRefs!RefuseTaskRef(w, r) \/ TaskRefs!TaskRefFails(w, r)
      PROVE  RefsInv'
  BY <1>1, AppendTaskRefKeeps, RefuseTaskRefKeeps, TaskRefFailsKeeps
<1>2. ASSUME UNCHANGED <<refs, olderRefs, acknowledged>>,
             ids' = ids \/ ids' = [w \in RefWriters |-> Unloaded]
      PROVE  RefsInv'
  <2>1. WrittenNow' = WrittenNow /\ InFiles' = InFiles /\ NoLineTwice'
    BY <1>2 DEF WrittenNow, InFiles, RefsInv, NoLineTwice
  <2>2. WrittenNow \subseteq TaskRefs!RefLines
    BY WrittenAreLines DEF WrittenNow, TaskRefs!TypeOK, IsRefFile
  <2>3. ASSUME NEW line \in WrittenNow PROVE line.ref \in TaskRefs!Seen(line.by)'
    <3>1. line.by \in RefWriters /\ line.ref \in TaskRefs!Seen(line.by) /\ line.ref \in InFiles
      BY <2>2, <2>3, WrittenIsSpelled DEF RefsInv, IdsAreOwn, TaskRefs!RefLines
    <3> QED  BY <1>2, <3>1 DEF TaskRefs!Seen, InFiles
  <2> QED  BY <1>2, <2>1, <2>3 DEF RefsInv, IdsAreOwn
<1>3. CASE TaskRefs!RestartWriters
  BY <1>2, <1>3 DEF TaskRefs!RestartWriters
<1>4. CASE UNCHANGED TaskRefs!refVars
  BY <1>2, <1>4 DEF TaskRefs!refVars
<1> QED  BY <1>1, <1>3, <1>4 DEF TaskRefs!Next

LEMMA RefsInvHolds == TornIsNoLine /\ TaskRefs!Spec => [](RefsInv /\ TaskRefs!TypeOK)
<1>1. TornIsNoLine => TornIsNoLine' /\ MaxRefFaults \in Nat
  BY DEF TornIsNoLine
<1>2. TaskRefs!Init => RefsInv
  BY NothingWritten
     DEF TaskRefs!Init, RefsInv, NoLineTwice, NoneTwice, WrittenNow, IdsAreOwn, InFiles
<1>3. TornIsNoLine /\ TaskRefs!TypeOK /\ TaskRefs!TypeOK' /\ RefsInv /\ [TaskRefs!Next]_TaskRefs!refVars => RefsInv'
  BY RefsStep
<1> QED  BY <1>1, <1>2, <1>3, RefsTypeHolds, PTL DEF TaskRefs!Spec

\* Two places of the two files that hold one line are one place.
LEMMA PlacesAreOne ==
    ASSUME TaskRefs!TypeOK, NoLineTwice, NEW line, line # TornLine
    PROVE  \A i, j \in DOMAIN TaskRefs!Both : TaskRefs!Both[i] = line /\ TaskRefs!Both[j] = line => i = j
<1> DEFINE n == Len(olderRefs)
           m == Len(refs)
           both == olderRefs \o refs
<1>1. /\ n \in Nat /\ m \in Nat /\ DOMAIN olderRefs = 1..n /\ DOMAIN refs = 1..m /\ DOMAIN both = 1..n + m
      /\ \A i \in 1..n : both[i] = olderRefs[i]
      /\ \A i \in n + 1..n + m : both[i] = refs[i - n]
  BY DEF TaskRefs!TypeOK
<1>2. TaskRefs!Both = both
  BY DEF TaskRefs!Both
<1> HIDE DEF n, m, both
<1>3. ASSUME NEW i \in 1..n, NEW j \in 1..m, olderRefs[i] = line, refs[j] = line PROVE FALSE
  BY <1>1, <1>3 DEF NoLineTwice, TaskRefs!Written, TaskRefs!ToSet
<1>4. \A i, j \in 1..n : olderRefs[i] = line /\ olderRefs[j] = line => i = j
  BY <1>1 DEF NoLineTwice, NoneTwice
<1>5. \A i, j \in 1..m : refs[i] = line /\ refs[j] = line => i = j
  BY <1>1 DEF NoLineTwice, NoneTwice
<1>6. SUFFICES ASSUME NEW i \in 1..n + m, NEW j \in 1..n + m, both[i] = line, both[j] = line PROVE i = j
  BY <1>1, <1>2
<1>7. CASE i \in 1..n /\ j \in 1..n
  BY <1>1, <1>4, <1>6, <1>7
<1>8. CASE i \in n + 1..n + m /\ j \in n + 1..n + m
  <2>1. i - n \in 1..m /\ j - n \in 1..m
    BY <1>1, <1>8
  <2>2. i - n = j - n
    BY <1>1, <1>5, <1>6, <1>8, <2>1
  <2> QED  BY <1>1, <2>2
<1>9. ASSUME NEW k \in 1..n, NEW l \in n + 1..n + m, both[k] = line, both[l] = line PROVE FALSE
  <2>1. l - n \in 1..m /\ olderRefs[k] = line /\ refs[l - n] = line
    BY <1>1, <1>9
  <2> QED  BY <1>3, <2>1
<1>10. i \in 1..n \/ i \in n + 1..n + m
  BY <1>1
<1>11. j \in 1..n \/ j \in n + 1..n + m
  BY <1>1
<1> QED  BY <1>6, <1>7, <1>8, <1>9, <1>10, <1>11

\* A writer repeats no line, whatever references other writers are handed, how
\* often they rotate the files behind its back, and whatever failed or restarted
\* in between; and an accepted reference is spelled until a rotation removes it
\* (commerce-outcome-binding.mjs:701, 704).  How the offers are shared out is
\* left open.
THEOREM OneLinePerWriterHolds == TornIsNoLine /\ TaskRefs!Spec => []OneLinePerWriter
<1>1. TornIsNoLine => TornIsNoLine'
  BY DEF TornIsNoLine
<1>2. TornIsNoLine /\ TaskRefs!TypeOK /\ RefsInv => OneLinePerWriter
  <2> SUFFICES ASSUME TornIsNoLine, TaskRefs!TypeOK, RefsInv PROVE TaskRefs!OneLinePerWriter
    BY DEF OneLinePerWriter
  <2>1. ASSUME NEW line \in TaskRefs!RefLines
        PROVE  TaskRefs!Cardinality({i \in DOMAIN TaskRefs!Both : TaskRefs!Both[i] = line}) <= 1
    <3> DEFINE places == {i \in DOMAIN TaskRefs!Both : TaskRefs!Both[i] = line}
    <3>1. line # TornLine
      BY <2>1 DEF TornIsNoLine
    <3>2. \A i, j \in places : i = j
      BY <3>1, PlacesAreOne DEF RefsInv
    <3> HIDE DEF places
    <3>3. places = {} \/ \E i : places = {i}
      BY <3>2
    <3>4. Cardinality(places) \in {0, 1}
      BY <3>3, FS_EmptySet, FS_Singleton
    <3>5. Cardinality(places) <= 1
      BY <3>4
    <3> QED  BY <3>5 DEF places, TaskRefs!Cardinality, Cardinality
  <2> QED  BY <2>1 DEF TaskRefs!OneLinePerWriter, RefsInv, InFiles
<1> QED  BY <1>1, <1>2, RefsInvHolds, PTL

-----------------------------------------------------------------------------
(* Segments of the event journal.                                          *)

\* The retention keeps at least the current file.
RetentionIsFinite ==
    LastSegment \in Nat /\ MaxEvents \in Nat /\ MaxTime \in Nat /\ MaxSegmentFaults \in Nat

SegmentsAre(s) == s \in [Events!Slots -> Events!File(Events!Event)]

\* Events are in the files in the order of their appends.
SegmentsInv ==
    /\ Events!TypeOK
    /\ \A i \in Events!Slots : \A e \in segments[i].lines : e.number <= appended
    /\ \A i, j \in Events!Slots : i < j =>
          \A old \in segments[j].lines, new \in segments[i].lines : old.number < new.number

LEMMA NoSegmentIsFile ==
    /\ Events!NoSegment \in Events!File(Events!Event) /\ Events!NoSegment.lines = {}
    /\ Events!Blank \in Events!File(Events!Event) /\ Events!Blank.lines = {}
BY DEF Events!NoSegment, Events!Blank, Events!File

\* What a rotation makes of the files, wherever it stops: those up to k stay,
\* the others are moved by one, and of these the last ones may be dropped, when
\* they are proven to be older.
Rearranged(after, k) ==
    \A m \in Events!Slots :
        /\ m < k => after[m] = segments[m]
        /\ m = k => after[m] = Events!NoSegment
        /\ m > k => \/ after[m] = segments[m - 1]
                    \/ \A j \in m..LastSegment :
                          /\ after[j] = Events!NoSegment
                          /\ ~Events!Present(segments[j - 1]) \/ Events!ProvenOlder(segments[j - 1])

LEMMA NothingMoves ==
    ASSUME RetentionIsFinite, SegmentsInv
    PROVE  SegmentsAre(segments) /\ Rearranged(segments, LastSegment + 1)
BY DEF RetentionIsFinite, SegmentsInv, Events!TypeOK, SegmentsAre, Rearranged, Events!Slots

LEMMA ShiftRearranges ==
    ASSUME RetentionIsFinite, SegmentsInv, NEW k \in Events!Slots
    PROVE  SegmentsAre(Events!Shifted(segments, k)) /\ Rearranged(Events!Shifted(segments, k), k)
<1>1. SegmentsAre(segments)
  BY DEF SegmentsInv, Events!TypeOK, SegmentsAre
<1>2. \A i \in Events!Slots : i > k => i - 1 \in Events!Slots
  BY DEF RetentionIsFinite, Events!Slots
<1>3. \A i \in Events!Slots : Events!Shifted(segments, k)[i] =
         IF i > k THEN segments[i - 1] ELSE IF i = k THEN Events!NoSegment ELSE segments[i]
  BY DEF Events!Shifted
<1>4. SegmentsAre(Events!Shifted(segments, k))
  BY <1>1, <1>2, NoSegmentIsFile DEF SegmentsAre, Events!Shifted
<1>5. Rearranged(Events!Shifted(segments, k), k)
  BY <1>3 DEF Rearranged, Events!Slots, RetentionIsFinite
<1> QED  BY <1>4, <1>5

LEMMA DropRearranges ==
    ASSUME RetentionIsFinite, SegmentsInv, NEW k \in 1..LastSegment + 1
    PROVE  LET after == Events!Dropped(Events!Shifted(segments, 0), k)
           IN  SegmentsAre(after) /\ Rearranged(after, 0)
<1> DEFINE shifted == Events!Shifted(segments, 0)
           after == Events!Dropped(shifted, k)
<1>1. 0 \in Events!Slots /\ Events!Slots = 0..LastSegment
  BY DEF RetentionIsFinite, Events!Slots
<1>2. SegmentsAre(shifted) /\ Rearranged(shifted, 0)
  BY <1>1, ShiftRearranges
<1>3. \A i \in Events!Slots : i > 0 => shifted[i] = segments[i - 1]
  BY DEF Events!Shifted
<1> HIDE DEF shifted
<1>4. \A i \in Events!Slots :
         after[i] = IF i >= k /\ Events!Droppable(shifted, i) THEN Events!NoSegment ELSE shifted[i]
  BY DEF Events!Dropped
<1>5. SegmentsAre(after)
  BY <1>2, NoSegmentIsFile DEF SegmentsAre, Events!Dropped
<1> HIDE DEF after
<1>6. ASSUME NEW m \in Events!Slots, m >= k, Events!Droppable(shifted, m), NEW j \in m..LastSegment
      PROVE  /\ after[j] = Events!NoSegment
             /\ ~Events!Present(segments[j - 1]) \/ Events!ProvenOlder(segments[j - 1])
  <2>1. j \in Events!Slots /\ j >= k /\ j > 0 /\ j..LastSegment \subseteq m..LastSegment
    BY <1>1, <1>6 DEF RetentionIsFinite
  <2>2. Events!Droppable(shifted, j)
    BY <1>6, <2>1 DEF Events!Droppable
  <2> QED  BY <1>3, <1>4, <1>6, <2>1, <2>2 DEF Events!Droppable
<1>7. Rearranged(after, 0)
  <2> SUFFICES ASSUME NEW m \in Events!Slots
               PROVE  /\ m = 0 => after[m] = Events!NoSegment
                      /\ m > 0 => \/ after[m] = segments[m - 1]
                                  \/ \A j \in m..LastSegment :
                                        /\ after[j] = Events!NoSegment
                                        /\ ~Events!Present(segments[j - 1]) \/ Events!ProvenOlder(segments[j - 1])
    BY <1>1 DEF Rearranged
  <2>1. m = 0 => after[m] = Events!NoSegment
    BY <1>2, <1>4 DEF Rearranged
  <2>2. CASE m >= k /\ Events!Droppable(shifted, m)
    BY <1>6, <2>1, <2>2
  <2>3. CASE ~(m >= k /\ Events!Droppable(shifted, m))
    BY <1>3, <1>4, <2>1, <2>3
  <2> QED  BY <2>2, <2>3
<1> QED  BY <1>5, <1>7 DEF after, shifted

\* What is written to the current file adds e to it, and spoils its tail at most.
Receives(file, f, e) == f.lines \subseteq file.lines \cup {e} /\ file.lines \ file.tail \subseteq f.lines

LEMMA CutsReceive ==
    ASSUME NEW file \in Events!File(Events!Event), NEW e \in Events!Event, NEW f \in Events!Cuts(Events!Opened([m \in {0} |-> file]), e, FALSE)
    PROVE  f \in Events!File(Events!Event) /\ Receives(file, f, e)
<1> DEFINE o == IF Events!Present(file) THEN file ELSE Events!Blank
<1>1. Events!Opened([m \in {0} |-> file]) = o
  BY DEF Events!Opened
<1>2. o \in Events!File(Events!Event) /\ o.lines = file.lines /\ file.lines \ file.tail \subseteq o.lines \ o.tail
  BY NoSegmentIsFile DEF Events!Present, Events!Blank
<1> HIDE DEF o
<1>3. f \in {o, Events!Torn(o, FALSE), Events!Unterminated(o, e, FALSE), Events!Appended(o, e, FALSE)}
  BY <1>1 DEF Events!Cuts
<1>4. /\ Events!Extended(o, FALSE) \in {o.lines, o.lines \ o.tail}
      /\ Events!Spelled(o, e, FALSE) \subseteq {e}
      /\ o.size + 1 \in Nat
  BY <1>2 DEF Events!Extended, Events!Spelled, Events!File
<1>5. Events!Extended(o, FALSE) \subseteq Events!Event /\ Events!Spelled(o, e, FALSE) \subseteq Events!Event
  BY <1>2, <1>4 DEF Events!File
<1>6. CASE f = o
  BY <1>2, <1>6 DEF Receives
<1>7. CASE f = Events!Torn(o, FALSE)
  <2>1. f.lines = Events!Extended(o, FALSE) /\ f \in Events!File(Events!Event)
    BY <1>4, <1>5, <1>7 DEF Events!Torn, Events!File
  <2> QED  BY <1>2, <1>4, <2>1 DEF Receives
<1>8. CASE f = Events!Unterminated(o, e, FALSE) \/ f = Events!Appended(o, e, FALSE)
  <2> DEFINE more == Events!Extended(o, FALSE) \cup Events!Spelled(o, e, FALSE)
  <2>1. more \subseteq Events!Event /\ {} \subseteq Events!Event
    BY <1>5
  <2>2. f.lines = more
    <3> HIDE DEF more
    <3>1. CASE f = Events!Unterminated(o, e, FALSE)
      BY <3>1 DEF Events!Unterminated, more
    <3>2. CASE f = Events!Appended(o, e, FALSE)
      BY <3>2 DEF Events!Appended, more
    <3> QED  BY <1>8, <3>1, <3>2
  <2>3. f \in Events!File(Events!Event)
    <3> HIDE DEF more
    <3>1. CASE f = Events!Unterminated(o, e, FALSE)
      <4>1. f = [lines |-> more, tail |-> Events!Spelled(o, e, FALSE), open |-> TRUE, size |-> o.size + 1]
        BY <3>1 DEF Events!Unterminated, more
      <4> QED  BY <1>4, <1>5, <2>1, <4>1 DEF Events!File
    <3>2. CASE f = Events!Appended(o, e, FALSE)
      <4>1. f = [lines |-> more, tail |-> {}, open |-> FALSE, size |-> o.size + 1]
        BY <3>2 DEF Events!Appended, more
      <4> QED  BY <1>4, <2>1, <4>1 DEF Events!File
    <3> QED  BY <1>8, <3>1, <3>2
  <2> QED  BY <1>2, <1>4, <2>2, <2>3 DEF Receives
<1> QED  BY <1>3, <1>6, <1>7, <1>8

\* One append: the files rearranged, and e written to the current one or not.
Appends(after, k, e) ==
    /\ SegmentsAre(after) /\ Rearranged(after, k)
    /\ segments' \in [Events!Slots -> Events!File(Events!Event)]
    /\ \A m \in Events!Slots : m # 0 => segments'[m] = after[m]
    /\ Receives(after[0], segments'[0], e)
    /\ e.number = appended + 1

LEMMA WriteAppends ==
    ASSUME RetentionIsFinite, SegmentsInv, NEW e \in Events!Event, e.number = appended + 1,
           Events!AppendEvent(e) \/ Events!AppendFails(e)
    PROVE  \E after : \E k \in 0..LastSegment + 1 : Appends(after, k, e)
<1>1. 0 \in Events!Slots /\ Events!Slots = 0..LastSegment /\ LastSegment + 1 \in 0..LastSegment + 1
      /\ Events!Slots \subseteq 0..LastSegment + 1
  BY DEF RetentionIsFinite, Events!Slots
<1>2. ASSUME NEW after, NEW k \in 0..LastSegment + 1, SegmentsAre(after), Rearranged(after, k),
             segments' = after \/ \E f \in Events!Cuts(Events!Opened(after), e, FALSE) : segments' = [after EXCEPT ![0] = f]
      PROVE  Appends(after, k, e)
  <2>1. CASE segments' = after
    BY <1>2, <2>1 DEF Appends, Receives, SegmentsAre
  <2>2. ASSUME NEW f \in Events!Cuts(Events!Opened(after), e, FALSE), segments' = [after EXCEPT ![0] = f]
        PROVE  Appends(after, k, e)
    <3> DEFINE file == after[0]
    <3>1. file \in Events!File(Events!Event)
      BY <1>1, <1>2 DEF SegmentsAre
    <3>2. Events!Opened(after) = Events!Opened([m \in {0} |-> file])
      BY DEF Events!Opened
    <3> HIDE DEF file
    <3>3. f \in Events!File(Events!Event) /\ Receives(file, f, e)
      BY <2>2, <3>1, <3>2, CutsReceive
    <3> QED  BY <1>1, <1>2, <2>2, <3>3 DEF Appends, SegmentsAre, file
  <2> QED  BY <1>2, <2>1, <2>2
<1>3. \E k \in 0..LastSegment + 1 : SegmentsAre(Events!Rotated) /\ Rearranged(Events!Rotated, k)
  BY <1>1, NothingMoves, DropRearranges DEF Events!Rotated, RetentionIsFinite
<1>4. CASE Events!AppendEvent(e)
  <2>1. Events!Appended(Events!Opened(Events!Rotated), e, FALSE) \in Events!Cuts(Events!Opened(Events!Rotated), e, FALSE)
    BY DEF Events!Cuts
  <2> QED  BY <1>2, <1>3, <1>4, <2>1 DEF Events!AppendEvent
<1>5. CASE Events!AppendFails(e)
  <2> DEFINE shifted == Events!Shifted(segments, 0)
  <2>1. \/ segments' = segments
        \/ \E k \in Events!Slots : segments' = Events!Shifted(segments, k)
        \/ \E k \in 1..LastSegment + 1 : segments' = Events!Dropped(shifted, k)
        \/ \E f \in Events!Cuts(Events!Opened(Events!Rotated), e, FALSE) : segments' = [Events!Rotated EXCEPT ![0] = f]
    BY <1>5 DEF Events!AppendFails, Events!Stops
  <2>2. CASE segments' = segments
    BY <1>1, <1>2, <2>2, NothingMoves
  <2>3. ASSUME NEW k \in Events!Slots, segments' = Events!Shifted(segments, k) PROVE Appends(segments', k, e)
    <3>1. k \in 0..LastSegment + 1
      BY <1>1
    <3> QED  BY <1>2, <2>3, <3>1, ShiftRearranges
  <2>4. ASSUME NEW k \in 1..LastSegment + 1, segments' = Events!Dropped(shifted, k) PROVE Appends(segments', 0, e)
    <3>1. SegmentsAre(segments') /\ Rearranged(segments', 0) /\ 0 \in 0..LastSegment + 1
      BY <1>1, <2>4, DropRearranges
    <3> QED  BY <1>2, <3>1
  <2> QED  BY <1>1, <1>2, <1>3, <2>1, <2>2, <2>3, <2>4
<1> QED  BY <1>4, <1>5

LEMMA NumbersAre ==
    ASSUME RetentionIsFinite, SegmentsInv
    PROVE  /\ appended \in Nat /\ Events!Slots = 0..LastSegment /\ LastSegment \in Nat
           /\ \A m \in Events!Slots : \A x \in segments[m].lines : x.number \in Nat /\ x.number <= appended
<1>1. \A m \in Events!Slots : segments[m].lines \subseteq Events!Event
  BY DEF SegmentsInv, Events!TypeOK, Events!File
<1>2. \A x \in Events!Event : x.number \in Nat
  BY DEF Events!Event, RetentionIsFinite
<1>3. appended \in Nat /\ Events!Slots = 0..LastSegment /\ LastSegment \in Nat
  BY DEF SegmentsInv, Events!TypeOK, Events!Slots, RetentionIsFinite
<1> QED  BY <1>1, <1>2, <1>3 DEF SegmentsInv

\* Where an event of a slot comes from.
Came(after, k, e) ==
    \A m \in Events!Slots : \A x \in segments'[m].lines :
        \/ m = 0 /\ x = e
        \/ m < k /\ x \in segments[m].lines
        \/ m > k /\ m - 1 \in Events!Slots /\ x \in segments[m - 1].lines /\ after[m] # Events!NoSegment

LEMMA ComesFrom ==
    ASSUME RetentionIsFinite, SegmentsInv, NEW after, NEW k \in 0..LastSegment + 1, NEW e \in Events!Event,
           Appends(after, k, e)
    PROVE  Came(after, k, e)
<1> SUFFICES ASSUME NEW m \in Events!Slots, NEW x \in segments'[m].lines
             PROVE  \/ m = 0 /\ x = e
                    \/ m < k /\ x \in segments[m].lines
                    \/ m > k /\ m - 1 \in Events!Slots /\ x \in segments[m - 1].lines /\ after[m] # Events!NoSegment
  BY DEF Came
<1>1. (m = 0 /\ x = e) \/ x \in after[m].lines
  BY DEF Appends, Receives
<1>2. ASSUME x \in after[m].lines
      PROVE  \/ m < k /\ x \in segments[m].lines
             \/ m > k /\ m - 1 \in Events!Slots /\ x \in segments[m - 1].lines /\ after[m] # Events!NoSegment
  <2>1. after[m] # Events!NoSegment
    BY <1>2, NoSegmentIsFile
  <2>2. m \in m..LastSegment /\ (m > k => m - 1 \in Events!Slots)
    BY DEF Events!Slots, RetentionIsFinite
  <2>3. m < k \/ m > k
    BY <2>1 DEF Appends, Rearranged, Events!Slots, RetentionIsFinite
  <2> QED  BY <1>2, <2>1, <2>2, <2>3 DEF Appends, Rearranged
<1> QED  BY <1>1, <1>2

LEMMA AppendsKeepOrder ==
    ASSUME RetentionIsFinite, SegmentsInv, NEW after, NEW k \in 0..LastSegment + 1, NEW e \in Events!Event,
           Appends(after, k, e), appended' = appended + 1
    PROVE  /\ \A i \in Events!Slots : \A x \in segments'[i].lines : x.number <= appended'
           /\ \A i, j \in Events!Slots : i < j =>
                 \A old \in segments'[j].lines, new \in segments'[i].lines : old.number < new.number
<1>1. appended \in Nat /\ Events!Slots = 0..LastSegment /\ LastSegment \in Nat
      /\ \A m \in Events!Slots : \A x \in segments[m].lines : x.number \in Nat /\ x.number <= appended
  BY NumbersAre
<1>2. e.number = appended + 1 /\ Came(after, k, e)
  BY ComesFrom DEF Appends
<1>3. \A i \in Events!Slots : \A x \in segments'[i].lines : x.number <= appended'
  <2> SUFFICES ASSUME NEW i \in Events!Slots, NEW x \in segments'[i].lines PROVE x.number <= appended + 1
    OBVIOUS
  <2>1. x = e \/ \E n \in Events!Slots : x \in segments[n].lines
    BY <1>2 DEF Came
  <2> QED  BY <1>1, <1>2, <2>1
<1>4. ASSUME NEW i \in Events!Slots, NEW j \in Events!Slots, i < j,
             NEW old \in segments'[j].lines, NEW new \in segments'[i].lines
      PROVE  old.number < new.number
  <2>1. \/ j < k /\ old \in segments[j].lines
        \/ j > k /\ j - 1 \in Events!Slots /\ old \in segments[j - 1].lines
    BY <1>1, <1>2, <1>4 DEF Came
  <2>2. \/ new = e
        \/ i < k /\ new \in segments[i].lines
        \/ i > k /\ i - 1 \in Events!Slots /\ new \in segments[i - 1].lines
    BY <1>2, <1>4 DEF Came
  <2>3. CASE new = e
    BY <1>1, <1>2, <2>1, <2>3
  <2>4. PICK p \in {j, j - 1} : p \in Events!Slots /\ old \in segments[p].lines /\ (p = j - 1 => j > k) /\ (p = j => j < k)
    BY <1>1, <2>1
  <2>5. CASE new # e
    <3>1. PICK n \in {i, i - 1} : n \in Events!Slots /\ new \in segments[n].lines /\ (n = i - 1 => i > k) /\ (n = i => i < k)
      BY <1>1, <2>2, <2>5
    <3>2. n < p
      BY <1>1, <1>4, <2>4, <3>1
    <3> QED  BY <2>4, <3>1, <3>2 DEF SegmentsInv
  <2> QED  BY <2>3, <2>5
<1> QED  BY <1>3, <1>4

\* The property of one step.
OldestFirst ==
    \A i \in Events!Slots : Events!Gone(i) =>
         /\ \A j \in Events!Slots \ {i} : Events!HoldsOlder(j, i) => Events!Gone(j)
         /\ i < LastSegment => \A e \in segments[i].lines : e.time + MaxAge <= clock

LEMMA AppendsRemoveOldest ==
    ASSUME RetentionIsFinite, SegmentsInv, NEW after, NEW k \in 0..LastSegment + 1, NEW e \in Events!Event,
           Appends(after, k, e)
    PROVE  OldestFirst
<1> SUFFICES ASSUME NEW i \in Events!Slots, Events!Gone(i)
             PROVE  /\ \A j \in Events!Slots \ {i} : Events!HoldsOlder(j, i) => Events!Gone(j)
                    /\ i < LastSegment => \A x \in segments[i].lines : x.time + MaxAge <= clock
  BY DEF OldestFirst
<1>1. appended \in Nat /\ Events!Slots = 0..LastSegment /\ LastSegment \in Nat
      /\ \A m \in Events!Slots : \A x \in segments[m].lines : x.number \in Nat /\ x.number <= appended
  BY NumbersAre
<1>2. Events!Sure(i) # {} /\ \A m \in Events!Slots : ~(Events!Sure(i) \subseteq segments'[m].lines)
  BY DEF Events!Gone
<1>3. ASSUME NEW m \in Events!Slots, after[m] = segments[i] PROVE FALSE
  <2>1. Events!Sure(i) \subseteq segments'[m].lines
    BY <1>3 DEF Appends, Receives, Events!Sure
  <2> QED  BY <1>2, <2>1
<1>4. i >= k
  BY <1>1, <1>3 DEF Appends, Rearranged
<1>5. \A j \in Events!Slots \ {i} : Events!HoldsOlder(j, i) => j > i
  <2> SUFFICES ASSUME NEW j \in Events!Slots, j < i, Events!HoldsOlder(j, i) PROVE FALSE
    BY <1>1
  <2>1. PICK old \in segments[j].lines, new \in segments[i].lines : old.number < new.number
    BY DEF Events!HoldsOlder, Events!Sure
  <2>2. new.number < old.number
    BY DEF SegmentsInv
  <2> QED  BY <1>1, <2>1, <2>2
<1>6. Came(after, k, e)
  BY ComesFrom
<1>7. CASE i = LastSegment
  BY <1>1, <1>5, <1>7
<1>8. CASE i < LastSegment
  <2>1. i + 1 \in Events!Slots /\ i + 1 > k /\ (i + 1) - 1 = i
    BY <1>1, <1>4, <1>8
  <2>2. \A j \in i + 1..LastSegment :
           /\ after[j] = Events!NoSegment
           /\ ~Events!Present(segments[j - 1]) \/ Events!ProvenOlder(segments[j - 1])
    BY <1>3, <2>1 DEF Appends, Rearranged
  <2>3. Events!ProvenOlder(segments[i])
    <3>1. segments[i] # Events!NoSegment
      BY <1>2, NoSegmentIsFile DEF Events!Sure
    <3>2. i + 1 \in i + 1..LastSegment
      BY <1>1, <1>8
    <3> QED  BY <2>1, <2>2, <3>1, <3>2 DEF Events!Present
  <2>4. ASSUME NEW j \in Events!Slots, j > i, Events!HoldsOlder(j, i) PROVE Events!Gone(j)
    <3>1. PICK x : x \in Events!Sure(j)
      BY <2>4 DEF Events!HoldsOlder
    <3>2. x \in segments[j].lines
      BY <3>1 DEF Events!Sure
    <3>3. ASSUME NEW m \in Events!Slots, x \in segments'[m].lines PROVE FALSE
      <4>1. x # e
        BY <1>1, <3>2 DEF Appends
      <4>2. PICK n \in Events!Slots : x \in segments[n].lines /\ ((n = m /\ m < k) \/ (n = m - 1 /\ m > k /\ after[m] # Events!NoSegment))
        BY <1>6, <3>3, <4>1 DEF Came
      <4>3. n = j
        BY <1>1, <3>2, <4>2 DEF SegmentsInv
      <4>4. m \in i + 1..LastSegment /\ after[m] # Events!NoSegment
        BY <1>1, <1>4, <2>4, <4>2, <4>3
      <4> QED  BY <2>2, <4>4
    <3> QED  BY <3>1, <3>3 DEF Events!Gone
  <2> QED  BY <1>5, <2>3, <2>4 DEF Events!ProvenOlder
<1> QED  BY <1>1, <1>7, <1>8

LEMMA EventsStep ==
    ASSUME RetentionIsFinite, SegmentsInv, [Events!Next]_Events!segmentVars
    PROVE  SegmentsInv' /\ OldestFirst
<1>1. CASE UNCHANGED segments /\ UNCHANGED <<appended, segmentFaults>> /\ clock' \in 0..MaxTime
  <2>1. SegmentsInv'
    BY <1>1 DEF SegmentsInv, Events!TypeOK
  <2>2. \A i \in Events!Slots : ~Events!Gone(i)
    BY <1>1 DEF Events!Gone, Events!Sure
  <2> QED  BY <2>1, <2>2 DEF OldestFirst
<1>2. CASE Events!Tick
  <2>1. UNCHANGED segments /\ UNCHANGED <<appended, segmentFaults>> /\ clock' \in 0..MaxTime
    BY <1>2 DEF Events!Tick, SegmentsInv, Events!TypeOK, RetentionIsFinite
  <2> QED  BY <1>1, <2>1
<1>3. CASE UNCHANGED Events!segmentVars
  BY <1>1, <1>3 DEF Events!segmentVars, SegmentsInv, Events!TypeOK
<1>4. CASE Events!Write
  <2>1. PICK time \in {clock} \cup (0..MaxTime \cap {clock - 1}) :
           Events!AppendEvent(Events!NewEvent(time)) \/ Events!AppendFails(Events!NewEvent(time))
    BY <1>4 DEF Events!Write
  <2> DEFINE e == Events!NewEvent(time)
  <2>2. appended < MaxEvents /\ appended' = appended + 1 /\ UNCHANGED clock
    BY <1>4 DEF Events!Write
  <2>3. e \in Events!Event /\ e.number = appended + 1
    BY <2>2 DEF SegmentsInv, Events!TypeOK, Events!NewEvent, Events!Event, RetentionIsFinite
  <2>4. segmentFaults' \in 0..MaxSegmentFaults
    <3>1. segmentFaults' = segmentFaults \/ (segmentFaults < MaxSegmentFaults /\ segmentFaults' = segmentFaults + 1)
      BY <2>1 DEF Events!AppendEvent, Events!AppendFails
    <3>2. segmentFaults \in 0..MaxSegmentFaults
      BY DEF SegmentsInv, Events!TypeOK
    <3> QED  BY <3>1, <3>2 DEF RetentionIsFinite
  <2> HIDE DEF e
  <2>5. PICK after : \E k \in 0..LastSegment + 1 : Appends(after, k, e)
    BY <2>1, <2>3, WriteAppends DEF e
  <2>6. PICK k \in 0..LastSegment + 1 : Appends(after, k, e)
    BY <2>5
  <2>7. Events!TypeOK'
    BY <2>2, <2>4, <2>6 DEF Appends, SegmentsInv, Events!TypeOK, RetentionIsFinite
  <2> QED  BY <2>2, <2>3, <2>6, <2>7, AppendsKeepOrder, AppendsRemoveOldest DEF SegmentsInv
<1> QED  BY <1>2, <1>3, <1>4 DEF Events!Next

LEMMA SegmentsInvHolds == RetentionIsFinite /\ Events!Spec => []SegmentsInv
<1>1. RetentionIsFinite => RetentionIsFinite'
  OBVIOUS
<1>2. RetentionIsFinite /\ Events!Init => SegmentsInv
  <2> SUFFICES ASSUME RetentionIsFinite, Events!Init PROVE SegmentsInv
    OBVIOUS
  <2>1. /\ segments = [i \in Events!Slots |-> Events!NoSegment] /\ appended = 0
        /\ clock \in 0..MaxTime /\ segmentFaults \in 0..MaxSegmentFaults /\ appended \in 0..MaxEvents
    BY DEF Events!Init, RetentionIsFinite
  <2>2. \A i \in Events!Slots : segments[i].lines = {}
    BY <2>1, NoSegmentIsFile
  <2> QED  BY <2>1, <2>2, NoSegmentIsFile DEF SegmentsInv, Events!TypeOK
<1>3. RetentionIsFinite /\ SegmentsInv /\ [Events!Next]_Events!segmentVars => SegmentsInv'
  BY EventsStep
<1> QED  BY <1>1, <1>2, <1>3, PTL DEF Events!Spec

\* No step "invents a gap in front of a newer one" (commerce-events.mjs:3936),
\* wherever a rotation or its drop stops; and what is removed for its age is
\* older than the retention.
THEOREM RemovesOldestFirstHolds == RetentionIsFinite /\ Events!Spec => RemovesOldestFirst
<1>1. RetentionIsFinite => RetentionIsFinite'
  OBVIOUS
<1>2. RetentionIsFinite /\ SegmentsInv /\ [Events!Next]_Events!segmentVars =>
        [\A i \in Events!Slots : Events!Gone(i) =>
           /\ \A j \in Events!Slots \ {i} : Events!HoldsOlder(j, i) => Events!Gone(j)
           /\ i < LastSegment => \A e \in segments[i].lines : e.time + MaxAge <= clock]_Events!segmentVars
  BY EventsStep DEF OldestFirst
<1> QED
  BY <1>1, <1>2, SegmentsInvHolds, PTL DEF Events!Spec, RemovesOldestFirst, Events!RemovesOldestFirst

-----------------------------------------------------------------------------
(* The certificate of a plane of the delivery journals.                    *)

\* The bounds are numbers, and no file is called NoFile.
FilesAreInodes == MaxRows \in Nat /\ MaxPlaneFaults \in Nat /\ MaxForeign \in Nat /\ NoFile \notin Inodes

Lines == Coverage!Rows \cup Coverage!Broken
Snapshot == [inode : Coverage!Identity, rows : Seq(Lines)]

\* What is behind the first n of a sequence.
After(s, n) == SubSeq(s, n + 1, Len(s))

LEMMA AfterProperties ==
    ASSUME NEW S, NEW s \in Seq(S), NEW n \in 0..Len(s)
    PROVE  /\ After(s, n) \in Seq(S) /\ Len(After(s, n)) = Len(s) - n
           /\ \A i \in 1..Len(s) - n : After(s, n)[i] = s[i + n]
  BY DEF After

LEMMA SameSequence ==
    ASSUME NEW S, NEW s \in Seq(S), NEW t \in Seq(S), Len(s) = Len(t), \A i \in 1..Len(s) : s[i] = t[i]
    PROVE  s = t
  OBVIOUS

LEMMA AppendIs ==
    ASSUME NEW S, NEW s \in Seq(S), NEW e \in S
    PROVE  /\ Len(s) \in Nat /\ Append(s, e) \in Seq(S) /\ Len(Append(s, e)) = Len(s) + 1
           /\ \A i \in 1..Len(s) : Append(s, e)[i] = s[i]
           /\ Append(s, e)[Len(s) + 1] = e
  OBVIOUS

LEMMA AfterAppend ==
    ASSUME NEW S, NEW s \in Seq(S), NEW n \in 0..Len(s), NEW e \in S
    PROVE  After(Append(s, e), n) = Append(After(s, n), e)
<1> DEFINE t == Append(s, e)
<1>1. /\ t \in Seq(S) /\ Len(t) = Len(s) + 1 /\ n \in 0..Len(t)
      /\ \A i \in 1..Len(s) : t[i] = s[i]
      /\ t[Len(s) + 1] = e
  OBVIOUS
<1> HIDE DEF t
<1>2. /\ After(t, n) \in Seq(S) /\ Len(After(t, n)) = Len(s) + 1 - n
      /\ \A i \in 1..Len(s) + 1 - n : After(t, n)[i] = t[i + n]
  <2>1. /\ After(t, n) \in Seq(S) /\ Len(After(t, n)) = Len(t) - n
        /\ \A i \in 1..Len(t) - n : After(t, n)[i] = t[i + n]
    BY <1>1, AfterProperties
  <2> QED  BY <1>1, <2>1
<1>3. /\ After(s, n) \in Seq(S) /\ Len(After(s, n)) = Len(s) - n
      /\ \A i \in 1..Len(s) - n : After(s, n)[i] = s[i + n]
  BY AfterProperties
<1> DEFINE u == After(s, n)
           v == Append(u, e)
<1> HIDE DEF u
<1>4. /\ v \in Seq(S) /\ Len(v) = Len(s) - n + 1
      /\ \A i \in 1..Len(s) - n : v[i] = u[i]
      /\ v[Len(s) - n + 1] = e
  BY <1>3 DEF u
<1> HIDE DEF v
<1>5. \A i \in 1..Len(s) + 1 - n : After(t, n)[i] = v[i]
  <2> SUFFICES ASSUME NEW i \in 1..Len(s) + 1 - n PROVE After(t, n)[i] = v[i]
    OBVIOUS
  <2>1. CASE i \in 1..Len(s) - n
    BY <1>1, <1>2, <1>3, <1>4, <2>1 DEF u
  <2>2. CASE i = Len(s) + 1 - n
    BY <1>1, <1>2, <1>4, <2>2
  <2> QED  BY <2>1, <2>2
<1>6. After(t, n) = v
  BY <1>2, <1>4, <1>5, SameSequence
<1> QED  BY <1>6 DEF t, u, v

LEMMA ConcatAppend ==
    ASSUME NEW S, NEW s \in Seq(S), NEW t \in Seq(S), NEW e \in S
    PROVE  s \o Append(t, e) = Append(s \o t, e)
<1> DEFINE u == Append(t, e)
           c == s \o t
           v == Append(c, e)
<1>1. /\ u \in Seq(S) /\ Len(u) = Len(t) + 1 /\ \A i \in 1..Len(t) : u[i] = t[i]
      /\ u[Len(t) + 1] = e
  OBVIOUS
<1>2. /\ c \in Seq(S) /\ Len(c) = Len(s) + Len(t)
      /\ \A i \in 1..Len(s) + Len(t) : c[i] = IF i <= Len(s) THEN s[i] ELSE t[i - Len(s)]
  OBVIOUS
<1> HIDE DEF u, c
<1>3. /\ v \in Seq(S) /\ Len(v) = Len(c) + 1 /\ \A i \in 1..Len(c) : v[i] = c[i]
      /\ v[Len(c) + 1] = e
  BY <1>2, AppendIs
<1>4. /\ s \o u \in Seq(S) /\ Len(s \o u) = Len(s) + Len(u) /\ Len(s) \in Nat /\ Len(t) \in Nat
      /\ \A i \in 1..Len(s) + Len(u) : (s \o u)[i] = IF i <= Len(s) THEN s[i] ELSE u[i - Len(s)]
  BY <1>1
<1> HIDE DEF v
<1>5. \A i \in 1..Len(v) : (s \o u)[i] = v[i]
  <2> SUFFICES ASSUME NEW i \in 1..Len(s) + Len(t) + 1 PROVE (s \o u)[i] = v[i]
    BY <1>2, <1>3
  <2>1. CASE i <= Len(s)
    <3>1. (s \o u)[i] = s[i] /\ c[i] = s[i] /\ v[i] = c[i]
      BY <1>1, <1>2, <1>3, <1>4, <2>1
    <3> QED  BY <3>1
  <2>2. CASE i > Len(s) /\ i <= Len(s) + Len(t)
    <3>1. (s \o u)[i] = u[i - Len(s)] /\ v[i] = t[i - Len(s)] /\ i - Len(s) \in 1..Len(t)
      BY <1>1, <1>2, <1>3, <1>4, <2>2
    <3> QED  BY <1>1, <3>1
  <2>3. CASE i = Len(s) + Len(t) + 1
    <3>1. (s \o u)[i] = u[Len(t) + 1] /\ v[i] = e
      BY <1>1, <1>2, <1>3, <1>4, <2>3
    <3> QED  BY <1>1, <3>1
  <2>4. i <= Len(s) \/ (i > Len(s) /\ i <= Len(s) + Len(t)) \/ i = Len(s) + Len(t) + 1
    <3>1. Len(s) \in Nat /\ Len(t) \in Nat
      BY <1>4
    <3>2. \A a, b \in Nat : \A j \in 1..a + b + 1 : j <= a \/ (j > a /\ j <= a + b) \/ j = a + b + 1
      OBVIOUS
    <3> QED  BY <3>1, <3>2
  <2> QED  BY <2>1, <2>2, <2>3, <2>4
<1>6. Len(s \o u) = Len(v)
  BY <1>1, <1>2, <1>3, <1>4
<1>7. s \o u = v
  BY <1>3, <1>4, <1>5, <1>6, SameSequence
<1> QED  BY <1>7 DEF u, c, v

LEMMA ConcatNothing ==
    ASSUME NEW S, NEW s \in Seq(S)
    PROVE  s \o <<>> = s /\ <<>> \o s = s /\ After(s, 0) = s /\ After(s, Len(s)) = <<>>
  BY DEF After

\* Prefixes, and what they hold.
LEMMA PrefixStays ==
    ASSUME NEW S, NEW p \in Seq(S), NEW s \in Seq(S), NEW e \in S
    PROVE  /\ Coverage!IsPrefix(p, p)
           /\ Coverage!IsPrefix(p, s) => Coverage!IsPrefix(p, Append(s, e))
           /\ Coverage!IsPrefix(p, s) => Len(p) \in 0..Len(s)
<1>1. Coverage!IsPrefix(p, p)
  BY DEF Coverage!IsPrefix
<1>2. ASSUME Coverage!IsPrefix(p, s) PROVE Coverage!IsPrefix(p, Append(s, e))
  <2>1. Len(p) <= Len(s) /\ SubSeq(p, 1, Len(p)) = SubSeq(s, 1, Len(p))
    BY <1>2 DEF Coverage!IsPrefix
  <2> DEFINE t == Append(s, e)
  <2>2. t \in Seq(S) /\ Len(t) = Len(s) + 1 /\ \A i \in 1..Len(s) : t[i] = s[i]
    OBVIOUS
  <2> HIDE DEF t
  <2>3. SubSeq(t, 1, Len(p)) = SubSeq(s, 1, Len(p))
    BY <2>1, <2>2
  <2> QED  BY <2>1, <2>2, <2>3 DEF Coverage!IsPrefix, t
<1>3. Coverage!IsPrefix(p, s) => Len(p) \in 0..Len(s)
  BY DEF Coverage!IsPrefix
<1> QED  BY <1>1, <1>2, <1>3

LEMMA Holdings ==
    ASSUME NEW S, NEW s \in Seq(S), NEW t \in Seq(S)
    PROVE  /\ Coverage!ToSet(s) \subseteq S
           /\ Coverage!ToSet(s \o t) = Coverage!ToSet(s) \cup Coverage!ToSet(t)
           /\ \A n \in 0..Len(s) : Coverage!ToSet(After(s, n)) \subseteq Coverage!ToSet(s)
           /\ Coverage!IsPrefix(s, t) => Coverage!ToSet(s) \subseteq Coverage!ToSet(t)
<1> USE DEF Coverage!ToSet
<1>1. Coverage!ToSet(s) \subseteq S
  OBVIOUS
<1>2. Coverage!ToSet(s \o t) = Coverage!ToSet(s) \cup Coverage!ToSet(t)
  <2> DEFINE c == s \o t
  <2>1. /\ DOMAIN c = 1..Len(s) + Len(t) /\ DOMAIN s = 1..Len(s) /\ DOMAIN t = 1..Len(t)
        /\ Len(s) \in Nat /\ Len(t) \in Nat
        /\ \A i \in 1..Len(s) + Len(t) : c[i] = IF i <= Len(s) THEN s[i] ELSE t[i - Len(s)]
    OBVIOUS
  <2> HIDE DEF c
  <2>2. \A i \in DOMAIN c : c[i] \in Coverage!ToSet(s) \cup Coverage!ToSet(t)
    BY <2>1
  <2>3. \A i \in DOMAIN s : s[i] \in Coverage!ToSet(c)
    BY <2>1
  <2>4. \A i \in DOMAIN t : t[i] \in Coverage!ToSet(c)
    <3> TAKE i \in DOMAIN t
    <3>1. i + Len(s) \in DOMAIN c /\ c[i + Len(s)] = t[i]
      BY <2>1
    <3> QED  BY <3>1
  <2> QED  BY <2>2, <2>3, <2>4 DEF c
<1>3. ASSUME NEW n \in 0..Len(s) PROVE Coverage!ToSet(After(s, n)) \subseteq Coverage!ToSet(s)
  <2>1. \A i \in 1..Len(s) - n : i + n \in DOMAIN s /\ After(s, n)[i] = s[i + n]
    BY AfterProperties
  <2>2. DOMAIN After(s, n) = 1..Len(s) - n
    BY AfterProperties
  <2> QED  BY <2>1, <2>2
<1>4. ASSUME Coverage!IsPrefix(s, t) PROVE Coverage!ToSet(s) \subseteq Coverage!ToSet(t)
  <2>1. Len(s) <= Len(t) /\ SubSeq(s, 1, Len(s)) = SubSeq(t, 1, Len(s))
    BY <1>4 DEF Coverage!IsPrefix
  <2>2. \A i \in 1..Len(s) : s[i] = t[i] /\ i \in DOMAIN t
    <3>1. \A i \in 1..Len(s) : SubSeq(s, 1, Len(s))[i] = s[i] /\ SubSeq(t, 1, Len(s))[i] = t[i]
      BY <2>1
    <3> QED  BY <2>1, <3>1
  <2> QED  BY <2>2
<1> QED  BY <1>1, <1>2, <1>3, <1>4

\* What is known of the plane at all times.
PlaneTypes ==
    /\ Coverage!TypeOK
    /\ scan \in [for : {"nothing", "begin", "capture", "receive"}, older : Snapshot]
    /\ start \in [older : Snapshot, current : Snapshot, writes : Nat, faults : Nat, set : BOOLEAN]
    /\ start.writes <= Len(hashes)
    /\ start.faults <= planeFaults
    /\ names["older"] # NoFile => names["older"] # names["current"]

LEMMA NoLines == <<>> \in Seq(Coverage!Rows) /\ <<>> \in Seq(Lines) /\ Len(<<>>) = 0
  OBVIOUS

LEMMA SnapshotsAre ==
    ASSUME PlaneTypes
    PROVE  /\ Coverage!Absent \in Snapshot
           /\ Coverage!SnapshotOf("older") \in Snapshot /\ Coverage!SnapshotOf("older").inode = names["older"]
           /\ Coverage!SnapshotOf("current") \in Snapshot /\ Coverage!SnapshotOf("current").inode = names["current"]
<1>1. Coverage!Absent \in Snapshot
  BY DEF Coverage!Absent, Snapshot, Coverage!Identity
<1>2. \A n \in {"older", "current"} : /\ Coverage!SnapshotOf(n) \in Snapshot
                                      /\ Coverage!SnapshotOf(n).inode = names[n]
  <2> TAKE n \in {"older", "current"}
  <2>1. names[n] \in Coverage!Identity /\ bytes \in [Inodes -> Seq(Lines)]
    BY DEF PlaneTypes, Coverage!TypeOK, Lines
  <2>2. CASE names[n] = NoFile
    BY <1>1, <2>2 DEF Coverage!SnapshotOf, Coverage!Absent
  <2>3. CASE names[n] # NoFile
    <3>1. names[n] \in Inodes /\ bytes[names[n]] \in Seq(Lines)
      BY <2>1, <2>3 DEF Coverage!Identity
    <3> QED  BY <2>1, <2>3, <3>1 DEF Coverage!SnapshotOf, Snapshot
  <2> QED  BY <2>2, <2>3
<1> QED  BY <1>1, <1>2

\* What a line makes of the two files.
Writes(file, rotates, line) ==
    /\ file \in Inodes
    /\ file = names["current"] => ~rotates
    /\ file # names["current"] => rotates \/ names["current"] = NoFile
    /\ file = names["older"] => rotates
    /\ rotates => names["current"] # NoFile
    /\ names'["current"] = file
    /\ names'["older"] = IF rotates THEN names["current"] ELSE names["older"]
    /\ bytes'[file] = Coverage!Behind(IF file = names["current"] THEN bytes[file] ELSE <<>>, line)
    /\ names'["older"] \in Inodes \ {file} => bytes'[names'["older"]] = bytes[names'["older"]]

LEMMA LineIsWritten ==
    ASSUME FilesAreInodes, PlaneTypes, NEW place \in Coverage!Places, NEW line \in Lines, Coverage!Write(place, line)
    PROVE  /\ Writes(place[1], place[2], line) /\ place[2] \in BOOLEAN
           /\ names' \in [{"older", "current"} -> Coverage!Identity]
           /\ bytes' \in [Inodes -> Seq(Lines)]
           /\ names'["older"] # NoFile => names'["older"] # names'["current"]
<1> DEFINE file == place[1]
           rotates == place[2]
<1>1. /\ names \in [{"older", "current"} -> Coverage!Identity] /\ bytes \in [Inodes -> Seq(Lines)]
      /\ names["older"] # NoFile => names["older"] # names["current"]
  BY DEF PlaneTypes, Coverage!TypeOK, Lines
<1>2. ASSUME NEW turns \in BOOLEAN
      PROVE  /\ Coverage!NewInodes(turns) \subseteq Inodes \ {names["current"]}
             /\ names["older"] \in Coverage!NewInodes(turns) => turns
  <2> DEFINE free == Inodes \ (IF turns THEN {names["current"]} ELSE {names["older"], names["current"]})
  <2>1. ASSUME ~(free \subseteq Coverage!Remembered)
        PROVE  (CHOOSE i \in free : i \notin Coverage!Remembered) \in free
    <3> HIDE DEF free
    <3>1. \E i \in free : i \notin Coverage!Remembered
      BY <2>1
    <3> QED  BY <3>1
  <2>2. Coverage!NewInodes(turns) \subseteq free
    BY <2>1 DEF Coverage!NewInodes
  <2> QED  BY <2>2
<1>3. /\ file \in Inodes /\ rotates \in BOOLEAN
      /\ file = names["current"] => ~rotates
      /\ file # names["current"] => rotates \/ names["current"] = NoFile
      /\ file = names["older"] => rotates
      /\ rotates => names["current"] # NoFile
  <2>1. CASE names["current"] = NoFile
    <3>1. place \in Coverage!NewInodes(FALSE) \X {FALSE}
      BY <2>1 DEF Coverage!Places
    <3> QED  BY <1>2, <2>1, <3>1
  <2>2. CASE names["current"] # NoFile
    <3>1. names["current"] \in Inodes
      BY <1>1, <2>2 DEF Coverage!Identity
    <3>2. place = <<names["current"], FALSE>> \/ place \in Coverage!NewInodes(TRUE) \X {TRUE}
      BY <2>2 DEF Coverage!Places
    <3>3. CASE place = <<names["current"], FALSE>>
      BY <1>1, <2>2, <3>1, <3>3 DEF FilesAreInodes
    <3>4. CASE place \in Coverage!NewInodes(TRUE) \X {TRUE}
      BY <1>2, <2>2, <3>4
    <3> QED  BY <3>2, <3>3, <3>4
  <2> QED  BY <2>1, <2>2
<1> HIDE DEF file, rotates
<1> DEFINE moved == IF rotates THEN names["current"] ELSE names["older"]
<1>4. /\ names' = [older |-> moved, current |-> file]
      /\ bytes' = [i \in Inodes |->
                     IF i = file THEN Coverage!Behind(IF file = names["current"] THEN bytes[i] ELSE <<>>, line)
                     ELSE IF i = moved THEN bytes[i] ELSE <<>>]
  BY DEF Coverage!Write, file, rotates
<1>5. moved \in Coverage!Identity /\ (moved # NoFile => moved # file)
  BY <1>1, <1>3
<1>6. names' \in [{"older", "current"} -> Coverage!Identity] /\ names'["older"] = moved /\ names'["current"] = file
  BY <1>3, <1>4, <1>5 DEF Coverage!Identity
<1>7. bytes' \in [Inodes -> Seq(Lines)]
  <2>1. \A s \in Seq(Lines) : Coverage!Behind(s, line) \in Seq(Lines)
    BY DEF Coverage!Behind, Coverage!Front, Coverage!Broken, Lines
  <2>2. <<>> \in Seq(Lines)
    OBVIOUS
  <2>3. \A i \in Inodes : bytes[i] \in Seq(Lines)
    BY <1>1
  <2>4. \A i \in Inodes : (IF i = file THEN Coverage!Behind(IF file = names["current"] THEN bytes[i] ELSE <<>>, line)
                           ELSE IF i = moved THEN bytes[i] ELSE <<>>) \in Seq(Lines)
    BY <2>1, <2>2, <2>3
  <2> QED  BY <1>4, <2>4
<1>8. /\ bytes'[file] = Coverage!Behind(IF file = names["current"] THEN bytes[file] ELSE <<>>, line)
      /\ names'["older"] \in Inodes \ {file} => bytes'[names'["older"]] = bytes[names'["older"]]
  BY <1>3, <1>4, <1>6
<1>9. names'["older"] # NoFile => names'["older"] # names'["current"]
  BY <1>5, <1>6
<1> HIDE DEF moved
<1>10. Writes(file, rotates, line)
  BY <1>3, <1>6, <1>8 DEF Writes, moved
<1> QED  BY <1>3, <1>6, <1>7, <1>9, <1>10 DEF file, rotates

LEMMA HalfRotated ==
    ASSUME FilesAreInodes, PlaneTypes, Coverage!HalfRotates
    PROVE  /\ names' \in [{"older", "current"} -> Coverage!Identity]
           /\ bytes' \in [Inodes -> Seq(Lines)]
           /\ names'["older"] # NoFile => names'["older"] # names'["current"]
<1>1. /\ names \in [{"older", "current"} -> Coverage!Identity] /\ bytes \in [Inodes -> Seq(Lines)]
      /\ names["older"] # NoFile => names["older"] # names["current"]
  BY DEF PlaneTypes, Coverage!TypeOK, Lines
<1>2. NoFile \in Coverage!Identity /\ <<>> \in Seq(Lines)
  BY DEF Coverage!Identity
<1>3. /\ names["current"] # NoFile
      /\ \/ names' = [names EXCEPT !["older"] = NoFile]
         \/ names' = [older |-> names["current"], current |-> NoFile]
      /\ bytes' = [i \in Inodes |-> IF i = names["current"] THEN bytes[i] ELSE <<>>]
  BY DEF Coverage!HalfRotates
<1>4. bytes' \in [Inodes -> Seq(Lines)]
  BY <1>1, <1>2, <1>3
<1>5. /\ names' \in [{"older", "current"} -> Coverage!Identity]
      /\ names'["older"] # NoFile => names'["older"] # names'["current"]
  BY <1>1, <1>2, <1>3
<1> QED  BY <1>4, <1>5

LEMMA PlaneInit == FilesAreInodes /\ Coverage!Init => PlaneTypes
<1> SUFFICES ASSUME FilesAreInodes, Coverage!Init PROVE PlaneTypes
  OBVIOUS
<1>1. Coverage!Absent \in Snapshot
  BY DEF Coverage!Absent, Snapshot, Coverage!Identity
<1>2. scan \in [for : {"nothing", "begin", "capture", "receive"}, older : Snapshot] /\ scan.for = "nothing"
  BY <1>1 DEF Coverage!Init, Coverage!NotScanning
<1>3. /\ start \in [older : Snapshot, current : Snapshot, writes : Nat, faults : Nat, set : BOOLEAN]
      /\ start.writes = 0 /\ start.faults = 0
  BY <1>1 DEF Coverage!Init, Coverage!NoStart
<1>4. Coverage!TypeOK
  <2>1. /\ names = [n \in {"older", "current"} |-> NoFile] /\ bytes = [i \in Inodes |-> <<>>]
        /\ rowsMade = 0 /\ hashes = <<>> /\ planeFaults = 0 /\ landed = <<>> /\ disturbed = FALSE /\ foreign = 0
    BY DEF Coverage!Init
  <2>2. NoFile \in Coverage!Identity
    BY DEF Coverage!Identity
  <2>3. bytes \in [Inodes -> Seq(Lines)] /\ names \in [{"older", "current"} -> Coverage!Identity]
    BY <2>1, <2>2, NoLines
  <2>4. rowsMade \in 0..MaxRows /\ planeFaults \in 0..MaxPlaneFaults /\ foreign \in 0..MaxForeign
    BY <2>1 DEF FilesAreInodes
  <2> QED  BY <1>2, <2>1, <2>3, <2>4, NoLines DEF Coverage!TypeOK, Lines
<1> QED  BY <1>2, <1>3, <1>4 DEF PlaneTypes, Coverage!Init

LEMMA PlaneStep ==
    ASSUME FilesAreInodes, PlaneTypes, [Coverage!Next]_coverageVars
    PROVE  PlaneTypes'
<1> DEFINE Files == /\ names' \in [{"older", "current"} -> Coverage!Identity]
                    /\ bytes' \in [Inodes -> Seq(Lines)]
                    /\ names'["older"] # NoFile => names'["older"] # names'["current"]
           Purposes == {"nothing", "begin", "capture", "receive"}
           Starts == [older : Snapshot, current : Snapshot, writes : Nat, faults : Nat, set : BOOLEAN]
<1>0. /\ names \in [{"older", "current"} -> Coverage!Identity] /\ bytes \in [Inodes -> Seq(Lines)]
      /\ names["older"] # NoFile => names["older"] # names["current"]
      /\ rowsMade \in 0..MaxRows /\ hashes \in Seq(Coverage!Rows) /\ planeFaults \in 0..MaxPlaneFaults
      /\ landed \in Seq(Coverage!Rows) /\ disturbed \in BOOLEAN /\ foreign \in 0..MaxForeign
      /\ scan \in [for : Purposes, older : Snapshot] /\ start \in Starts
      /\ start.writes <= Len(hashes) /\ start.faults <= planeFaults
  BY DEF PlaneTypes, Coverage!TypeOK, Lines
<1>1. UNCHANGED <<names, bytes>> => Files
  BY <1>0
<1>2. \A place \in Coverage!Places, line \in Lines : Coverage!Write(place, line) => Files
  BY LineIsWritten
<1>3. rowsMade < MaxRows /\ rowsMade' = rowsMade + 1 =>
         /\ rowsMade' \in 0..MaxRows /\ rowsMade' \in Coverage!Rows /\ rowsMade' \in Lines
         /\ Append(hashes, rowsMade') \in Seq(Coverage!Rows) /\ Len(Append(hashes, rowsMade')) = Len(hashes) + 1
         /\ Append(landed, rowsMade') \in Seq(Coverage!Rows)
  BY <1>0 DEF FilesAreInodes, Coverage!Rows, Lines
<1>4. scan' = scan => scan' \in [for : Purposes, older : Snapshot] /\ scan'.for \in Purposes
  BY <1>0
<1>5. scan' = Coverage!NotScanning => scan' \in [for : Purposes, older : Snapshot] /\ scan'.for \in Purposes
  BY SnapshotsAre DEF Coverage!NotScanning
<1>6. \A purpose \in Purposes : scan' = [for |-> purpose, older |-> Coverage!SnapshotOf("older")] =>
         scan' \in [for : Purposes, older : Snapshot] /\ scan'.for \in Purposes
  BY SnapshotsAre
<1> DEFINE Rest == /\ rowsMade' \in 0..MaxRows /\ hashes' \in Seq(Coverage!Rows)
                   /\ planeFaults' \in 0..MaxPlaneFaults
                   /\ landed' \in Seq(Coverage!Rows) /\ disturbed' \in BOOLEAN /\ foreign' \in 0..MaxForeign
                   /\ scan' \in [for : Purposes, older : Snapshot] /\ scan'.for \in Purposes /\ start' \in Starts
                   /\ start'.writes <= Len(hashes') /\ start'.faults <= planeFaults'
<1>7. Files /\ Rest => PlaneTypes'
  BY DEF PlaneTypes, Coverage!TypeOK, Lines
<1>8. /\ \A place \in Coverage!Places : Coverage!Loses(place) \in BOOLEAN
      /\ 0..MaxRows \subseteq Nat /\ Len(hashes) \in Nat
  BY <1>0 DEF Coverage!Loses, FilesAreInodes
<1>9. CASE Coverage!Produce
  <2>1. PICK place \in Coverage!Places :
           Coverage!Write(place, rowsMade') /\ disturbed' = (disturbed \/ Coverage!Loses(place))
    BY <1>9 DEF Coverage!Produce
  <2>2. /\ rowsMade < MaxRows /\ rowsMade' = rowsMade + 1 /\ hashes' = Append(hashes, rowsMade')
        /\ landed' = Append(landed, rowsMade')
        /\ UNCHANGED <<planeFaults, start, scan, cut, verdict, foreign>>
    BY <1>9 DEF Coverage!Produce, Coverage!captureVars
  <2>3. Files
    BY <1>2, <1>3, <2>1, <2>2
  <2>4. disturbed' \in BOOLEAN
    BY <1>0, <1>8, <2>1
  <2>5. Rest
    BY <1>0, <1>3, <1>4, <1>8, <2>2, <2>4
  <2> QED  BY <1>7, <2>3, <2>5
<1>10. CASE Coverage!ProduceFails
  <2>1. /\ rowsMade < MaxRows /\ rowsMade' = rowsMade + 1 /\ planeFaults < MaxPlaneFaults
        /\ planeFaults' = planeFaults + 1 /\ disturbed' = TRUE
        /\ UNCHANGED <<hashes, start, scan, cut, verdict, foreign>>
    BY <1>10 DEF Coverage!ProduceFails, Coverage!captureVars
  <2>2. Files /\ landed' \in {landed, Append(landed, rowsMade')}
    <3>1. CASE UNCHANGED <<names, bytes, landed>>
      BY <1>1, <3>1
    <3>2. CASE Coverage!HalfRotates /\ UNCHANGED landed
      BY <3>2, HalfRotated
    <3>3. CASE \E place \in Coverage!Places, line \in {rowsMade', Coverage!Torn} :
                  Coverage!Write(place, line)
                  /\ landed' = (IF line = Coverage!Torn THEN landed ELSE Append(landed, line))
      <4>1. \A line \in {rowsMade', Coverage!Torn} : line \in Lines /\ (line # Coverage!Torn => line = rowsMade')
        BY <1>3, <2>1 DEF Lines, Coverage!Broken
      <4> QED  BY <1>2, <3>3, <4>1
    <3> QED  BY <1>10, <3>1, <3>2, <3>3 DEF Coverage!ProduceFails, Coverage!storeVars
  <2>3. landed' \in Seq(Coverage!Rows)
    BY <1>0, <1>3, <2>1, <2>2
  <2>4. Rest
    BY <1>0, <1>3, <1>4, <2>1, <2>3 DEF FilesAreInodes
  <2> QED  BY <1>7, <2>2, <2>4
<1>11. CASE Coverage!Foreign
  <2>1. /\ rowsMade < MaxRows /\ rowsMade' = rowsMade + 1 /\ foreign < MaxForeign /\ foreign' = foreign + 1
        /\ disturbed' = TRUE
        /\ UNCHANGED <<hashes, planeFaults, landed, start, scan, cut, verdict>>
    BY <1>11 DEF Coverage!Foreign, Coverage!captureVars
  <2>2. Files
    <3>1. {rowsMade', Coverage!Torn} \subseteq Lines
      BY <1>3, <2>1 DEF Lines, Coverage!Broken
    <3> QED  BY <1>2, <1>11, <3>1, HalfRotated DEF Coverage!Foreign
  <2>3. Rest
    BY <1>0, <1>3, <1>4, <2>1 DEF FilesAreInodes
  <2> QED  BY <1>7, <2>2, <2>3
<1>12. CASE \E purpose \in {"begin", "capture", "receive"} : Coverage!Scan(purpose)
  <2>1. PICK purpose \in {"begin", "capture", "receive"} : Coverage!Scan(purpose)
    BY <1>12
  <2>2. /\ scan' = [for |-> purpose, older |-> Coverage!SnapshotOf("older")]
        /\ UNCHANGED <<names, bytes, rowsMade, hashes, planeFaults, start, cut, landed, disturbed, foreign>>
    BY <2>1 DEF Coverage!Scan, Coverage!storeVars
  <2>3. Rest
    BY <1>0, <1>6, <2>2
  <2> QED  BY <1>1, <1>7, <2>2, <2>3
<1>13. CASE Coverage!Begin
  <2>1. /\ start' = [older |-> scan.older, current |-> Coverage!SnapshotOf("current"),
                     writes |-> Len(hashes), faults |-> planeFaults, set |-> TRUE]
        /\ scan' = Coverage!NotScanning /\ landed' = <<>> /\ disturbed' \in BOOLEAN
        /\ UNCHANGED <<names, bytes, rowsMade, hashes, planeFaults, cut, verdict, foreign>>
    BY <1>13 DEF Coverage!Begin, Coverage!storeVars
  <2>2. start' \in Starts /\ start'.writes = Len(hashes) /\ start'.faults = planeFaults
    BY <1>0, <1>8, <2>1, SnapshotsAre DEF FilesAreInodes
  <2>3. Rest
    BY <1>0, <1>5, <1>8, <2>1, <2>2 DEF FilesAreInodes
  <2> QED  BY <1>1, <1>7, <2>1, <2>3
<1>14. CASE Coverage!Capture \/ Coverage!Receive
  <2>1. /\ scan' = Coverage!NotScanning
        /\ UNCHANGED <<names, bytes, rowsMade, hashes, planeFaults, start, landed, disturbed, foreign>>
    BY <1>14 DEF Coverage!Capture, Coverage!Receive, Coverage!storeVars
  <2>2. Rest
    BY <1>0, <1>5, <2>1
  <2> QED  BY <1>1, <1>7, <2>1, <2>2
<1>15. CASE Coverage!RestartProducer
  <2>1. /\ scan' = Coverage!NotScanning /\ start' = Coverage!NoStart /\ hashes' = <<>> /\ landed' = <<>>
        /\ disturbed' = FALSE
        /\ UNCHANGED <<names, bytes, rowsMade, planeFaults, cut, verdict, foreign>>
    BY <1>15 DEF Coverage!RestartProducer, Coverage!storeVars
  <2>2. start' \in Starts /\ start'.writes = 0 /\ start'.faults = 0
    BY <2>1, SnapshotsAre DEF Coverage!NoStart
  <2>3. planeFaults \in Nat
    BY <1>0 DEF FilesAreInodes
  <2>4. start'.writes <= Len(hashes') /\ start'.faults <= planeFaults'
    BY <2>1, <2>2, <2>3, NoLines
  <2>5. Rest
    BY <1>0, <1>5, <2>1, <2>2, <2>4, NoLines
  <2> QED  BY <1>1, <1>7, <2>1, <2>5
<1>16. CASE UNCHANGED coverageVars
  <2>1. Rest
    BY <1>0, <1>4, <1>16 DEF coverageVars
  <2> QED  BY <1>1, <1>7, <1>16, <2>1 DEF coverageVars
<1> QED  BY <1>9, <1>10, <1>11, <1>12, <1>13, <1>14, <1>15, <1>16 DEF Coverage!Next

\* What a file of the window gained, as RowsOf takes it.
GainedOf(f) == IF f.inode = NoFile \/ Coverage!Historical(f) THEN <<>> ELSE Coverage!Gained(f)

LEMMA GainedIs ==
    ASSUME PlaneTypes, NEW f \in Snapshot,
           f.inode = start.current.inode => Coverage!IsPrefix(start.current.rows, f.rows)
    PROVE  /\ Coverage!Gained(f) = After(f.rows, IF f.inode = start.current.inode THEN Len(start.current.rows) ELSE 0)
           /\ Coverage!Gained(f) \in Seq(Lines)
           /\ Coverage!ToSet(Coverage!Gained(f)) \subseteq Coverage!ToSet(f.rows)
<1> DEFINE n == IF f.inode = start.current.inode THEN Len(start.current.rows) ELSE 0
<1>1. f.rows \in Seq(Lines) /\ start.current.rows \in Seq(Lines)
  BY DEF PlaneTypes, Snapshot
<1>2. n \in 0..Len(f.rows)
  BY <1>1, PrefixStays, NoLines DEF Coverage!IsPrefix
<1>3. Coverage!Gained(f) = After(f.rows, n)
  BY DEF Coverage!Gained, After
<1> HIDE DEF n
<1>4. Coverage!Gained(f) \in Seq(Lines) /\ Coverage!ToSet(Coverage!Gained(f)) \subseteq Coverage!ToSet(f.rows)
  BY <1>1, <1>2, <1>3, AfterProperties, Holdings
<1> QED  BY <1>3, <1>4 DEF n

\* The rows of a complete window are in its ranges.
LEMMA RangesHoldTheWindow ==
    ASSUME PlaneTypes, NEW first \in Snapshot, NEW last \in Snapshot, Coverage!Complete(first, last)
    PROVE  /\ Coverage!Ranges({first, last}) \subseteq Snapshot
           /\ Coverage!ToSet(Coverage!Admitted)
                 \subseteq UNION {Coverage!ToSet(r.rows) : r \in Coverage!Ranges({first, last})}
<1>1. \A f \in {first, last} : f.inode # NoFile /\ f.inode = start.current.inode =>
         Coverage!IsPrefix(start.current.rows, f.rows)
  BY DEF Coverage!Complete
<1>2. Coverage!Admitted = GainedOf(first) \o GainedOf(last)
  BY DEF Coverage!Complete, Coverage!SameRows, Coverage!RowsOf, GainedOf
<1>3. ASSUME NEW f \in {first, last}
      PROVE  /\ GainedOf(f) \in Seq(Lines)
             /\ Coverage!ToSet(GainedOf(f))
                   \subseteq UNION {Coverage!ToSet(r.rows) : r \in Coverage!Ranges({first, last})}
  <2>1. CASE f.inode = NoFile \/ Coverage!Historical(f)
    BY <2>1, NoLines DEF GainedOf, Coverage!ToSet
  <2>2. CASE f.inode # NoFile /\ ~Coverage!Historical(f)
    <3>1. /\ Coverage!Gained(f) \in Seq(Lines)
          /\ Coverage!ToSet(Coverage!Gained(f)) \subseteq Coverage!ToSet(f.rows)
      BY <1>1, <2>2, GainedIs
    <3>2. f \in Coverage!Ranges({first, last}) /\ GainedOf(f) = Coverage!Gained(f)
      BY <2>2 DEF Coverage!Ranges, GainedOf
    <3> QED  BY <3>1, <3>2
  <2> QED  BY <2>1, <2>2
<1>4. Coverage!ToSet(Coverage!Admitted) = Coverage!ToSet(GainedOf(first)) \cup Coverage!ToSet(GainedOf(last))
  BY <1>2, <1>3, Holdings
<1> QED  BY <1>3, <1>4 DEF Coverage!Ranges

Certified ==
    /\ PlaneTypes
    /\ start.set /\ planeFaults = start.faults => landed = Coverage!Admitted
    /\ scan.for = "capture" => start.set
    /\ scan.for = "receive" => cut # NoCut
    /\ cut # NoCut => /\ cut.ranges \subseteq Snapshot
                      /\ Coverage!ToSet(cut.landed) \subseteq UNION {Coverage!ToSet(r.rows) : r \in cut.ranges}
    /\ Coverage!CompleteIsTrue

LEMMA ReceiveIsTrue ==
    ASSUME PlaneTypes, Certified, Coverage!Receive
    PROVE  Coverage!CompleteIsTrue'
<1> DEFINE found == {scan.older, Coverage!SnapshotOf("current")}
           kept(r) == \E f \in found : f.inode = r.inode /\ Coverage!IsPrefix(r.rows, f.rows)
           held == UNION {Coverage!ToSet(f.rows) : f \in found}
<1>1. /\ cut # NoCut
      /\ verdict' = IF \A r \in cut.ranges : kept(r)
                    THEN [complete |-> TRUE, missing |-> Coverage!ToSet(cut.landed) \ held]
                    ELSE Coverage!NoVerdict
  BY DEF Certified, Coverage!Receive
<1>2. found \subseteq Snapshot
  BY SnapshotsAre DEF PlaneTypes
<1>3. CASE \A r \in cut.ranges : kept(r)
  <2>1. ASSUME NEW r \in cut.ranges PROVE Coverage!ToSet(r.rows) \subseteq held
    <3>1. PICK f \in found : Coverage!IsPrefix(r.rows, f.rows)
      BY <1>3, <2>1
    <3>2. r.rows \in Seq(Lines) /\ f.rows \in Seq(Lines)
      BY <1>1, <1>2, <2>1 DEF Certified, Snapshot
    <3> QED  BY <3>1, <3>2, Holdings
  <2>2. Coverage!ToSet(cut.landed) \subseteq held
    BY <1>1, <2>1 DEF Certified
  <2> QED  BY <1>1, <1>3, <2>2 DEF Coverage!CompleteIsTrue
<1>4. CASE ~\A r \in cut.ranges : kept(r)
  BY <1>1, <1>4 DEF Coverage!CompleteIsTrue, Coverage!NoVerdict
<1> QED  BY <1>3, <1>4

LEMMA CertifiedStep ==
    ASSUME FilesAreInodes, Certified, [Coverage!Next]_coverageVars
    PROVE  Certified'
<1>0. PlaneTypes /\ PlaneTypes'
  BY PlaneStep DEF Certified
<1>1. /\ hashes \in Seq(Coverage!Rows) /\ start.writes \in 0..Len(hashes) /\ start.faults <= planeFaults
      /\ planeFaults \in Nat /\ start.faults \in Nat
      /\ Coverage!Admitted = After(hashes, start.writes)
  BY <1>0 DEF PlaneTypes, Coverage!TypeOK, Coverage!Admitted, After, FilesAreInodes
<1> DEFINE Kept == /\ start'.set /\ planeFaults' = start'.faults => landed' = Coverage!Admitted'
                   /\ scan'.for = "capture" => start'.set
                   /\ scan'.for = "receive" => cut' # NoCut
           Covers == cut' # NoCut =>
                      /\ cut'.ranges \subseteq Snapshot
                      /\ Coverage!ToSet(cut'.landed) \subseteq UNION {Coverage!ToSet(r.rows) : r \in cut'.ranges}
<1>2. Kept /\ Covers /\ Coverage!CompleteIsTrue' => Certified'
  BY <1>0 DEF Certified, Coverage!CompleteIsTrue, Coverage!ToSet
<1>3. cut' = cut => Covers
  BY DEF Certified
<1>4. verdict' = verdict \/ verdict' = Coverage!NoVerdict => Coverage!CompleteIsTrue'
  BY DEF Certified, Coverage!CompleteIsTrue, Coverage!NoVerdict
<1>5. CASE Coverage!Produce
  <2>1. /\ rowsMade' \in Coverage!Rows /\ hashes' = Append(hashes, rowsMade') /\ landed' = Append(landed, rowsMade')
        /\ UNCHANGED <<planeFaults, start, scan, cut, verdict, foreign>>
    BY <1>0, <1>5 DEF Coverage!Produce, Coverage!captureVars, PlaneTypes, Coverage!TypeOK, Coverage!Rows, FilesAreInodes
  <2>2. Coverage!Admitted' = Append(Coverage!Admitted, rowsMade')
    <3>1. Coverage!Admitted' = After(Append(hashes, rowsMade'), start.writes)
      BY <2>1 DEF Coverage!Admitted, After
    <3> QED  BY <1>1, <2>1, <3>1, AfterAppend
  <2>3. Kept
    BY <2>1, <2>2 DEF Certified
  <2> QED  BY <1>2, <1>3, <1>4, <2>1, <2>3
<1>6. CASE Coverage!ProduceFails
  <2>1. planeFaults' = planeFaults + 1 /\ UNCHANGED <<hashes, start, scan, cut, verdict, foreign>>
    BY <1>6 DEF Coverage!ProduceFails, Coverage!captureVars
  <2>2. planeFaults' # start'.faults
    BY <1>1, <2>1
  <2>3. Kept
    BY <2>1, <2>2 DEF Certified
  <2> QED  BY <1>2, <1>3, <1>4, <2>1, <2>3
<1>7. CASE Coverage!Foreign
  <2>1. UNCHANGED <<hashes, planeFaults, landed, start, scan, cut, verdict>>
    BY <1>7 DEF Coverage!Foreign, Coverage!captureVars
  <2>2. Coverage!Admitted' = Coverage!Admitted
    BY <2>1 DEF Coverage!Admitted
  <2>3. Kept
    BY <2>1, <2>2 DEF Certified
  <2> QED  BY <1>2, <1>3, <1>4, <2>1, <2>3
<1>8. CASE Coverage!Scan("begin") \/ (start.set /\ Coverage!Scan("capture"))
             \/ (cut # NoCut /\ cut.complete /\ Coverage!Scan("receive"))
  <2>1. /\ verdict' = Coverage!NoVerdict /\ UNCHANGED <<hashes, planeFaults, landed, start, cut>>
        /\ \/ scan'.for = "begin"
           \/ scan'.for = "capture" /\ start.set
           \/ scan'.for = "receive" /\ cut # NoCut
    BY <1>8 DEF Coverage!Scan
  <2>2. Coverage!Admitted' = Coverage!Admitted
    BY <2>1 DEF Coverage!Admitted
  <2>3. Kept
    BY <2>1, <2>2 DEF Certified
  <2> QED  BY <1>2, <1>3, <1>4, <2>1, <2>3
<1>9. CASE Coverage!Begin
  <2>1. /\ start'.writes = Len(hashes) /\ landed' = <<>> /\ scan' = Coverage!NotScanning
        /\ UNCHANGED <<hashes, cut, verdict>>
    BY <1>9 DEF Coverage!Begin
  <2>2. Coverage!Admitted' = <<>>
    BY <1>1, <2>1 DEF Coverage!Admitted
  <2>3. Kept
    BY <2>1, <2>2 DEF Coverage!NotScanning
  <2> QED  BY <1>2, <1>3, <1>4, <2>1, <2>3
<1>10. CASE Coverage!Capture
  <2> DEFINE last == Coverage!SnapshotOf("current")
             complete == Coverage!Complete(scan.older, last)
  <2>1. /\ cut' = [complete |-> complete, clean |-> ~disturbed,
                   landed |-> IF complete THEN landed ELSE <<>>,
                   ranges |-> IF complete THEN Coverage!Ranges({scan.older, last}) ELSE {}]
        /\ scan' = Coverage!NotScanning /\ UNCHANGED <<hashes, planeFaults, start, verdict, landed>>
        /\ scan.for = "capture"
    BY <1>10 DEF Coverage!Capture
  <2>2. Coverage!Admitted' = Coverage!Admitted
    BY <2>1 DEF Coverage!Admitted
  <2>3. Kept
    BY <2>1, <2>2 DEF Certified, Coverage!NotScanning
  <2>4. CASE complete
    <3>1. planeFaults = start.faults
      BY <2>4 DEF Coverage!Complete
    <3>2. landed = Coverage!Admitted
      BY <2>1, <3>1 DEF Certified
    <3>3. scan.older \in Snapshot /\ last \in Snapshot
      BY <1>0, SnapshotsAre DEF PlaneTypes
    <3> HIDE DEF last
    <3>4. /\ Coverage!Ranges({scan.older, last}) \subseteq Snapshot
          /\ Coverage!ToSet(Coverage!Admitted)
                \subseteq UNION {Coverage!ToSet(r.rows) : r \in Coverage!Ranges({scan.older, last})}
      BY <1>0, <2>4, <3>3, RangesHoldTheWindow
    <3>5. cut'.ranges = Coverage!Ranges({scan.older, last}) /\ cut'.landed = Coverage!Admitted
      BY <2>1, <2>4, <3>2
    <3>6. Covers
      BY <3>4, <3>5
    <3> QED  BY <1>2, <1>4, <2>1, <2>3, <3>6
  <2>5. CASE ~complete
    <3>1. cut'.ranges = {} /\ cut'.landed = <<>>
      BY <2>1, <2>5
    <3>2. Covers
      BY <3>1, NoLines DEF Coverage!ToSet
    <3> QED  BY <1>2, <1>4, <2>1, <2>3, <3>2
  <2> QED  BY <2>4, <2>5
<1>11. CASE Coverage!Receive
  <2>1. scan' = Coverage!NotScanning /\ UNCHANGED <<hashes, planeFaults, start, cut, landed>>
    BY <1>11 DEF Coverage!Receive
  <2>2. Coverage!Admitted' = Coverage!Admitted
    BY <2>1 DEF Coverage!Admitted
  <2>3. Kept
    BY <2>1, <2>2 DEF Certified, Coverage!NotScanning
  <2>4. Coverage!CompleteIsTrue'
    BY <1>0, <1>11, ReceiveIsTrue
  <2> QED  BY <1>2, <1>3, <2>1, <2>3, <2>4
<1>12. CASE Coverage!RestartProducer
  <2>1. /\ scan' = Coverage!NotScanning /\ start' = Coverage!NoStart
        /\ UNCHANGED <<cut, verdict>>
    BY <1>12 DEF Coverage!RestartProducer
  <2>2. Kept
    BY <2>1 DEF Coverage!NotScanning, Coverage!NoStart
  <2> QED  BY <1>2, <1>3, <1>4, <2>1, <2>2
<1>13. CASE UNCHANGED coverageVars
  <2>1. UNCHANGED <<hashes, planeFaults, landed, start, scan, cut, verdict>>
    BY <1>13 DEF coverageVars
  <2>2. Coverage!Admitted' = Coverage!Admitted
    BY <2>1 DEF Coverage!Admitted
  <2>3. Kept
    BY <2>1, <2>2 DEF Certified
  <2> QED  BY <1>2, <1>3, <1>4, <2>1, <2>3
<1> QED  BY <1>5, <1>6, <1>7, <1>8, <1>9, <1>10, <1>11, <1>12, <1>13 DEF Coverage!Next

\* A plane received as complete misses no row the producer wrote in the window,
\* for any number of rows, rotations and steps of other processes, whichever
\* inode comes back (delivery-journal-coverage.mjs:126).
THEOREM CompleteIsTrueHolds == FilesAreInodes /\ Coverage!Spec => []CompleteIsTrue
<1> SUFFICES ASSUME FilesAreInodes PROVE Coverage!Spec => []CompleteIsTrue
  OBVIOUS
<1>1. Coverage!Init => Certified
  <2> SUFFICES ASSUME Coverage!Init PROVE Certified
    OBVIOUS
  <2>1. PlaneTypes
    BY PlaneInit
  <2>2. ~start.set /\ scan.for = "nothing" /\ cut = NoCut /\ ~verdict.complete
    BY DEF Coverage!Init, Coverage!NoStart, Coverage!NotScanning, Coverage!NoVerdict
  <2> QED  BY <2>1, <2>2 DEF Certified, Coverage!CompleteIsTrue
<1>2. Certified /\ [Coverage!Next]_(Coverage!planeVars) => Certified'
  BY CertifiedStep DEF Coverage!planeVars, coverageVars
<1>3. Certified => CompleteIsTrue
  BY DEF Certified, CompleteIsTrue
<1> QED  BY <1>1, <1>2, <1>3, PTL DEF Coverage!Spec

-----------------------------------------------------------------------------
(* What the two files hold while nothing disturbs the window.              *)

StartRows == start.current.rows

\* The file of the start is still the one that is appended to.
NotRotated ==
    /\ names["current"] = start.current.inode
    /\ Coverage!SnapshotOf("older") = start.older
    /\ names["current"] = NoFile => Coverage!Admitted = <<>>
    /\ names["current"] # NoFile =>
          /\ Coverage!IsPrefix(StartRows, bytes[names["current"]])
          /\ Coverage!Admitted = After(bytes[names["current"]], Len(StartRows))

\* There was no file at the start.
BegunSince ==
    /\ start.current.inode = NoFile
    /\ Coverage!SnapshotOf("older") = start.older
    /\ names["current"] \notin {NoFile, start.older.inode}
    /\ Coverage!Admitted = bytes[names["current"]]

\* The file of the start, or the first one, is the older one, the other is new.
RotatedOnce ==
    /\ names["older"] # NoFile /\ start.current.inode \in {names["older"], NoFile}
    /\ names["older"] # start.older.inode
    /\ names["current"] \notin {NoFile, start.older.inode, start.current.inode}
    /\ bytes[names["older"]] \in Seq(Coverage!Rows)
    /\ Coverage!IsPrefix(StartRows, bytes[names["older"]])
    /\ Coverage!Admitted = After(bytes[names["older"]], Len(StartRows)) \o bytes[names["current"]]

Undisturbed ==
    /\ planeFaults = start.faults
    /\ StartRows \in Seq(Coverage!Rows)
    /\ start.older.inode # NoFile => start.current.inode # start.older.inode
    /\ start.current.inode = NoFile => StartRows = <<>>
    /\ names["current"] # NoFile => bytes[names["current"]] \in Seq(Coverage!Rows)
    /\ scan.for = "capture" => scan.older = Coverage!SnapshotOf("older")
    /\ NotRotated \/ BegunSince \/ RotatedOnce

WindowInv ==
    /\ PlaneTypes
    /\ scan.for = "capture" => start.set
    /\ start.set /\ ~disturbed => Undisturbed
    /\ Coverage!CleanIsComplete

LEMMA RowsAreWhole ==
    ASSUME FilesAreInodes, NEW s \in Seq(Lines)
    PROVE  /\ s \in Seq(Coverage!Rows) <=> Coverage!ToSet(s) \subseteq Coverage!Rows
           /\ s \in Seq(Coverage!Rows) /\ s # <<>> => Coverage!Last(s) # Coverage!Torn
<1>1. Coverage!Torn \notin Coverage!Rows
  BY DEF Coverage!Torn, Coverage!Rows
<1>2. ASSUME s \in Seq(Coverage!Rows) PROVE \A i \in DOMAIN s : s[i] \in Coverage!Rows /\ s[i] # Coverage!Torn
  BY <1>1, <1>2
<1>3. s \in Seq(Coverage!Rows) /\ s # <<>> => Len(s) \in DOMAIN s
  OBVIOUS
<1>4. ASSUME Coverage!ToSet(s) \subseteq Coverage!Rows PROVE s \in Seq(Coverage!Rows)
  <2>1. \A i \in 1..Len(s) : s[i] \in Coverage!Rows
    BY <1>4 DEF Coverage!ToSet
  <2>2. Len(s) \in Nat /\ s = [i \in 1..Len(s) |-> s[i]]
    OBVIOUS
  <2> QED  BY <2>1, <2>2
<1> QED  BY <1>2, <1>3, <1>4 DEF Coverage!ToSet, Coverage!Last

LEMMA SnapshotIs ==
    ASSUME FilesAreInodes, PlaneTypes, NEW n \in {"older", "current"}
    PROVE  /\ names[n] \in Coverage!Identity
           /\ Coverage!SnapshotOf(n).inode = names[n]
           /\ names[n] = NoFile => Coverage!SnapshotOf(n).rows = <<>>
           /\ names[n] # NoFile => names[n] \in Inodes /\ Coverage!SnapshotOf(n).rows = bytes[names[n]]
BY DEF PlaneTypes, Coverage!TypeOK, Coverage!Identity, Coverage!SnapshotOf, Coverage!Absent

LEMMA CleanCapture ==
    ASSUME FilesAreInodes, PlaneTypes, Undisturbed, scan.for = "capture"
    PROVE  Coverage!Complete(scan.older, Coverage!SnapshotOf("current"))
<1> DEFINE o == Coverage!SnapshotOf("older")
           c == Coverage!SnapshotOf("current")
<1>1. /\ scan.older = o /\ o \in Snapshot /\ c \in Snapshot
      /\ o.inode = names["older"] /\ c.inode = names["current"]
      /\ names["older"] # NoFile => o.rows = bytes[names["older"]]
      /\ names["current"] # NoFile => c.rows = bytes[names["current"]]
      /\ names["older"] # NoFile => names["older"] # names["current"]
  BY SnapshotsAre, SnapshotIs DEF PlaneTypes, Undisturbed
<1>2. o.rows \in Seq(Lines) /\ c.rows \in Seq(Lines)
  BY <1>1 DEF Snapshot
<1>3. Coverage!Admitted \in Seq(Coverage!Rows)
  <2>1. hashes \in Seq(Coverage!Rows) /\ start.writes \in 0..Len(hashes)
    BY DEF PlaneTypes, Coverage!TypeOK
  <2> QED  BY <2>1, AfterProperties DEF Coverage!Admitted, After
<1> HIDE DEF o, c
<1>4. StartRows # <<>> => Coverage!Last(StartRows) # Coverage!Torn
  <2>1. StartRows \in Seq(Lines)
    BY DEF PlaneTypes, Snapshot, StartRows
  <2> QED  BY <2>1, RowsAreWhole DEF Undisturbed
<1>5. ASSUME NEW f \in {o, c}, f.inode # NoFile, f.inode = start.current.inode
      PROVE  Coverage!IsPrefix(StartRows, f.rows)
  <2>1. CASE NotRotated
    BY <1>1, <1>5, <2>1 DEF NotRotated
  <2>2. CASE BegunSince
    BY <1>5, <2>2 DEF BegunSince
  <2>3. CASE RotatedOnce
    BY <1>1, <1>5, <2>3 DEF RotatedOnce
  <2> QED  BY <2>1, <2>2, <2>3 DEF Undisturbed
<1>6. start.current.inode # NoFile => \E f \in {o, c} : f.inode # NoFile /\ f.inode = start.current.inode
  BY <1>1 DEF Undisturbed, NotRotated, BegunSince, RotatedOnce
<1>7. \A f \in {o, c} : f.inode # NoFile /\ Coverage!Historical(f) => f = start.older
  <2>1. CASE NotRotated
    BY <1>1, <2>1 DEF NotRotated, Coverage!Historical, o
  <2>2. CASE BegunSince
    BY <1>1, <2>2 DEF BegunSince, Coverage!Historical, o
  <2>3. CASE RotatedOnce
    BY <1>1, <2>3 DEF RotatedOnce, Coverage!Historical
  <2> QED  BY <2>1, <2>2, <2>3 DEF Undisturbed
<1>8. \A f \in {o, c} : f.inode # NoFile =>
         Coverage!Gained(f) = After(f.rows, IF f.inode = start.current.inode THEN Len(StartRows) ELSE 0)
  BY <1>1, <1>5, GainedIs DEF StartRows
<1>9. \A s \in Seq(Lines) : s \o <<>> = s /\ <<>> \o s = s /\ After(s, 0) = s
  BY ConcatNothing
<1>10. GainedOf(o) \o GainedOf(c) = Coverage!Admitted
  <2>1. CASE NotRotated
    <3>1. GainedOf(o) = <<>>
      <4>1. CASE o.inode = NoFile
        BY <4>1 DEF GainedOf
      <4>2. CASE o.inode # NoFile
        <5>1. o = start.older /\ Coverage!Historical(o)
          BY <2>1, <4>2 DEF NotRotated, Undisturbed, Coverage!Historical, o
        <5> QED  BY <5>1 DEF GainedOf
      <4> QED  BY <4>1, <4>2
    <3>2. GainedOf(c) = Coverage!Admitted
      <4>1. CASE c.inode = NoFile
        BY <1>1, <2>1, <4>1 DEF GainedOf, NotRotated
      <4>2. CASE c.inode # NoFile
        <5>1. c.inode = start.current.inode /\ GainedOf(c) = Coverage!Gained(c)
          BY <1>1, <2>1, <4>2 DEF NotRotated, GainedOf, Coverage!Historical
        <5> QED  BY <1>1, <1>8, <2>1, <4>2, <5>1 DEF NotRotated
      <4> QED  BY <4>1, <4>2
    <3>3. Coverage!Admitted \in Seq(Lines)
      BY <1>3 DEF Lines
    <3> QED  BY <1>9, <3>1, <3>2, <3>3
  <2>2. CASE BegunSince
    <3>1. GainedOf(o) = <<>>
      BY <2>2 DEF GainedOf, BegunSince, Coverage!Historical, o
    <3>2. GainedOf(c) = Coverage!Gained(c) /\ c.inode # NoFile /\ c.inode # start.current.inode
      BY <1>1, <2>2 DEF BegunSince, GainedOf, Coverage!Historical
    <3>3. GainedOf(c) = c.rows
      BY <1>2, <1>8, <1>9, <3>2
    <3> QED  BY <1>1, <1>2, <1>9, <2>2, <3>1, <3>3 DEF BegunSince
  <2>3. CASE RotatedOnce
    <3>1. /\ o.inode # NoFile /\ ~Coverage!Historical(o) /\ GainedOf(o) = Coverage!Gained(o)
          /\ c.inode # NoFile /\ ~Coverage!Historical(c) /\ GainedOf(c) = Coverage!Gained(c)
          /\ c.inode # start.current.inode
      BY <1>1, <2>3 DEF RotatedOnce, GainedOf, Coverage!Historical
    <3>2. GainedOf(c) = c.rows
      BY <1>2, <1>8, <1>9, <3>1
    <3>3. GainedOf(o) = After(o.rows, Len(StartRows))
      <4>1. CASE o.inode = start.current.inode
        BY <1>8, <3>1, <4>1
      <4>2. CASE o.inode # start.current.inode
        <5>1. StartRows = <<>>
          BY <1>1, <2>3, <4>2 DEF RotatedOnce, Undisturbed
        <5> QED  BY <1>8, <3>1, <4>2, <5>1, NoLines
      <4> QED  BY <4>1, <4>2
    <3> QED  BY <1>1, <2>3, <3>1, <3>2, <3>3 DEF RotatedOnce
  <2> QED  BY <2>1, <2>2, <2>3 DEF Undisturbed
<1>11. Coverage!RowsOf(o, c) = Coverage!Admitted
  BY <1>10 DEF Coverage!RowsOf, GainedOf
<1>12. Coverage!ToSet(Coverage!Admitted) \subseteq Coverage!Rows
  <2>1. Coverage!Admitted \in Seq(Lines)
    BY <1>3 DEF Lines
  <2> QED  BY <1>3, <2>1, RowsAreWhole
<1>13. planeFaults = start.faults
  BY DEF Undisturbed
<1>14. Coverage!Complete(o, c)
  BY <1>4, <1>5, <1>6, <1>7, <1>11, <1>12, <1>13 DEF Coverage!Complete, Coverage!SameRows, StartRows
<1> QED  BY <1>1, <1>14 DEF o, c

\* A row of the producer, in a file that is there, in a new one, or behind a
\* rotation.
LEMMA ProduceStays ==
    ASSUME FilesAreInodes, PlaneTypes, Undisturbed, Coverage!Produce, ~disturbed'
    PROVE  Undisturbed'
<1>1. PICK place \in Coverage!Places :
         Coverage!Write(place, rowsMade') /\ disturbed' = (disturbed \/ Coverage!Loses(place))
  BY DEF Coverage!Produce
<1> DEFINE row == rowsMade'
           file == place[1]
           n == Len(StartRows)
<1>2. /\ row \in Coverage!Rows /\ row \in Lines /\ hashes' = Append(hashes, row) /\ scan.for = "nothing"
      /\ UNCHANGED <<planeFaults, start, scan>>
  BY DEF Coverage!Produce, Coverage!captureVars, PlaneTypes, Coverage!TypeOK, Coverage!Rows, Lines, FilesAreInodes
<1>3. /\ Writes(file, place[2], row) /\ place[2] \in BOOLEAN
      /\ names' \in [{"older", "current"} -> Coverage!Identity] /\ bytes' \in [Inodes -> Seq(Lines)]
      /\ names'["older"] # NoFile => names'["older"] # names'["current"]
  BY <1>1, <1>2, LineIsWritten
<1>4. /\ place[2] => names["older"] \in {NoFile, start.older.inode}
      /\ file # names["current"] => file \notin {start.older.inode, start.current.inode}
  BY <1>1 DEF Coverage!Loses
<1>5. Coverage!Admitted' = Append(Coverage!Admitted, row) /\ Coverage!Admitted \in Seq(Coverage!Rows)
  <2>1. hashes \in Seq(Coverage!Rows) /\ start.writes \in 0..Len(hashes)
    BY DEF PlaneTypes, Coverage!TypeOK
  <2>2. Coverage!Admitted = After(hashes, start.writes) /\ Coverage!Admitted' = After(Append(hashes, row), start.writes)
    BY <1>2 DEF Coverage!Admitted, After
  <2> QED  BY <1>2, <2>1, <2>2, AfterAppend, AfterProperties
<1>6. StartRows' = StartRows /\ StartRows \in Seq(Coverage!Rows)
  BY <1>2 DEF StartRows, Undisturbed
<1> HIDE DEF row, file
<1>7. names["older"] \in Coverage!Identity
  BY DEF PlaneTypes, Coverage!TypeOK
<1>8. \A s \in Seq(Coverage!Rows) : Coverage!Behind(s, row) = Append(s, row) /\ Append(s, row) \in Seq(Coverage!Rows)
  <2> TAKE s \in Seq(Coverage!Rows)
  <2>1. s \in Seq(Lines)
    BY DEF Lines
  <2>2. s # <<>> => Coverage!Last(s) # Coverage!Torn
    BY <2>1, RowsAreWhole
  <2> QED  BY <1>2, <2>2 DEF Coverage!Behind
<1>9. UNCHANGED <<planeFaults, start, scan>> /\ scan'.for # "capture"
  BY <1>2
<1> DEFINE Common == /\ planeFaults' = start'.faults
                     /\ StartRows' \in Seq(Coverage!Rows)
                     /\ start'.older.inode # NoFile => start'.current.inode # start'.older.inode
                     /\ start'.current.inode = NoFile => StartRows' = <<>>
                     /\ scan'.for = "capture" => scan'.older = Coverage!SnapshotOf("older")'
<1>10. Common
  BY <1>6, <1>9 DEF Undisturbed
<1>11. Common /\ bytes'[names'["current"]] \in Seq(Coverage!Rows) /\ (NotRotated' \/ BegunSince' \/ RotatedOnce')
         => Undisturbed'
  BY DEF Undisturbed
<1> HIDE DEF Common
<1>12. CASE file = names["current"]
  <2>1. /\ names'["current"] = file /\ names'["older"] = names["older"] /\ file \in Inodes /\ file # NoFile
        /\ bytes'[file] = Coverage!Behind(bytes[file], row)
        /\ names["older"] # NoFile => bytes'[names["older"]] = bytes[names["older"]] /\ names["older"] \in Inodes
    <3>1. /\ names'["older"] = names["older"] /\ names'["current"] = file /\ file \in Inodes
          /\ names'["older"] \in Inodes \ {file} => bytes'[names'["older"]] = bytes[names'["older"]]
          /\ bytes'[file] = Coverage!Behind(bytes[file], row)
      BY <1>3, <1>12 DEF Writes
    <3>2. names["older"] # NoFile => names["older"] \in Inodes \ {file}
      BY <1>3, <1>12, <3>1 DEF Coverage!Identity
    <3> QED  BY <3>1, <3>2 DEF FilesAreInodes
  <2>2. bytes[file] \in Seq(Coverage!Rows)
    BY <1>12, <2>1 DEF Undisturbed
  <2>3. bytes'[file] = Append(bytes[file], row) /\ bytes'[file] \in Seq(Coverage!Rows)
    BY <1>8, <2>1, <2>2
  <2>4. CASE NotRotated
    <3>1. /\ Coverage!IsPrefix(StartRows, bytes[file]) /\ Coverage!Admitted = After(bytes[file], n)
          /\ Coverage!SnapshotOf("older") = start.older /\ file = start.current.inode
      BY <1>12, <2>1, <2>4 DEF NotRotated
    <3>2. Coverage!IsPrefix(StartRows, bytes'[file]) /\ n \in 0..Len(bytes[file])
      BY <1>2, <1>6, <2>2, <2>3, <3>1, PrefixStays
    <3>3. Coverage!Admitted' = After(bytes'[file], n)
      BY <1>2, <1>5, <2>2, <2>3, <3>1, <3>2, AfterAppend
    <3>4. Coverage!SnapshotOf("older")' = Coverage!SnapshotOf("older")
      BY <2>1 DEF Coverage!SnapshotOf
    <3>5. NotRotated'
      BY <1>2, <1>6, <2>1, <3>1, <3>2, <3>3, <3>4 DEF NotRotated
    <3> QED  BY <1>10, <1>11, <2>1, <2>3, <3>5
  <2>5. CASE BegunSince
    <3>1. Coverage!SnapshotOf("older")' = Coverage!SnapshotOf("older")
      BY <2>1 DEF Coverage!SnapshotOf
    <3>2. BegunSince'
      BY <1>2, <1>5, <1>12, <2>1, <2>3, <2>5, <3>1 DEF BegunSince
    <3> QED  BY <1>10, <1>11, <2>1, <2>3, <3>2
  <2>6. CASE RotatedOnce
    <3> DEFINE old == bytes[names["older"]]
    <3>1. /\ old \in Seq(Coverage!Rows) /\ Coverage!IsPrefix(StartRows, old) /\ n \in 0..Len(old)
          /\ Coverage!Admitted = After(old, n) \o bytes[file] /\ bytes'[names["older"]] = old
      BY <1>2, <1>6, <1>12, <2>1, <2>6, PrefixStays DEF RotatedOnce
    <3>2. After(old, n) \in Seq(Coverage!Rows)
      BY <3>1, AfterProperties
    <3> HIDE DEF old
    <3>3. Coverage!Admitted' = After(old, n) \o bytes'[file]
      <4>1. row \in Coverage!Rows
        BY <1>2
      <4>2. After(old, n) \o Append(bytes[file], row) = Append(After(old, n) \o bytes[file], row)
        BY <2>2, <3>2, <4>1, ConcatAppend
      <4> QED  BY <1>5, <2>3, <3>1, <4>2
    <3>4. RotatedOnce'
      BY <1>2, <1>6, <1>12, <2>1, <2>6, <3>1, <3>3 DEF RotatedOnce
    <3> QED  BY <1>10, <1>11, <2>1, <2>3, <3>4
  <2> QED  BY <2>4, <2>5, <2>6 DEF Undisturbed
<1>13. CASE file # names["current"] /\ ~place[2]
  <2>1. /\ names["current"] = NoFile /\ names'["older"] = names["older"] /\ names["older"] # file
        /\ names'["current"] = file /\ file \in Inodes /\ bytes'[file] = Coverage!Behind(<<>>, row)
        /\ names["older"] # NoFile => bytes'[names["older"]] = bytes[names["older"]]
    BY <1>3, <1>7, <1>13 DEF Writes, Coverage!Identity
  <2>2. bytes'[file] = Append(<<>>, row) /\ bytes'[file] \in Seq(Coverage!Rows)
    BY <1>8, <2>1, NoLines
  <2>3. /\ start.current.inode = NoFile /\ Coverage!Admitted = <<>>
        /\ Coverage!SnapshotOf("older") = start.older
    BY <2>1 DEF Undisturbed, NotRotated, BegunSince, RotatedOnce
  <2>4. Coverage!SnapshotOf("older")' = Coverage!SnapshotOf("older")
    BY <2>1 DEF Coverage!SnapshotOf
  <2>5. BegunSince'
    BY <1>2, <1>4, <1>5, <1>13, <2>1, <2>2, <2>3, <2>4 DEF BegunSince, FilesAreInodes
  <2> QED  BY <1>10, <1>11, <2>1, <2>2, <2>5
<1>14. CASE file # names["current"] /\ place[2]
  <2> DEFINE old == bytes[names["current"]]
  <2>1. /\ names["current"] # NoFile /\ names["current"] \in Inodes /\ names'["older"] = names["current"]
        /\ names'["current"] = file /\ file \in Inodes /\ file # NoFile /\ bytes'[file] = Coverage!Behind(<<>>, row)
        /\ bytes'[names["current"]] = old
    <3>1. /\ names["current"] # NoFile /\ names'["older"] = names["current"] /\ names'["current"] = file
          /\ file \in Inodes /\ bytes'[file] = Coverage!Behind(<<>>, row)
          /\ names'["older"] \in Inodes \ {file} => bytes'[names'["older"]] = bytes[names'["older"]]
      BY <1>3, <1>14 DEF Writes
    <3>2. names["current"] \in Inodes \ {file}
      BY <1>3, <1>14, <3>1 DEF Coverage!Identity
    <3> QED  BY <3>1, <3>2 DEF FilesAreInodes
  <2>2. bytes'[file] = Append(<<>>, row) /\ bytes'[file] \in Seq(Coverage!Rows)
    BY <1>8, <2>1, NoLines
  <2>3. old \in Seq(Coverage!Rows)
    BY <2>1 DEF Undisturbed
  <2> HIDE DEF old
  <2>4. /\ names["older"] \in {NoFile, start.older.inode}
        /\ file \notin {NoFile, start.older.inode, start.current.inode}
    BY <1>4, <1>14, <2>1
  <2>5. NotRotated \/ BegunSince
    BY <2>4 DEF Undisturbed, RotatedOnce
  <2>6. /\ start.current.inode \in {names["current"], NoFile} /\ names["current"] # start.older.inode
        /\ Coverage!IsPrefix(StartRows, old) /\ Coverage!Admitted = After(old, n)
    <3>1. CASE NotRotated
      BY <2>1, <3>1 DEF NotRotated, Undisturbed, old
    <3>2. CASE BegunSince
      <4>1. StartRows = <<>> /\ Coverage!Admitted = old
        BY <3>2 DEF BegunSince, Undisturbed, old
      <4>2. Coverage!IsPrefix(<<>>, old) /\ After(old, 0) = old
        BY <2>3, ConcatNothing DEF Coverage!IsPrefix
      <4> QED  BY <2>1, <3>2, <4>1, <4>2, NoLines DEF BegunSince
    <3> QED  BY <2>5, <3>1, <3>2
  <2>7. n \in 0..Len(old) /\ After(old, n) \in Seq(Coverage!Rows)
    BY <1>2, <1>6, <2>3, <2>6, PrefixStays, AfterProperties
  <2>8. Coverage!Admitted' = After(old, n) \o bytes'[file]
    <3>1. After(old, n) \o Append(<<>>, row) = Append(After(old, n) \o <<>>, row)
      BY <1>2, <2>7, NoLines, ConcatAppend
    <3>2. After(old, n) \o <<>> = After(old, n)
      BY <2>7, ConcatNothing
    <3> QED  BY <1>5, <2>2, <2>6, <3>1, <3>2
  <2>9. RotatedOnce'
    BY <1>2, <1>6, <2>1, <2>3, <2>4, <2>6, <2>8 DEF RotatedOnce
  <2> QED  BY <1>10, <1>11, <2>1, <2>2, <2>9
<1> QED  BY <1>3, <1>12, <1>13, <1>14

\* A begin that read two files of one moment, all of their lines whole.
LEMMA BeginOpens ==
    ASSUME FilesAreInodes, PlaneTypes, PlaneTypes', Coverage!Begin, ~disturbed'
    PROVE  Undisturbed'
<1> DEFINE o == Coverage!SnapshotOf("older")
           c == Coverage!SnapshotOf("current")
<1>1. /\ scan.older = o /\ Coverage!ToSet(c.rows) \subseteq Coverage!Rows
      /\ start' = [older |-> o, current |-> c, writes |-> Len(hashes), faults |-> planeFaults, set |-> TRUE]
      /\ scan' = Coverage!NotScanning
      /\ UNCHANGED <<names, bytes, hashes, planeFaults>>
  BY DEF Coverage!Begin, Coverage!storeVars
<1>2. /\ o.inode = names["older"] /\ c.inode = names["current"] /\ c.rows \in Seq(Lines)
      /\ names["current"] = NoFile => c.rows = <<>>
      /\ names["current"] # NoFile => c.rows = bytes[names["current"]]
      /\ names["older"] # NoFile => names["older"] # names["current"]
  BY SnapshotsAre, SnapshotIs DEF PlaneTypes, Snapshot
<1>3. o' = o
  BY <1>1 DEF Coverage!SnapshotOf
<1> HIDE DEF o, c
<1>4. c.rows \in Seq(Coverage!Rows)
  BY <1>1, <1>2, RowsAreWhole
<1>5. StartRows' = c.rows /\ start'.older = o /\ start'.current.inode = names["current"] /\ start'.faults = planeFaults'
  BY <1>1, <1>2 DEF StartRows
<1>6. Coverage!Admitted' = <<>>
  <2>1. hashes \in Seq(Coverage!Rows) /\ start'.writes = Len(hashes) /\ hashes' = hashes
    BY <1>1 DEF PlaneTypes, Coverage!TypeOK
  <2>2. Coverage!Admitted' = After(hashes, Len(hashes))
    BY <2>1 DEF Coverage!Admitted, After
  <2> QED  BY <2>1, <2>2, ConcatNothing
<1>7. Coverage!IsPrefix(c.rows, c.rows) /\ After(c.rows, Len(c.rows)) = <<>>
  BY <1>4, ConcatNothing DEF Coverage!IsPrefix
<1>8. NotRotated'
  BY <1>1, <1>2, <1>3, <1>5, <1>6, <1>7 DEF NotRotated, o
<1>9. scan'.for # "capture"
  BY <1>1 DEF Coverage!NotScanning
<1> QED  BY <1>1, <1>2, <1>4, <1>5, <1>8, <1>9 DEF Undisturbed

LEMMA UndisturbedStays ==
    ASSUME Undisturbed, UNCHANGED <<names, bytes, hashes, planeFaults, start>>,
           scan'.for = "capture" => scan'.older = Coverage!SnapshotOf("older")
    PROVE  Undisturbed'
<1>1. Coverage!SnapshotOf("older")' = Coverage!SnapshotOf("older") /\ Coverage!Admitted' = Coverage!Admitted
      /\ StartRows' = StartRows
  BY DEF Coverage!SnapshotOf, Coverage!Admitted, StartRows
<1>2. /\ NotRotated => NotRotated'
      /\ BegunSince => BegunSince'
      /\ RotatedOnce => RotatedOnce'
  BY <1>1 DEF NotRotated, BegunSince, RotatedOnce
<1> QED  BY <1>1, <1>2 DEF Undisturbed

LEMMA WindowStep ==
    ASSUME FilesAreInodes, WindowInv, [Coverage!Next]_coverageVars
    PROVE  WindowInv'
<1>0. PlaneTypes /\ PlaneTypes'
  BY PlaneStep DEF WindowInv
<1> DEFINE Open == start'.set /\ ~disturbed' => Undisturbed'
           Asked == scan'.for = "capture" => start'.set
<1>1. cut' = cut => Coverage!CleanIsComplete'
  BY DEF WindowInv, Coverage!CleanIsComplete
<1>2. Open /\ Asked /\ Coverage!CleanIsComplete' => WindowInv'
  BY <1>0 DEF WindowInv
<1>3. CASE Coverage!Produce
  <2>1. UNCHANGED <<start, scan, cut>> /\ (disturbed => disturbed')
    BY <1>3 DEF Coverage!Produce, Coverage!captureVars
  <2>2. Open
    BY <1>0, <1>3, <2>1, ProduceStays DEF WindowInv
  <2> QED  BY <1>1, <1>2, <2>1, <2>2 DEF WindowInv
<1>4. CASE Coverage!ProduceFails \/ Coverage!Foreign
  <2>1. disturbed' /\ UNCHANGED <<start, scan, cut>>
    BY <1>4 DEF Coverage!ProduceFails, Coverage!Foreign, Coverage!captureVars
  <2> QED  BY <1>1, <1>2, <2>1 DEF WindowInv
<1>5. CASE Coverage!Scan("begin") \/ (start.set /\ Coverage!Scan("capture"))
             \/ (cut # NoCut /\ cut.complete /\ Coverage!Scan("receive"))
  <2>1. /\ UNCHANGED <<names, bytes, hashes, planeFaults, start, disturbed, cut>>
        /\ scan'.older = Coverage!SnapshotOf("older")
        /\ scan'.for = "capture" => start.set
    BY <1>5 DEF Coverage!Scan, Coverage!storeVars
  <2>2. Open
    BY <2>1, UndisturbedStays DEF WindowInv
  <2> QED  BY <1>1, <1>2, <2>1, <2>2
<1>6. CASE Coverage!Begin
  <2>1. cut' = cut /\ scan'.for # "capture"
    BY <1>6 DEF Coverage!Begin, Coverage!NotScanning
  <2> QED  BY <1>0, <1>1, <1>2, <1>6, <2>1, BeginOpens
<1>7. CASE Coverage!Capture
  <2>1. /\ UNCHANGED <<names, bytes, hashes, planeFaults, start, disturbed>>
        /\ scan'.for # "capture" /\ scan.for = "capture"
        /\ cut'.clean = ~disturbed
        /\ cut'.complete = Coverage!Complete(scan.older, Coverage!SnapshotOf("current"))
    BY <1>7 DEF Coverage!Capture, Coverage!NotScanning, Coverage!storeVars
  <2>2. Open
    BY <2>1, UndisturbedStays DEF WindowInv
  <2>3. Coverage!CleanIsComplete'
    BY <1>0, <2>1, CleanCapture DEF WindowInv, Coverage!CleanIsComplete
  <2> QED  BY <1>2, <2>1, <2>2, <2>3
<1>8. CASE Coverage!Receive
  <2>1. /\ UNCHANGED <<names, bytes, hashes, planeFaults, start, disturbed, cut>>
        /\ scan'.for # "capture"
    BY <1>8 DEF Coverage!Receive, Coverage!NotScanning, Coverage!storeVars
  <2>2. Open
    BY <2>1, UndisturbedStays DEF WindowInv
  <2> QED  BY <1>1, <1>2, <2>1, <2>2
<1>9. CASE Coverage!RestartProducer
  <2>1. cut' = cut /\ ~start'.set /\ scan'.for # "capture"
    BY <1>9 DEF Coverage!RestartProducer, Coverage!NotScanning, Coverage!NoStart
  <2> QED  BY <1>1, <1>2, <2>1
<1>10. CASE UNCHANGED coverageVars
  <2>1. UNCHANGED <<names, bytes, hashes, planeFaults, start, scan, disturbed, cut>>
    BY <1>10 DEF coverageVars
  <2>2. ASSUME start.set, ~disturbed PROVE scan'.for = "capture" => scan'.older = Coverage!SnapshotOf("older")
    BY <2>1, <2>2 DEF WindowInv, Undisturbed
  <2>3. Open
    BY <2>1, <2>2, UndisturbedStays DEF WindowInv
  <2> QED  BY <1>1, <1>2, <2>1, <2>3 DEF WindowInv
<1> QED  BY <1>3, <1>4, <1>5, <1>6, <1>7, <1>8, <1>9, <1>10 DEF Coverage!Next

\* A capture of a window in which nothing was lost, mistaken or written by others
\* is complete, also across a rotation (delivery-journal-coverage.mjs:127).
THEOREM CleanIsCompleteHolds == FilesAreInodes /\ Coverage!Spec => []CleanIsComplete
<1> SUFFICES ASSUME FilesAreInodes PROVE Coverage!Spec => []CleanIsComplete
  OBVIOUS
<1>1. Coverage!Init => WindowInv
  <2> SUFFICES ASSUME Coverage!Init PROVE WindowInv
    OBVIOUS
  <2>1. PlaneTypes
    BY PlaneInit
  <2>2. ~start.set /\ scan.for = "nothing" /\ cut = NoCut
    BY DEF Coverage!Init, Coverage!NoStart, Coverage!NotScanning
  <2> QED  BY <2>1, <2>2 DEF WindowInv, Coverage!CleanIsComplete
<1>2. WindowInv /\ [Coverage!Next]_(Coverage!planeVars) => WindowInv'
  BY WindowStep DEF Coverage!planeVars, coverageVars
<1>3. WindowInv => CleanIsComplete
  BY DEF WindowInv, CleanIsComplete
<1> QED  BY <1>1, <1>2, <1>3, PTL DEF Coverage!Spec

-----------------------------------------------------------------------------
(* The prospective delivery journal, whose proofs are in ProspectiveProofs.*)

Retention == INSTANCE ProspectiveProofs

LEMMA SameRetention ==
    /\ Prospective!Init <=> Retention!Init
    /\ Prospective!prospectiveVars = Retention!prospectiveVars
    /\ Prospective!Next <=> Retention!Next
    /\ Prospective!TypeOK <=> Retention!TypeOK
<1>1. Prospective!prospectiveVars = Retention!prospectiveVars
  BY DEF Prospective!prospectiveVars, Prospective!journal, Retention!prospectiveVars, Retention!journal
<1>2. \A S : Prospective!Cardinality(S) = Retention!Cardinality(S)
  BY DEF Prospective!Cardinality, Retention!Cardinality
<1>3. Prospective!Init <=> Retention!Init
  BY DEF Prospective!Init, Prospective!Empty, Retention!Init, Retention!Empty
<1>4. Prospective!TypeOK <=> Retention!TypeOK
  BY <1>2 DEF Prospective!TypeOK, Prospective!Row, Prospective!Observation, Prospective!Technical,
     Prospective!OpenTechnical, Prospective!Feedback, Prospective!Transmission, Retention!TypeOK, Retention!Row,
     Retention!Observation, Retention!Technical, Retention!OpenTechnical, Retention!Feedback, Retention!Transmission
<1>5. Prospective!Next <=> Retention!Next
  BY Zenon DEF Prospective!Next, Prospective!SettleKey, Prospective!JoinLearns, Prospective!Retain, Prospective!Bind,
     Prospective!Note, Prospective!Put, Prospective!journal, Prospective!Row, Prospective!Technical,
     Prospective!OpenTechnical, Prospective!Feedback, Prospective!Transmission, Prospective!Observation,
     Prospective!SameBut, Prospective!SameObservation, Prospective!FeedbackFill, Prospective!TransmissionFill,
     Prospective!AuthorizedTechnicalRevision, Prospective!RevisesToUnknown, Prospective!Accepts, Prospective!Parsed,
     Prospective!Outcome, Prospective!Appended, Prospective!CutShort, Prospective!Fails, Prospective!Revising,
     Prospective!Room, Prospective!NewOnes, Prospective!Creating, Prospective!Stated, Prospective!Bound,
     Prospective!Observed, Prospective!OpenKeys, Prospective!Leaves, Prospective!Journal, Prospective!Cardinality,
     Retention!Next, Retention!SettleKey, Retention!JoinLearns, Retention!Retain, Retention!Bind, Retention!Note,
     Retention!Put, Retention!journal, Retention!Row, Retention!Technical, Retention!OpenTechnical,
     Retention!Feedback, Retention!Transmission, Retention!Observation, Retention!SameBut,
     Retention!SameObservation, Retention!FeedbackFill, Retention!TransmissionFill,
     Retention!AuthorizedTechnicalRevision, Retention!RevisesToUnknown, Retention!Accepts, Retention!Parsed,
     Retention!Outcome, Retention!Appended, Retention!CutShort, Retention!Fails, Retention!Revising, Retention!Room,
     Retention!NewOnes, Retention!Creating, Retention!Stated, Retention!Bound, Retention!Observed,
     Retention!OpenKeys, Retention!Leaves, Retention!Journal, Retention!Cardinality
<1> QED  BY <1>1, <1>3, <1>4, <1>5

LEMMA ProspectiveIsRetention == Prospective!Spec => Retention!Spec
<1>1. [Prospective!Next]_Prospective!prospectiveVars => [Retention!Next]_Retention!prospectiveVars
  BY SameRetention DEF Prospective!prospectiveVars, Prospective!journal, Retention!prospectiveVars, Retention!journal
<1> QED  BY <1>1, SameRetention, PTL DEF Prospective!Spec, Retention!Spec

LEMMA RetentionTypeHolds ==
    Retention!ProspectiveBounds /\ Prospective!Spec => []Prospective!TypeOK
<1>1. Retention!RecordsInv => Prospective!TypeOK
  BY SameRetention DEF Retention!RecordsInv
<1> QED
  BY <1>1, ProspectiveIsRetention, Retention!RecordsInvHolds, PTL

-----------------------------------------------------------------------------
(* One behaviour, one plane.                                               *)

LEMMA StepsAreOfPlanes ==
    ASSUME [JournalsNext]_allVars
    PROVE  /\ [Next]_vars
           /\ [TaskRefs!Next]_TaskRefs!refVars
           /\ [Settlement!Next]_Settlement!runVars
           /\ [Events!Next]_Events!segmentVars
           /\ [Prospective!Next]_Prospective!prospectiveVars
           /\ [Coverage!Next]_Coverage!planeVars
<1>1. /\ Next \/ UNCHANGED vars
      /\ TaskRefs!Next \/ UNCHANGED taskRefVars
      /\ Settlement!Next \/ UNCHANGED settlementVars
      /\ Events!Next \/ UNCHANGED eventVars
      /\ Prospective!Next \/ UNCHANGED prospectiveVars
      /\ Coverage!Next \/ UNCHANGED coverageVars
  BY Zenon DEF JournalsNext, Only, allVars
<1>2. /\ UNCHANGED taskRefVars => UNCHANGED TaskRefs!refVars
      /\ UNCHANGED settlementVars => UNCHANGED Settlement!runVars
      /\ UNCHANGED eventVars => UNCHANGED Events!segmentVars
      /\ UNCHANGED prospectiveVars => UNCHANGED Prospective!prospectiveVars
      /\ UNCHANGED coverageVars => UNCHANGED Coverage!planeVars
  BY DEF taskRefVars, settlementVars, eventVars, prospectiveVars, coverageVars, TaskRefs!refVars,
     Settlement!runVars, Events!segmentVars, Prospective!prospectiveVars, Prospective!journal, Coverage!planeVars
<1> QED  BY <1>1, <1>2

\* Whatever is proved of a journal holds when the journals are run together.
LEMMA JournalsAreComponents ==
    JournalsSpec => /\ Spec /\ TaskRefs!Spec /\ Settlement!Spec /\ Events!Spec
                    /\ Prospective!Spec /\ Coverage!Spec
<1>1. JournalsInit => /\ Init /\ TaskRefs!Init /\ Settlement!Init /\ Events!Init
                      /\ Prospective!Init /\ Coverage!Init
  BY DEF JournalsInit
<1> QED
  BY <1>1, StepsAreOfPlanes, PTL
  DEF JournalsSpec, Spec, TaskRefs!Spec, Settlement!Spec, Events!Spec, Prospective!Spec, Coverage!Spec

\* The assumptions of the journals on their constants, beside those of the
\* outcome journal.
JournalsAssumptions ==
    /\ MaxRefFaults \in Nat
    /\ NoneIsNoRun /\ RetentionIsFinite /\ FilesAreInodes /\ Retention!ProspectiveBounds

\* The state of every journal keeps its type.
THEOREM PlanesTypeOKHolds == JournalsAssumptions /\ JournalsSpec => []PlanesTypeOK
<1>1. FilesAreInodes /\ Coverage!Spec => []PlaneTypes
  <2>1. FilesAreInodes => FilesAreInodes'
    OBVIOUS
  <2>2. FilesAreInodes /\ PlaneTypes /\ [Coverage!Next]_Coverage!planeVars => PlaneTypes'
    BY PlaneStep DEF Coverage!planeVars, coverageVars
  <2> QED  BY <2>1, <2>2, PlaneInit, PTL DEF Coverage!Spec
<1>2. TypeOK /\ TaskRefs!TypeOK /\ RunsInv /\ SegmentsInv /\ Prospective!TypeOK /\ PlaneTypes => PlanesTypeOK
  BY DEF RunsInv, SegmentsInv, PlaneTypes, PlanesTypeOK
<1>3. JournalsAssumptions => /\ MaxRefFaults \in Nat /\ NoneIsNoRun /\ RetentionIsFinite /\ FilesAreInodes
                             /\ Retention!ProspectiveBounds
  BY DEF JournalsAssumptions
<1> QED
  BY <1>1, <1>2, <1>3, OutcomeTypeCorrect, RefsTypeHolds, RunsInvHolds, SegmentsInvHolds, RetentionTypeHolds,
     JournalsAreComponents, PTL
==============================================================================
