--------------------------- MODULE SettlementRuns ---------------------------
(***************************************************************************)
(* Reconciling runs of src/commerce-settlement-reconciler.mjs and the      *)
(* manifests they publish.  A run takes the publication lease (a temporary *)
(* file of a fixed name, created exclusively), or marks the file of the    *)
(* run it met with a byte behind every manifest; then it scans, appends to *)
(* the ledger and, with the lease, writes a manifest into the file and     *)
(* renames it.  Runs of one process take turns, those of two overlap at    *)
(* every file-system call.  A reader takes a capture of manifest and       *)
(* ledger without a lock.                                                  *)
(***************************************************************************)
EXTENDS Naturals

CONSTANTS
    Processes,   \* servers on one data directory
    MaxRuns,     \* bound on runs; a run is its number
    None         \* no file, no run

Runs == 1..MaxRuns

VARIABLES
    temp,        \* the file under the temporary name: the run that created it
    manifest,    \* the file under the manifest name
    nodes,       \* the files, by the run that created them
    ledger,      \* the runs whose rows it has, all or a part of them
    doing,       \* where each process stands, in which run, the file it inspected
    failed,      \* runs with the lease that ended in the catch of reconcile
    met,         \* the files whose exclusive creation each run lost to
    started,     \* runs so far
    reader, seen,     \* where the capture stands, and the manifest it read first
    captured     \* what the last attempt accepted: the run of the manifest, the ledger

runVars == <<temp, manifest, nodes, ledger, doing, failed, met, started, reader, seen, captured>>
dirVars == <<temp, manifest, nodes, ledger>>
readVars == <<reader, seen, captured>>

Node == [content : {"none", "empty", "part", "whole"}, marked : BOOLEAN, cut : SUBSET Runs]
Capture == [run : Runs, cut : SUBSET Runs]

Stages ==
    {"idle", "leasing", "inspecting", "binding", "marking", "scanning", "publishing", "writing", "verifying", "renaming"}

TypeOK ==
    /\ temp \in Runs \cup {None}
    /\ manifest \in Runs \cup {None}
    /\ nodes \in [Runs -> Node]
    /\ ledger \subseteq Runs
    /\ doing \in [Processes -> [stage : Stages, run : Runs \cup {None}, file : Runs \cup {None}]]
    /\ failed \subseteq Runs
    /\ met \in [Runs -> SUBSET Runs]
    /\ started \in 0..MaxRuns
    /\ reader \in {"idle", "manifest", "ledger", "again", "temp"}
    /\ seen \in Capture \cup {None}
    /\ captured \in Capture \cup {None}

Idle == [stage |-> "idle", run |-> None, file |-> None]
NoNode == [content |-> "none", marked |-> FALSE, cut |-> {}]

Init ==
    /\ temp = None
    /\ manifest = None
    /\ nodes = [r \in Runs |-> NoNode]
    /\ ledger = {}
    /\ doing = [p \in Processes |-> Idle]
    /\ failed = {}
    /\ met = [r \in Runs |-> {}]
    /\ started = 0
    /\ reader = "idle"
    /\ seen = None
    /\ captured = None

Go(p, stage) == doing' = [doing EXCEPT ![p].stage = stage]
Binds(p, stage, file) == doing' = [doing EXCEPT ![p].stage = stage, ![p].file = file]
Ends(p) == doing' = [doing EXCEPT ![p] = Idle]

\* The next run of the chain in p.
Start(p) ==
    /\ doing[p].stage = "idle"
    /\ started < MaxRuns
    /\ started' = started + 1
    /\ doing' = [doing EXCEPT ![p] = [stage |-> "leasing", run |-> started + 1, file |-> None]]
    /\ UNCHANGED <<dirVars, failed, met, readVars>>

-----------------------------------------------------------------------------
(* acquirePublicationLease.                                                *)

Owns(p) == nodes[doing[p].run].content # "none"

Lease(p) ==
    /\ doing[p].stage = "leasing"
    /\ \/ /\ temp = None
          /\ temp' = doing[p].run
          /\ nodes' = [nodes EXCEPT ![doing[p].run].content = "empty"]
          /\ Go(p, "scanning")
          /\ UNCHANGED met
       \/ /\ temp # None
          /\ met' = [met EXCEPT ![doing[p].run] = @ \cup {temp}]
          /\ Go(p, "inspecting")
          /\ UNCHANGED <<temp, nodes>>
    /\ UNCHANGED <<manifest, ledger, failed, started, readVars>>

\* The file under the name is bound, whatever it is named later; when it has
\* just been renamed the run goes on without lease and without mark.
Inspect(p) ==
    /\ doing[p].stage = "inspecting"
    /\ IF temp = None THEN Go(p, "scanning") ELSE Binds(p, "binding", temp)
    /\ UNCHANGED <<dirVars, failed, met, started, readVars>>

\* The name is looked up again: another file there starts the lease over.
Recheck(p) ==
    /\ doing[p].stage = "binding"
    /\ \/ temp = doing[p].file /\ Go(p, "marking")
       \/ temp = None /\ Binds(p, "scanning", None)
       \/ temp \notin {None, doing[p].file} /\ Binds(p, "leasing", None)
    /\ UNCHANGED <<dirVars, failed, met, started, readVars>>

\* mutant: the contender leaves the file as it is
LeavesFile(node) == node

\* One byte at offset 8192, behind every manifest.
Marked(node) == [node EXCEPT !.marked = TRUE]

MarkContended(p) ==
    /\ doing[p].stage = "marking"
    /\ nodes' = [nodes EXCEPT ![doing[p].file] = Marked(@)]
    /\ Binds(p, "scanning", None)
    /\ UNCHANGED <<temp, manifest, ledger, failed, met, started, readVars>>

-----------------------------------------------------------------------------
(* The parent operation.                                                   *)

\* The scan and the append, both or up to where they fail: before the append,
\* inside it or behind it.
Operate(p) ==
    /\ doing[p].stage = "scanning"
    /\ ledger' \in {ledger, ledger \cup {doing[p].run}}
    /\ failed' \in {failed} \cup (IF Owns(p) THEN {failed \cup {doing[p].run}} ELSE {})
    /\ IF Owns(p) THEN Go(p, "publishing") ELSE Ends(p)
    /\ UNCHANGED <<temp, manifest, nodes, met, started, readVars>>

-----------------------------------------------------------------------------
(* runPublication and publishGenerationManifest.                           *)

\* ownerCheckpoint: the name still is the owner's file, of the expected size.
Checkpoint(p, size) ==
    /\ temp = doing[p].run
    /\ nodes[doing[p].run].content = size
    /\ ~nodes[doing[p].run].marked

\* The ledger is read and synced; what the manifest says is fixed here.  The
\* failed run takes this step too: publishSettlementGeneration passes on
\* nothing that tells it from a successful one.
CutLedger(p) ==
    /\ doing[p].stage = "publishing"
    /\ \/ /\ Checkpoint(p, "empty")
          /\ nodes' = [nodes EXCEPT ![doing[p].run].cut = ledger]
          /\ Go(p, "writing")
       \/ ~Checkpoint(p, "empty") /\ Ends(p) /\ UNCHANGED nodes
    /\ UNCHANGED <<temp, manifest, ledger, failed, met, started, readVars>>

WriteManifest(p) ==
    /\ doing[p].stage = "writing"
    /\ \/ nodes' = [nodes EXCEPT ![doing[p].run].content = "whole"] /\ Go(p, "verifying")
       \/ nodes' = [nodes EXCEPT ![doing[p].run].content = "part"] /\ Ends(p)
    /\ UNCHANGED <<temp, manifest, ledger, failed, met, started, readVars>>

\* The second checkpoint; a mark may still follow it.
Verify(p) ==
    /\ doing[p].stage = "verifying"
    /\ IF Checkpoint(p, "whole") THEN Go(p, "renaming") ELSE Ends(p)
    /\ UNCHANGED <<dirVars, failed, met, started, readVars>>

\* The file it replaces is gone; what the owner looks at afterwards changes only
\* its answer.
Rename(p) ==
    /\ doing[p].stage = "renaming"
    /\ manifest' = temp
    /\ temp' = None
    /\ nodes' = IF manifest = None THEN nodes ELSE [nodes EXCEPT ![manifest] = NoNode]
    /\ Ends(p)
    /\ UNCHANGED <<ledger, failed, met, started, readVars>>

\* The process dies; its temporary file stays, for ever.
Kill(p) ==
    /\ doing[p].stage # "idle"
    /\ Ends(p)
    /\ UNCHANGED <<dirVars, failed, met, started, readVars>>

-----------------------------------------------------------------------------
(* captureCommerceSettlementPlane: no file under the temporary name, the   *)
(* manifest, the ledger it describes, the same manifest, and again no      *)
(* temporary file.  Whatever differs ends the attempt.                     *)

ReadOn(next) ==
    /\ reader' = next
    /\ UNCHANGED <<dirVars, doing, failed, met, started>>

Readable(r) == r # None /\ nodes[r].content = "whole" /\ ~nodes[r].marked

BeginCapture ==
    /\ reader = "idle"
    /\ temp = None
    /\ captured' = None
    /\ ReadOn("manifest")
    /\ UNCHANGED seen

ReadManifest ==
    /\ reader = "manifest"
    /\ Readable(manifest)
    /\ seen' = [run |-> manifest, cut |-> nodes[manifest].cut]
    /\ ReadOn("ledger")
    /\ UNCHANGED captured

ReadLedger ==
    /\ reader = "ledger"
    /\ ledger = seen.cut
    /\ ReadOn("again")
    /\ UNCHANGED <<seen, captured>>

ReadManifestAgain ==
    /\ reader = "again"
    /\ manifest = seen.run
    /\ Readable(manifest)
    /\ ReadOn("temp")
    /\ UNCHANGED <<seen, captured>>

AcceptCapture ==
    /\ reader = "temp"
    /\ temp = None
    /\ captured' = seen
    /\ seen' = None
    /\ ReadOn("idle")

EndAttempt ==
    /\ reader # "idle"
    /\ seen' = None
    /\ ReadOn("idle")
    /\ UNCHANGED captured

Reader ==
    BeginCapture \/ ReadManifest \/ ReadLedger \/ ReadManifestAgain \/ AcceptCapture \/ EndAttempt

-----------------------------------------------------------------------------
Run(p) ==
    \/ Start(p) \/ Lease(p) \/ Inspect(p) \/ Recheck(p) \/ MarkContended(p) \/ Operate(p)
    \/ CutLedger(p) \/ WriteManifest(p) \/ Verify(p) \/ Rename(p) \/ Kill(p)

Next == Reader \/ \E p \in Processes : Run(p)

Spec == Init /\ [][Next]_runVars

-----------------------------------------------------------------------------
\* An accepted capture covers no row of a run that contended for the lease of
\* its manifest: such a run either marked the file before it appended, so the
\* manifest is not readable, or found it renamed, so the cut was taken before
\* ("conforming contenders poison it at offset 8192 through the procfd-bound
\* inspected inode before their parent ledger mutation",
\* commerce-settlement-reconciler.mjs:2546).  Marks that fail are not modelled.
NoCutUnderContention ==
    captured # None =>
        \A r \in captured.cut : captured.run \notin met[r]

\* An accepted capture is that of a run that succeeded: "An actual parent
\* failure may best-effort publish the failed capture generation"
\* (commerce-settlement-reconciler.mjs:3208), whose manifest says so.
CompleteMeansSucceeded == captured # None => captured.run \notin failed
=============================================================================
