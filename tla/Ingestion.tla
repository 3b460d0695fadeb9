----------------------------- MODULE Ingestion -----------------------------
(***************************************************************************)
(* The ordered ingestion runner of ingestion/runner.py, with the artifact  *)
(* store it writes to and the PostgreSQL transactions it commits.  Several *)
(* runs, each an operating-system process with a session of its own, may   *)
(* fetch the same or different payloads at once.                           *)
(*                                                                         *)
(* A step is one access to something shared: one query, one INSERT (which  *)
(* waits for another session's uncommitted row of the same key and then    *)
(* fails on it), one commit, one use of the file store.  What a session    *)
(* has inserted and not committed is in held; a rollback or the death of   *)
(* the process discards it.  Rows read are committed rows.                 *)
(*                                                                         *)
(* All the items of one payload are inserted in one transaction, so the    *)
(* model keeps the whole batch (the Source row, its observations and its   *)
(* evidence) as one record.  The Source identity covers ingested_at, and   *)
(* every observation identity covers the Source identity.                  *)
(***************************************************************************)
EXTENDS Integers, FiniteSets

CONSTANTS
    Runs,           \* run identities; each is used for one run
    Datasets,       \* (registered source, dataset) pairs
    Artifacts,      \* payloads, named by the digest of their bytes
    Mimes,          \* content types a server may answer with
    None,           \* a field that has no value yet
    MaxTime,        \* bound on the clock
    MaxConcurrent   \* bound on the runs in progress at one time

ASSUME BoundsAssumption == MaxTime \in Nat /\ MaxConcurrent \in Nat

VARIABLES
    now,        \* the wall clock the runners read
    files,      \* payloads in the content-addressed store
    rows,       \* committed artifacts rows
    receipts,   \* committed raw_ingestions rows
    batches,    \* committed sources rows, each with its observations
    manifest,   \* committed ingestion_manifests row of each run
    run,        \* what each run's process knows
    held        \* what each run's session has inserted and not committed

vars == <<now, files, rows, receipts, batches, manifest, run, held>>

Time == 0..MaxTime
Row == [art: Artifacts, mime: Mimes]
Receipt == [ds: Datasets, art: Artifacts, first: Time]
Batch == [ds: Datasets, art: Artifacts, first: Time, ingested: Time]

Working == {"started", "fetched", "checked", "stored", "unregistered",
            "registered", "unreceipted", "retained", "parsed", "known",
            "written"}
Phase == Working \cup {"idle", "done", "crashed"}

RunState == [pc: Phase, ds: Datasets \cup {None}, art: Artifacts \cup {None},
             mime: Mimes \cup {None}, seen: Time, ingested: Time,
             created: BOOLEAN]

Manifest == [status: {"none", "running", "succeeded", "failed"},
             inserted: BOOLEAN, created: BOOLEAN]

Held == [rows: SUBSET Row, batches: SUBSET Batch]

Nothing == [rows |-> {}, batches |-> {}]

\* The batch run r computes from its parsed payload.
BatchOf(r) == [ds |-> run[r].ds, art |-> run[r].art,
               first |-> run[r].seen, ingested |-> run[r].ingested]

\* Variant: the identity of a receipt covers its observation time.
ReceiptsOfTime(r) ==
    {c \in receipts : c.ds = run[r].ds /\ c.art = run[r].art /\ c.first = run[r].seen}

ReceiptsFor(r) == {c \in receipts : c.ds = run[r].ds /\ c.art = run[r].art}

\* count_for_artifact > 0
HasObservations(r) == \E b \in batches : b.ds = run[r].ds /\ b.art = run[r].art

At(r, pc) == run[r].pc = pc
Goto(r, pc) == run' = [run EXCEPT ![r] = [@ EXCEPT !.pc = pc]]

Init ==
    /\ now = 0
    /\ files = {}
    /\ rows = {}
    /\ receipts = {}
    /\ batches = {}
    /\ manifest = [r \in Runs |-> [status |-> "none", inserted |-> FALSE,
                                   created |-> FALSE]]
    /\ run = [r \in Runs |-> [pc |-> "idle", ds |-> None, art |-> None,
                              mime |-> None, seen |-> 0, ingested |-> 0,
                              created |-> FALSE]]
    /\ held = [r \in Runs |-> Nothing]

-----------------------------------------------------------------------------

Tick ==
    /\ now < MaxTime
    /\ now' = now + 1
    /\ UNCHANGED <<files, rows, receipts, batches, manifest, run, held>>

\* The RUNNING manifest is committed before anything is fetched.
Start(r) ==
    /\ At(r, "idle")
    /\ Cardinality({q \in Runs : run[q].pc \in Working}) < MaxConcurrent
    /\ \E d \in Datasets :
          run' = [run EXCEPT ![r] = [@ EXCEPT !.pc = "started", !.ds = d]]
    /\ manifest' = [manifest EXCEPT ![r] = [@ EXCEPT !.status = "running"]]
    /\ UNCHANGED <<now, files, rows, receipts, batches, held>>

Fetch(r) ==
    /\ At(r, "started")
    /\ \E a \in Artifacts, m \in Mimes :
          run' = [run EXCEPT ![r] = [@ EXCEPT !.pc = "fetched", !.art = a,
                                              !.mime = m, !.seen = now]]
    /\ UNCHANGED <<now, files, rows, receipts, batches, manifest, held>>

\* artifact_created is decided before the payload is stored.
CheckStore(r) ==
    /\ At(r, "fetched")
    /\ run' = [run EXCEPT ![r] = [@ EXCEPT !.pc = "checked",
                                           !.created = run[r].art \notin files]]
    /\ UNCHANGED <<now, files, rows, receipts, batches, manifest, held>>

\* Variant: the payload is taken as stored without being linked into place.
PersistNothing(r) ==
    /\ At(r, "checked")
    /\ Goto(r, "stored")
    /\ UNCHANGED <<now, files, rows, receipts, batches, manifest, held>>

\* The store links a complete, synced temporary file into place, or finds the
\* same bytes already there: either way the payload is retained in one step.
PersistRaw(r) ==
    /\ At(r, "checked")
    /\ files' = files \cup {run[r].art}
    /\ Goto(r, "stored")
    /\ UNCHANGED <<now, rows, receipts, batches, manifest, held>>

\* add_artifact_metadata, its query: a row with another content type is a
\* mismatch, which leaves only Fail.
SelectArtifactRow(r) ==
    /\ At(r, "stored")
    /\ LET known == {w \in rows : w.art = run[r].art}
       IN  \/ known = {} /\ Goto(r, "unregistered")
           \/ (\E w \in known : w.mime = run[r].mime) /\ Goto(r, "registered")
    /\ UNCHANGED <<now, files, rows, receipts, batches, manifest, held>>

\* add_artifact_metadata, its INSERT on the primary key sha256.
InsertArtifactRow(r) ==
    /\ At(r, "unregistered")
    /\ \A q \in Runs : \A w \in held[q].rows : w.art # run[r].art
    /\ \A w \in rows : w.art # run[r].art
    /\ held' = [held EXCEPT ![r] = [@ EXCEPT !.rows =
                   {[art |-> run[r].art, mime |-> run[r].mime]}]]
    /\ Goto(r, "registered")
    /\ UNCHANGED <<now, files, rows, receipts, batches, manifest>>

\* Commit the session of run r.
CommitHeld(r) ==
    /\ rows' = rows \cup held[r].rows
    /\ batches' = batches \cup held[r].batches
    /\ held' = [held EXCEPT ![r] = Nothing]

Finish(r, status, inserted, created) ==
    manifest' = [manifest EXCEPT ![r] = [status |-> status,
                                         inserted |-> inserted,
                                         created |-> created]]

\* No receipt for this payload yet.
FindNoReceipt(r) ==
    /\ At(r, "registered")
    /\ ReceiptsFor(r) = {}
    /\ Goto(r, "unreceipted")
    /\ UNCHANGED <<now, files, rows, receipts, batches, manifest, held>>

\* The receipt is inserted and committed together; the primary key, which is
\* the hash of source, dataset and digest, admits one.
CommitReceipt(r) ==
    /\ At(r, "unreceipted")
    /\ ReceiptsFor(r) = {}
    /\ receipts' = receipts \cup {[ds |-> run[r].ds, art |-> run[r].art,
                                   first |-> run[r].seen]}
    /\ CommitHeld(r)
    /\ Goto(r, "retained")
    /\ UNCHANGED <<now, files, manifest>>

\* Variant: the run keeps its own observation time.
ReuseReceiptLate(r) ==
    /\ At(r, "registered")
    /\ ~HasObservations(r)
    /\ ReceiptsFor(r) # {}
    /\ Goto(r, "retained")
    /\ UNCHANGED <<now, files, rows, receipts, batches, manifest, held>>

\* Variant: completed observations are not counted.
ReuseReceiptAlways(r) ==
    /\ At(r, "registered")
    /\ \E c \in ReceiptsFor(r) :
          run' = [run EXCEPT ![r] = [@ EXCEPT !.pc = "retained",
                                              !.seen = c.first]]
    /\ UNCHANGED <<now, files, rows, receipts, batches, manifest, held>>

\* A retained payload whose parse never completed: the run goes on with the
\* first-observed time of the receipt.
ReuseReceipt(r) ==
    /\ At(r, "registered")
    /\ ~HasObservations(r)
    /\ \E c \in ReceiptsFor(r) :
          run' = [run EXCEPT ![r] = [@ EXCEPT !.pc = "retained",
                                              !.seen = c.first]]
    /\ UNCHANGED <<now, files, rows, receipts, batches, manifest, held>>

\* A payload already completed: the run succeeds with duplicates only.
SkipCompleted(r) ==
    /\ At(r, "registered")
    /\ ReceiptsFor(r) # {}
    /\ HasObservations(r)
    /\ Finish(r, "succeeded", FALSE, FALSE)
    /\ CommitHeld(r)
    /\ Goto(r, "done")
    /\ UNCHANGED <<now, files, receipts>>

\* normalize and parse succeed, the Source is built with the clock's time as
\* ingested_at, and the repository asks for a row with its identity.
ParseAndSelect(r) ==
    /\ At(r, "retained")
    /\ LET b == [ds |-> run[r].ds, art |-> run[r].art, first |-> run[r].seen,
                 ingested |-> now]
           pc == IF b \in batches THEN "known" ELSE "parsed"
       IN  run' = [run EXCEPT ![r] = [@ EXCEPT !.pc = pc, !.ingested = now]]
    /\ UNCHANGED <<now, files, rows, receipts, batches, manifest, held>>

\* Variant: the batch is committed before the manifest is finished.
InsertBatchCommitted(r) ==
    /\ At(r, "parsed")
    /\ batches' = batches \cup {BatchOf(r)}
    /\ Goto(r, "written")
    /\ UNCHANGED <<now, files, rows, receipts, manifest, held>>

\* Insert the Source, its observations and their evidence.
InsertBatch(r) ==
    /\ At(r, "parsed")
    /\ \A q \in Runs : BatchOf(r) \notin held[q].batches
    /\ BatchOf(r) \notin batches
    /\ held' = [held EXCEPT ![r] = [@ EXCEPT !.batches = {BatchOf(r)}]]
    /\ Goto(r, "written")
    /\ UNCHANGED <<now, files, rows, receipts, batches, manifest>>

\* The final commit: the batch and the SUCCEEDED manifest together.
FinishSucceeded(r) ==
    /\ run[r].pc \in {"written", "known"}
    /\ Finish(r, "succeeded", At(r, "written"), run[r].created)
    /\ CommitHeld(r)
    /\ Goto(r, "done")
    /\ UNCHANGED <<now, files, receipts>>

\* Variant: a status the schema does not know.
FailWithOtherStatus(r) ==
    /\ run[r].pc \in Working
    /\ Finish(r, "error", FALSE, run[r].created)
    /\ held' = [held EXCEPT ![r] = Nothing]
    /\ Goto(r, "done")
    /\ UNCHANGED <<now, files, rows, receipts, batches>>

\* Variant: no rollback, so that the FAILED manifest commits what was inserted.
FailCommitting(r) ==
    /\ run[r].pc \in Working
    /\ Finish(r, "failed", FALSE, run[r].created)
    /\ CommitHeld(r)
    /\ Goto(r, "done")
    /\ UNCHANGED <<now, files, receipts>>

\* Variant: the manifest is written in another session, and the failed one
\* stays open with its locks.
FailHolding(r) ==
    /\ run[r].pc \in Working
    /\ Finish(r, "failed", FALSE, run[r].created)
    /\ Goto(r, "done")
    /\ UNCHANGED <<now, files, rows, receipts, batches, held>>

\* Any exception: rollback, then a FAILED manifest in a new transaction.
Fail(r) ==
    /\ run[r].pc \in Working
    /\ Finish(r, "failed", FALSE, run[r].created)
    /\ held' = [held EXCEPT ![r] = Nothing]
    /\ Goto(r, "done")
    /\ UNCHANGED <<now, files, rows, receipts, batches>>

\* The process dies, or the database is lost while the FAILED manifest is
\* being written: nothing in the code finishes the manifest later.
Crash(r) ==
    /\ run[r].pc \in Working
    /\ held' = [held EXCEPT ![r] = Nothing]
    /\ Goto(r, "crashed")
    /\ UNCHANGED <<now, files, rows, receipts, batches, manifest>>

\* One step of the body of IngestionRunner.run after its manifest.
Advance(r) ==
    \/ Fetch(r)
    \/ CheckStore(r)
    \/ PersistRaw(r)
    \/ SelectArtifactRow(r)
    \/ InsertArtifactRow(r)
    \/ FindNoReceipt(r)
    \/ CommitReceipt(r)
    \/ ReuseReceipt(r)
    \/ SkipCompleted(r)
    \/ ParseAndSelect(r)
    \/ InsertBatch(r)
    \/ FinishSucceeded(r)

Step(r) == Advance(r) \/ Fail(r)

Next ==
    \/ Tick
    \/ \E r \in Runs : Start(r) \/ Step(r) \/ Crash(r)

Spec == Init /\ [][Next]_vars

\* The check or the constraint that refuses the statement run r is at.
Refused(r) ==
    \/ At(r, "stored") /\ \E w \in rows : w.art = run[r].art /\ w.mime # run[r].mime
    \/ At(r, "unregistered") /\ \E w \in rows : w.art = run[r].art
    \/ At(r, "unreceipted") /\ ReceiptsFor(r) # {}
    \/ At(r, "parsed") /\ BatchOf(r) \in batches

\* A process that is not killed goes on, or raises when it is refused; a failure
\* the environment causes may happen and need not.  So a statement that waits
\* for a lock ends only because the session that holds it ends.
Fairness == \A r \in Runs : WF_vars(Advance(r) \/ (Refused(r) /\ Fail(r)))

FairSpec == Spec /\ Fairness

-----------------------------------------------------------------------------

TypeOK ==
    /\ now \in Time
    /\ files \subseteq Artifacts
    /\ rows \subseteq Row
    /\ receipts \subseteq Receipt
    /\ batches \subseteq Batch
    /\ manifest \in [Runs -> Manifest]
    /\ run \in [Runs -> RunState]
    /\ held \in [Runs -> Held]

\* "Parser acts on unretained content": every committed observation has the
\* committed receipt it was parsed under, with the same first-observed time,
\* the artifact row and the raw bytes, whatever runs failed or died.
ObservationsTraceToRaw ==
    \A b \in batches :
        /\ [ds |-> b.ds, art |-> b.art, first |-> b.first] \in receipts
        /\ \E w \in rows : w.art = b.art
        /\ b.art \in files

\* "Retry changes historical visibility": one payload of one dataset has one
\* first-observed time, however many runs race to record it.
OneFirstObserved ==
    \A c, d \in receipts : c.ds = d.ds /\ c.art = d.art => c = d

\* No observation is visible to a reader before the manifest of the run that
\* inserted it says SUCCEEDED.
ObservationsHaveSuccessfulRun ==
    \A b \in batches : \E r \in Runs :
        /\ manifest[r].status = "succeeded"
        /\ manifest[r].inserted
        /\ BatchOf(r) = b

\* A run that ends FAILED has added no observation at any point of its life: the
\* step that adds a run's observations makes its manifest SUCCEEDED, and a finished
\* manifest is final.  (Its receipt stays: the payload was retained.)
FailedRunAddsNothing ==
    [][\A r \in Runs :
          /\ run'[r] # run[r] /\ batches' # batches
                => manifest'[r].status = "succeeded"
          /\ manifest[r].status \in {"succeeded", "failed"}
                => manifest'[r] = manifest[r]]_vars

\* "Duplicate or concurrent ingestion: primary-key content IDs and idempotent
\* equality checks": the observations of one payload are inserted once.
CompletedOnce ==
    \A b, c \in batches : b.ds = c.ds /\ b.art = c.art => b = c

\* "Completed observations are skipped": a run that starts when the observations
\* of a payload are committed, and then fetches that payload, inserts nothing.
CompletedAreSkipped ==
    \A r \in Runs : \A a \in Artifacts :
        [](At(r, "started") /\ (\E b \in batches : b.ds = run[r].ds /\ b.art = a)
              => [](run[r].art = a => ~manifest[r].inserted))

\* Every run that is not killed ends with a SUCCEEDED or FAILED manifest.
RunResolves ==
    \A r \in Runs :
        manifest[r].status = "running"
            ~> manifest[r].status \in {"succeeded", "failed"} \/ At(r, "crashed")

-----------------------------------------------------------------------------

\* What the pipeline promises to point-in-time readers: a payload is retained
\* once, then published under the first-observed time of its retention.
Abstract == INSTANCE RetainedEvidence WITH
    retained <- receipts,
    published <- {[ds |-> b.ds, art |-> b.art, first |-> b.first] : b \in batches}

\* The runner implements the abstract store, whatever crashes and races occur.
Implements == Abstract!Spec

=============================================================================
