--------------------------- MODULE IngestionProofs ---------------------------
(***************************************************************************)
(* Safety of the ingestion runner for any number of runs, datasets,        *)
(* payloads and content types.  The invariants the runs check are not      *)
(* inductive: what a run may do next depends on what it has verified so    *)
(* far, so IInv says for each phase what the run has secured by then.      *)
(* What a run may skip is about two moments, its start and its end: the    *)
(* last section carries the first to the second by CompletedBy.            *)
(***************************************************************************)
EXTENDS Ingestion, FiniteSetTheorems, TLAPS

\* A receipt is only committed with, or after, its artifact row.
ReceiptsRooted ==
    \A c \in receipts : c.art \in files /\ \E w \in rows : w.art = c.art

BatchesReceipted ==
    \A b \in batches :
        [ds |-> b.ds, art |-> b.art, first |-> b.first] \in receipts

HasPayload(r) == run[r].art \in Artifacts /\ run[r].mime \in Mimes
                    /\ run[r].ds \in Datasets

\* What run r has secured when it is at its program counter.
Secured(r) ==
    /\ run[r].pc = "started" => run[r].ds \in Datasets
    /\ run[r].pc \in {"fetched", "checked"} => HasPayload(r)
    /\ run[r].pc \in {"stored", "unregistered"} =>
           HasPayload(r) /\ run[r].art \in files
    /\ run[r].pc \in {"registered", "unreceipted"} =>
           /\ HasPayload(r)
           /\ run[r].art \in files
           /\ \/ \E w \in rows : w.art = run[r].art
              \/ \E w \in held[r].rows : w.art = run[r].art
    /\ run[r].pc \in {"retained", "parsed", "known", "written"} =>
           /\ HasPayload(r)
           /\ [ds |-> run[r].ds, art |-> run[r].art, first |-> run[r].seen]
                 \in receipts
    /\ run[r].pc = "written" => held[r].batches = {BatchOf(r)}
    /\ run[r].pc # "written" => held[r].batches = {}

EndedIsDone ==
    \A r \in Runs :
        manifest[r].status \in {"succeeded", "failed"} => run[r].pc = "done"

IInv ==
    /\ TypeOK
    /\ OneFirstObserved
    /\ ReceiptsRooted
    /\ BatchesReceipted
    /\ \A r \in Runs : Secured(r)
    /\ EndedIsDone
    /\ ObservationsHaveSuccessfulRun

-----------------------------------------------------------------------------

LEMMA InitIInv == Init => IInv
BY BoundsAssumption
   DEF Init, IInv, TypeOK, Time, Row, Receipt, Batch, RunState, Phase, Working,
       Manifest, Held, Nothing, OneFirstObserved, ReceiptsRooted, BatchesReceipted,
       Secured, HasPayload, BatchOf, EndedIsDone, ObservationsHaveSuccessfulRun

-----------------------------------------------------------------------------
\* The types the shared parts of the actions preserve.

LEMMA GotoType ==
    ASSUME TypeOK, NEW r \in Runs, NEW pc \in Phase, Goto(r, pc)
    PROVE  run' \in [Runs -> RunState]
BY DEF TypeOK, Goto, RunState

LEMMA FinishType ==
    ASSUME TypeOK, NEW r \in Runs, NEW inserted \in BOOLEAN, NEW created \in BOOLEAN,
           NEW status \in {"succeeded", "failed"}, Finish(r, status, inserted, created)
    PROVE  manifest' \in [Runs -> Manifest]
BY DEF TypeOK, Finish, Manifest

LEMMA RollbackType ==
    ASSUME TypeOK, NEW r \in Runs, held' = [held EXCEPT ![r] = Nothing]
    PROVE  held' \in [Runs -> Held]
BY DEF TypeOK, Held, Nothing

LEMMA CommitType ==
    ASSUME TypeOK, NEW r \in Runs, CommitHeld(r)
    PROVE  rows' \subseteq Row /\ batches' \subseteq Batch /\ held' \in [Runs -> Held]
<1>1. held[r] \in Held
  BY DEF TypeOK
<1>2. held[r].rows \subseteq Row /\ held[r].batches \subseteq Batch
  BY <1>1 DEF Held
<1> QED
  BY <1>2, RollbackType DEF TypeOK, CommitHeld

LEMMA RunFields ==
    ASSUME TypeOK, NEW r \in Runs
    PROVE  /\ run[r] \in RunState
           /\ run[r].seen \in Time /\ run[r].ingested \in Time
           /\ run[r].created \in BOOLEAN
BY DEF TypeOK, RunState

LEMMA TickType == TypeOK /\ Tick => TypeOK'
BY BoundsAssumption DEF TypeOK, Tick, Time

LEMMA StartType ==
    ASSUME TypeOK, NEW r \in Runs, Start(r) PROVE TypeOK'
<1>1. "started" \in Phase
  BY DEF Phase, Working
<1>2. run' \in [Runs -> RunState]
  <2>1. PICK d \in Datasets :
           run' = [run EXCEPT ![r] = [@ EXCEPT !.pc = "started", !.ds = d]]
    BY DEF Start
  <2> QED
    BY <1>1, <2>1 DEF TypeOK, RunState
<1>3. manifest' \in [Runs -> Manifest]
  BY DEF TypeOK, Start, Manifest
<1> QED
  BY <1>2, <1>3 DEF TypeOK, Start

\* Every step of the body of the runner keeps the types of the state.  The phase
\* facts of Secured say that the fields a step copies into a row have been set.
LEMMA StepType ==
    ASSUME TypeOK, NEW r \in Runs, Secured(r), Step(r) PROVE TypeOK'
<1> USE RunFields DEF At
<1>1. CASE Fetch(r)
  <2>1. run' \in [Runs -> RunState]
    <3>1. PICK a \in Artifacts, m \in Mimes :
             run' = [run EXCEPT ![r] = [@ EXCEPT !.pc = "fetched", !.art = a,
                                                 !.mime = m, !.seen = now]]
      BY <1>1 DEF Fetch
    <3>2. "fetched" \in Phase
      BY DEF Phase, Working
    <3> QED
      BY <3>1, <3>2 DEF TypeOK, RunState
  <2> QED
    BY <1>1, <2>1 DEF Fetch, TypeOK
<1>2. CASE CheckStore(r)
  <2>1. run' \in [Runs -> RunState]
    <3>1. "checked" \in Phase
      BY DEF Phase, Working
    <3> QED
      BY <1>2, <3>1 DEF CheckStore, TypeOK, RunState
  <2> QED
    BY <1>2, <2>1 DEF CheckStore, TypeOK
<1>3. CASE PersistRaw(r)
  BY <1>3, GotoType DEF PersistRaw, TypeOK, Phase, Working, Secured, HasPayload
<1>4. CASE SelectArtifactRow(r)
  BY <1>4, GotoType DEF SelectArtifactRow, TypeOK, Phase, Working
<1>5. CASE InsertArtifactRow(r)
  <2>1. run' \in [Runs -> RunState]
    BY <1>5, GotoType DEF InsertArtifactRow, Phase, Working
  <2>2. [art |-> run[r].art, mime |-> run[r].mime] \in Row
    BY <1>5 DEF InsertArtifactRow, Secured, HasPayload, Row
  <2>3. held' \in [Runs -> Held]
    BY <1>5, <2>2 DEF InsertArtifactRow, TypeOK, Held
  <2> QED
    BY <1>5, <2>1, <2>3 DEF InsertArtifactRow, TypeOK
<1>6. CASE FindNoReceipt(r)
  BY <1>6, GotoType DEF FindNoReceipt, TypeOK, Phase, Working
<1>7. CASE CommitReceipt(r)
  <2>1. run' \in [Runs -> RunState]
    BY <1>7, GotoType DEF CommitReceipt, Phase, Working
  <2>2. receipts' \subseteq Receipt
    BY <1>7 DEF CommitReceipt, Secured, HasPayload, Receipt, TypeOK
  <2> QED
    BY <1>7, <2>1, <2>2, CommitType DEF CommitReceipt, TypeOK
<1>8. CASE ReuseReceipt(r)
  <2>1. run' \in [Runs -> RunState]
    <3>1. PICK c \in ReceiptsFor(r) :
             run' = [run EXCEPT ![r] = [@ EXCEPT !.pc = "retained", !.seen = c.first]]
      BY <1>8 DEF ReuseReceipt
    <3>2. c.first \in Time
      BY <3>1 DEF ReceiptsFor, TypeOK, Receipt
    <3>3. "retained" \in Phase
      BY DEF Phase, Working
    <3> QED
      BY <3>1, <3>2, <3>3 DEF TypeOK, RunState
  <2> QED
    BY <1>8, <2>1 DEF ReuseReceipt, TypeOK
<1>9. CASE SkipCompleted(r)
  <2>1. run' \in [Runs -> RunState]
    BY <1>9, GotoType DEF SkipCompleted, Phase
  <2> QED
    BY <1>9, <2>1, CommitType, FinishType DEF SkipCompleted, TypeOK
<1>10. CASE ParseAndSelect(r)
  <2>1. run' \in [Runs -> RunState]
    <3>1. "known" \in Phase /\ "parsed" \in Phase
      BY DEF Phase, Working
    <3>2. PICK pc \in {"known", "parsed"} :
             run' = [run EXCEPT ![r] = [@ EXCEPT !.pc = pc, !.ingested = now]]
      BY <1>10 DEF ParseAndSelect
    <3> QED
      BY <3>1, <3>2 DEF TypeOK, RunState
  <2> QED
    BY <1>10, <2>1 DEF ParseAndSelect, TypeOK
<1>11. CASE InsertBatch(r)
  <2>1. run' \in [Runs -> RunState]
    BY <1>11, GotoType DEF InsertBatch, Phase, Working
  <2>2. BatchOf(r) \in Batch
    BY <1>11 DEF InsertBatch, Secured, HasPayload, BatchOf, Batch
  <2>3. held' \in [Runs -> Held]
    BY <1>11, <2>2 DEF InsertBatch, TypeOK, Held
  <2> QED
    BY <1>11, <2>1, <2>3 DEF InsertBatch, TypeOK
<1>12. CASE FinishSucceeded(r)
  <2>1. run' \in [Runs -> RunState]
    BY <1>12, GotoType DEF FinishSucceeded, Phase
  <2> QED
    BY <1>12, <2>1, CommitType, FinishType DEF FinishSucceeded, TypeOK
<1>13. CASE Fail(r)
  <2>1. run' \in [Runs -> RunState]
    BY <1>13, GotoType DEF Fail, Phase
  <2> QED
    BY <1>13, <2>1, RollbackType, FinishType DEF Fail, TypeOK
<1> QED
  BY <1>1, <1>2, <1>3, <1>4, <1>5, <1>6, <1>7, <1>8, <1>9, <1>10, <1>11, <1>12, <1>13
     DEF Step, Advance

LEMMA CrashType ==
    ASSUME TypeOK, NEW r \in Runs, Crash(r) PROVE TypeOK'
<1>1. run' \in [Runs -> RunState]
  BY GotoType DEF Crash, Phase
<1> QED
  BY <1>1, RollbackType DEF Crash, TypeOK

LEMMA NextType == IInv /\ [Next]_vars => TypeOK'
<1> SUFFICES ASSUME IInv, [Next]_vars PROVE TypeOK'
  OBVIOUS
<1>1. CASE UNCHANGED vars
  BY <1>1 DEF vars, IInv, TypeOK
<1>2. CASE Next
  BY <1>2, TickType, StartType, StepType, CrashType DEF Next, IInv
<1> QED
  BY <1>1, <1>2

-----------------------------------------------------------------------------
\* What one step of one run may touch.

Acts(r) == Start(r) \/ Step(r) \/ Crash(r)

Monotone ==
    /\ files \subseteq files'
    /\ rows \subseteq rows'
    /\ receipts \subseteq receipts'
    /\ batches \subseteq batches'

\* Nothing retained or published is ever removed.
LEMMA ActsMonotone ==
    ASSUME NEW r \in Runs, Acts(r) PROVE Monotone
BY DEF Acts, Monotone, Start, Step, Advance, Crash, Fetch, CheckStore, PersistRaw,
       SelectArtifactRow, InsertArtifactRow, FindNoReceipt, CommitReceipt,
       ReuseReceipt, SkipCompleted, ParseAndSelect, InsertBatch,
       FinishSucceeded, Fail, CommitHeld

\* A step of one run leaves the process, session and manifest of others alone.
LEMMA ActsLocal ==
    ASSUME TypeOK, NEW r \in Runs, Acts(r), NEW q \in Runs, q # r
    PROVE  run'[q] = run[q] /\ held'[q] = held[q] /\ manifest'[q] = manifest[q]
<1>1. run'[q] = run[q]
  BY DEF TypeOK, Acts, Start, Step, Advance, Crash, Fetch, CheckStore, PersistRaw,
       SelectArtifactRow, InsertArtifactRow, FindNoReceipt, CommitReceipt,
       ReuseReceipt, SkipCompleted, ParseAndSelect, InsertBatch,
       FinishSucceeded, Fail, Goto
<1>2. held'[q] = held[q]
  BY DEF TypeOK, Acts, Start, Step, Advance, Crash, Fetch, CheckStore, PersistRaw,
       SelectArtifactRow, InsertArtifactRow, FindNoReceipt, CommitReceipt,
       ReuseReceipt, SkipCompleted, ParseAndSelect, InsertBatch,
       FinishSucceeded, Fail, CommitHeld
<1>3. manifest'[q] = manifest[q]
  BY DEF TypeOK, Acts, Start, Step, Advance, Crash, Fetch, CheckStore, PersistRaw,
       SelectArtifactRow, InsertArtifactRow, FindNoReceipt, CommitReceipt,
       ReuseReceipt, SkipCompleted, ParseAndSelect, InsertBatch,
       FinishSucceeded, Fail, Finish
<1> QED
  BY <1>1, <1>2, <1>3

\* What a run has secured stays secured while other runs act.
LEMMA OthersSecured ==
    ASSUME IInv, NEW r \in Runs, Acts(r), NEW q \in Runs, q # r
    PROVE  Secured(q)'
<1>1. run'[q] = run[q] /\ held'[q] = held[q]
  BY ActsLocal DEF IInv
<1> QED
  BY <1>1, ActsMonotone DEF IInv, Secured, HasPayload, BatchOf, Monotone

\* The fields of a run after it moves to another phase.
LEMMA GotoFields ==
    ASSUME TypeOK, NEW r \in Runs, NEW pc, Goto(r, pc)
    PROVE  /\ run'[r].pc = pc
           /\ run'[r].ds = run[r].ds /\ run'[r].art = run[r].art
           /\ run'[r].mime = run[r].mime /\ run'[r].seen = run[r].seen
           /\ run'[r].ingested = run[r].ingested
BY DEF TypeOK, RunState, Goto

LEMMA StartSecured ==
    ASSUME IInv, NEW r \in Runs, Start(r) PROVE Secured(r)'
<1>1. PICK d \in Datasets :
         run' = [run EXCEPT ![r] = [@ EXCEPT !.pc = "started", !.ds = d]]
  BY DEF Start
<1>2. run'[r].pc = "started" /\ run'[r].ds = d
  BY <1>1 DEF IInv, TypeOK, RunState
<1>3. held[r].batches = {} /\ held' = held
  BY DEF Start, At, IInv, Secured
<1> QED
  BY <1>2, <1>3 DEF Secured

LEMMA StepSecured ==
    ASSUME IInv, NEW r \in Runs, Step(r) PROVE Secured(r)'
<1> USE GotoFields DEF At
<1>0. TypeOK /\ Secured(r)
  BY DEF IInv
<1>1. CASE Fetch(r)
  <2>1. PICK a \in Artifacts, m \in Mimes :
           run' = [run EXCEPT ![r] = [@ EXCEPT !.pc = "fetched", !.art = a,
                                               !.mime = m, !.seen = now]]
    BY <1>1 DEF Fetch
  <2>2. /\ run'[r].pc = "fetched" /\ run'[r].art = a /\ run'[r].mime = m
        /\ run'[r].ds = run[r].ds
    BY <1>0, <2>1 DEF TypeOK, RunState
  <2> QED
    BY <1>0, <1>1, <2>2 DEF Fetch, Secured, HasPayload
<1>2. CASE CheckStore(r)
  <2>1. /\ run'[r].pc = "checked" /\ run'[r].art = run[r].art
        /\ run'[r].mime = run[r].mime /\ run'[r].ds = run[r].ds
    BY <1>0, <1>2 DEF CheckStore, TypeOK, RunState
  <2> QED
    BY <1>0, <1>2, <2>1 DEF CheckStore, Secured, HasPayload
<1>3. CASE PersistRaw(r)
  BY <1>0, <1>3 DEF PersistRaw, Secured, HasPayload
<1>4. CASE SelectArtifactRow(r)
  BY <1>0, <1>4 DEF SelectArtifactRow, Secured, HasPayload
<1>5. CASE InsertArtifactRow(r)
  <2>1. held'[r].rows = {[art |-> run[r].art, mime |-> run[r].mime]}
        /\ held'[r].batches = held[r].batches
    BY <1>0, <1>5 DEF InsertArtifactRow, TypeOK, Held
  <2>2. \E w \in held'[r].rows : w.art = run[r].art
    BY <2>1
  <2> QED
    BY <1>0, <1>5, <2>1, <2>2 DEF InsertArtifactRow, Secured, HasPayload
<1>6. CASE FindNoReceipt(r)
  BY <1>0, <1>6 DEF FindNoReceipt, Secured, HasPayload
<1>7. CASE CommitReceipt(r)
  <2>1. held'[r].batches = {}
    BY <1>0, <1>7 DEF CommitReceipt, CommitHeld, TypeOK, Nothing
  <2> QED
    BY <1>0, <1>7, <2>1 DEF CommitReceipt, Secured, HasPayload
<1>8. CASE ReuseReceipt(r)
  <2>1. PICK c \in ReceiptsFor(r) :
           run' = [run EXCEPT ![r] = [@ EXCEPT !.pc = "retained", !.seen = c.first]]
    BY <1>8 DEF ReuseReceipt
  <2>2. /\ run'[r].pc = "retained" /\ run'[r].art = run[r].art
        /\ run'[r].mime = run[r].mime /\ run'[r].ds = run[r].ds
        /\ run'[r].seen = c.first
    BY <1>0, <2>1 DEF TypeOK, RunState
  <2>3. [ds |-> run[r].ds, art |-> run[r].art, first |-> c.first] \in receipts
    BY <1>0, <2>1 DEF ReceiptsFor, TypeOK, Receipt
  <2> QED
    BY <1>0, <1>8, <2>2, <2>3 DEF ReuseReceipt, Secured, HasPayload
<1>9. CASE SkipCompleted(r)
  <2>1. held'[r].batches = {}
    BY <1>0, <1>9 DEF SkipCompleted, CommitHeld, TypeOK, Nothing
  <2> QED
    BY <1>0, <1>9, <2>1 DEF SkipCompleted, Secured
<1>10. CASE ParseAndSelect(r)
  <2>1. PICK pc \in {"known", "parsed"} :
           run' = [run EXCEPT ![r] = [@ EXCEPT !.pc = pc, !.ingested = now]]
    BY <1>10 DEF ParseAndSelect
  <2>2. /\ run'[r].pc = pc /\ run'[r].art = run[r].art
        /\ run'[r].mime = run[r].mime /\ run'[r].ds = run[r].ds
        /\ run'[r].seen = run[r].seen
    BY <1>0, <2>1 DEF TypeOK, RunState
  <2> QED
    BY <1>0, <1>10, <2>2 DEF ParseAndSelect, Secured, HasPayload
<1>11. CASE InsertBatch(r)
  <2>1. held'[r].batches = {BatchOf(r)}
    BY <1>0, <1>11 DEF InsertBatch, TypeOK, Held
  <2>2. BatchOf(r)' = BatchOf(r)
    BY <1>0, <1>11 DEF InsertBatch, BatchOf
  <2> QED
    BY <1>0, <1>11, <2>1, <2>2 DEF InsertBatch, Secured, HasPayload
<1>12. CASE FinishSucceeded(r)
  <2>1. held'[r].batches = {}
    BY <1>0, <1>12 DEF FinishSucceeded, CommitHeld, TypeOK, Nothing
  <2> QED
    BY <1>0, <1>12, <2>1 DEF FinishSucceeded, Secured
<1>13. CASE Fail(r)
  <2>1. held'[r].batches = {}
    BY <1>0, <1>13 DEF Fail, TypeOK, Nothing
  <2> QED
    BY <1>0, <1>13, <2>1 DEF Fail, Secured
<1> QED
  BY <1>1, <1>2, <1>3, <1>4, <1>5, <1>6, <1>7, <1>8, <1>9, <1>10, <1>11, <1>12, <1>13
     DEF Step, Advance

LEMMA CrashSecured ==
    ASSUME IInv, NEW r \in Runs, Crash(r) PROVE Secured(r)'
<1>1. held'[r].batches = {}
  BY DEF IInv, Crash, TypeOK, Nothing
<1> QED
  BY <1>1, GotoFields DEF IInv, Crash, Secured

-----------------------------------------------------------------------------
\* What one step does to the committed tables.

\* Only CommitReceipt adds a receipt, and only where there is none.
LEMMA ReceiptsStep ==
    ASSUME NEW r \in Runs, Acts(r)
    PROVE  receipts' = receipts \/ CommitReceipt(r)
BY DEF Acts, Start, Step, Advance, Crash, Fetch, CheckStore, PersistRaw,
       SelectArtifactRow, InsertArtifactRow, FindNoReceipt, ReuseReceipt,
       SkipCompleted, ParseAndSelect, InsertBatch, FinishSucceeded, Fail

LEMMA ReceiptsPreserved ==
    ASSUME IInv, NEW r \in Runs, Acts(r)
    PROVE  OneFirstObserved' /\ ReceiptsRooted'
<1>1. CASE receipts' = receipts
  BY <1>1, ActsMonotone DEF IInv, OneFirstObserved, ReceiptsRooted, Monotone
<1>2. CASE CommitReceipt(r)
  <2> DEFINE new == [ds |-> run[r].ds, art |-> run[r].art, first |-> run[r].seen]
  <2>1. receipts' = receipts \cup {new} /\ ReceiptsFor(r) = {}
    BY <1>2 DEF CommitReceipt
  <2>2. OneFirstObserved'
    BY <2>1 DEF IInv, OneFirstObserved, ReceiptsFor
  <2>3. run[r].art \in files /\ \E w \in rows \cup held[r].rows : w.art = run[r].art
    BY <1>2 DEF CommitReceipt, At, IInv, Secured
  <2>4. ReceiptsRooted'
    BY <1>2, <2>1, <2>3 DEF IInv, ReceiptsRooted, CommitReceipt, CommitHeld
  <2> QED
    BY <2>2, <2>4
<1> QED
  BY <1>1, <1>2, ReceiptsStep

\* Only the final commit of a run adds observations: its own batch.
LEMMA BatchesStep ==
    ASSUME IInv, NEW r \in Runs, Acts(r)
    PROVE  \/ batches' = batches
           \/ /\ FinishSucceeded(r) /\ At(r, "written")
              /\ batches' = batches \cup {BatchOf(r)}
<1>0. Secured(r)
  BY DEF IInv
<1>1. CASE CommitReceipt(r)
  BY <1>0, <1>1 DEF CommitReceipt, CommitHeld, At, Secured
<1>2. CASE SkipCompleted(r)
  BY <1>0, <1>2 DEF SkipCompleted, CommitHeld, At, Secured
<1>3. CASE FinishSucceeded(r)
  BY <1>0, <1>3 DEF FinishSucceeded, CommitHeld, At, Secured
<1>4. CASE ~(CommitReceipt(r) \/ SkipCompleted(r) \/ FinishSucceeded(r))
  BY <1>4 DEF Acts, Start, Step, Advance, Crash, Fetch, CheckStore, PersistRaw,
         SelectArtifactRow, InsertArtifactRow, FindNoReceipt, ReuseReceipt,
         ParseAndSelect, InsertBatch, Fail
<1> QED
  BY <1>1, <1>2, <1>3, <1>4

LEMMA BatchesPreserved ==
    ASSUME IInv, NEW r \in Runs, Acts(r)
    PROVE  BatchesReceipted'
<1>1. receipts \subseteq receipts'
  BY ActsMonotone DEF Monotone
<1>2. CASE batches' = batches
  BY <1>1, <1>2 DEF IInv, BatchesReceipted
<1>3. CASE At(r, "written") /\ batches' = batches \cup {BatchOf(r)}
  <2>1. [ds |-> BatchOf(r).ds, art |-> BatchOf(r).art, first |-> BatchOf(r).first]
           \in receipts
    BY <1>3 DEF IInv, Secured, At, BatchOf
  <2> QED
    BY <1>1, <1>3, <2>1 DEF IInv, BatchesReceipted
<1> QED
  BY <1>2, <1>3, BatchesStep

\* A run that has ended takes no step.
LEMMA DoneActsNot ==
    ASSUME NEW r \in Runs, Acts(r)
    PROVE  run[r].pc # "done"
BY DEF Acts, Start, Step, Advance, Crash, Fetch, CheckStore, PersistRaw,
       SelectArtifactRow, InsertArtifactRow, FindNoReceipt, CommitReceipt,
       ReuseReceipt, SkipCompleted, ParseAndSelect, InsertBatch,
       FinishSucceeded, Fail, At, Working

\* A run whose manifest says SUCCEEDED or FAILED takes no further step.
LEMMA DonePreserved ==
    ASSUME IInv, NEW r \in Runs, Acts(r)
    PROVE  EndedIsDone'
<1>1. \A q \in Runs : q # r =>
          run'[q] = run[q] /\ manifest'[q] = manifest[q]
  BY ActsLocal DEF IInv
<1>2. manifest'[r].status \in {"succeeded", "failed"} => run'[r].pc = "done"
  <2>1. CASE manifest'[r] = manifest[r]
    BY <2>1, DoneActsNot DEF IInv, EndedIsDone
  <2>2. CASE Start(r)
    <3>1. manifest'[r].status = "running"
      BY <2>2 DEF Start, IInv, TypeOK, Manifest
    <3> QED
      BY <3>1
  <2>3. CASE SkipCompleted(r) \/ FinishSucceeded(r) \/ Fail(r)
    BY <2>3, GotoFields DEF SkipCompleted, FinishSucceeded, Fail, IInv
  <2>4. CASE ~(Start(r) \/ SkipCompleted(r) \/ FinishSucceeded(r) \/ Fail(r))
    BY <2>1, <2>4 DEF Acts, Step, Advance, Crash, Fetch, CheckStore, PersistRaw,
           SelectArtifactRow, InsertArtifactRow, FindNoReceipt, CommitReceipt,
           ReuseReceipt, ParseAndSelect, InsertBatch
  <2> QED
    BY <2>2, <2>3, <2>4
<1> QED
  BY <1>1, <1>2 DEF IInv, EndedIsDone

LEMMA SuccessPreserved ==
    ASSUME IInv, NEW r \in Runs, Acts(r)
    PROVE  ObservationsHaveSuccessfulRun'
<1>0. run[r].pc # "done"
  BY DoneActsNot
<1>1. ASSUME NEW b \in batches
      PROVE  \E q \in Runs : manifest'[q].status = "succeeded"
                 /\ manifest'[q].inserted /\ BatchOf(q)' = b
  <2>1. PICK q \in Runs : manifest[q].status = "succeeded"
                 /\ manifest[q].inserted /\ BatchOf(q) = b
    BY DEF IInv, ObservationsHaveSuccessfulRun
  <2>2. q # r
    BY <1>0, <2>1 DEF IInv, EndedIsDone
  <2>3. run'[q] = run[q] /\ manifest'[q] = manifest[q]
    BY <2>2, ActsLocal DEF IInv
  <2> QED
    BY <2>1, <2>3 DEF BatchOf
<1>2. CASE batches' = batches
  BY <1>1, <1>2 DEF ObservationsHaveSuccessfulRun
<1>3. CASE FinishSucceeded(r) /\ At(r, "written")
             /\ batches' = batches \cup {BatchOf(r)}
  <2>1. manifest'[r].status = "succeeded" /\ manifest'[r].inserted
    BY <1>3 DEF FinishSucceeded, Finish, IInv, TypeOK
  <2>2. BatchOf(r)' = BatchOf(r)
    BY <1>3, GotoFields DEF FinishSucceeded, BatchOf, IInv
  <2> QED
    BY <1>1, <1>3, <2>1, <2>2 DEF ObservationsHaveSuccessfulRun
<1> QED
  BY <1>2, <1>3, BatchesStep

-----------------------------------------------------------------------------
\* The inductive invariant, and what follows from it.

LEMMA NextIInv == IInv /\ [Next]_vars => IInv'
<1> SUFFICES ASSUME IInv, [Next]_vars PROVE IInv'
  OBVIOUS
<1>1. TypeOK'
  BY NextType
<1>2. CASE Tick \/ UNCHANGED vars
  BY <1>1, <1>2
     DEF Tick, vars, IInv, OneFirstObserved, ReceiptsRooted, BatchesReceipted,
         Secured, HasPayload, BatchOf, EndedIsDone,
         ObservationsHaveSuccessfulRun
<1>3. ASSUME NEW r \in Runs, Acts(r) PROVE IInv'
  <2>1. Secured(r)'
    BY <1>3, StartSecured, StepSecured, CrashSecured DEF Acts
  <2>2. \A q \in Runs : Secured(q)'
    BY <1>3, <2>1, OthersSecured
  <2> QED
    BY <1>1, <1>3, <2>2, ReceiptsPreserved, BatchesPreserved, DonePreserved,
       SuccessPreserved DEF IInv
<1> QED
  BY <1>2, <1>3 DEF Next, Acts

THEOREM Invariance == Spec => []IInv
<1>1. QED
  BY InitIInv, NextIInv, PTL DEF Spec

\* The state of the runner is well typed, for any number of runs and payloads.
THEOREM TypeCorrect == Spec => []TypeOK
<1>1. IInv => TypeOK
  BY DEF IInv
<1> QED
  BY <1>1, Invariance, PTL

\* No observation is committed without its receipt, artifact row and raw bytes
\* ("Parser acts on unretained content"), whatever races and crashes occur.
THEOREM Traceability == Spec => []ObservationsTraceToRaw
<1>1. IInv => ObservationsTraceToRaw
  BY DEF IInv, ObservationsTraceToRaw, BatchesReceipted, ReceiptsRooted
<1> QED
  BY <1>1, Invariance, PTL

\* A payload of a dataset has one first-observed time, however many runs race to
\* record it ("Retry changes historical visibility").
THEOREM FirstObservedIsUnique == Spec => []OneFirstObserved
<1>1. IInv => OneFirstObserved
  BY DEF IInv
<1> QED
  BY <1>1, Invariance, PTL

\* Observations are visible only with the SUCCEEDED manifest of the run that
\* inserted them: the two are one commit.
THEOREM SuccessIsVisible == Spec => []ObservationsHaveSuccessfulRun
<1>1. IInv => ObservationsHaveSuccessfulRun
  BY DEF IInv
<1> QED
  BY <1>1, Invariance, PTL

\* No observation is ever added by a run that ends FAILED: the step of a run that
\* adds observations finishes its manifest as SUCCEEDED, and no later step of any
\* run changes a manifest that is finished.
THEOREM FailureAddsNothing == Spec => FailedRunAddsNothing
<1>1. IInv /\ [Next]_vars =>
        [\A r \in Runs :
            /\ run'[r] # run[r] /\ batches' # batches
                  => manifest'[r].status = "succeeded"
            /\ manifest[r].status \in {"succeeded", "failed"}
                  => manifest'[r] = manifest[r]]_vars
  <2> SUFFICES ASSUME IInv, Next, NEW r \in Runs
               PROVE  /\ run'[r] # run[r] /\ batches' # batches
                            => manifest'[r].status = "succeeded"
                      /\ manifest[r].status \in {"succeeded", "failed"}
                            => manifest'[r] = manifest[r]
    OBVIOUS
  <2>1. CASE Tick
    BY <2>1 DEF Tick
  <2>2. ASSUME NEW q \in Runs, Acts(q), q # r
        PROVE  run'[r] = run[r] /\ manifest'[r] = manifest[r]
    BY <2>2, ActsLocal DEF IInv
  <2>3. CASE Acts(r)
    <3>1. manifest[r].status \notin {"succeeded", "failed"}
      BY <2>3, DoneActsNot DEF IInv, EndedIsDone
    <3>2. FinishSucceeded(r) => manifest'[r].status = "succeeded"
      BY DEF FinishSucceeded, Finish, IInv, TypeOK
    <3> QED
      BY <2>3, <3>1, <3>2, BatchesStep
  <2> QED
    BY <2>1, <2>2, <2>3 DEF Next, Acts
<1> QED
  BY <1>1, Invariance, PTL DEF Spec, FailedRunAddsNothing

\* The runner implements the abstract evidence store: a commit of a receipt is
\* Retain, a commit of a batch is Publish (or a stutter, when another run of the
\* same payload has published it), and every other step is a stutter.
THEOREM Refinement == Spec => Implements
<1> DEFINE pub(b) == [ds |-> b.ds, art |-> b.art, first |-> b.first]
<1>1. Init => Abstract!Init
  BY DEF Init, Abstract!Init
<1>2. IInv /\ [Next]_vars =>
        [Abstract!Next]_<<receipts, {pub(b) : b \in batches}>>
  <2> SUFFICES ASSUME IInv, [Next]_vars
               PROVE  \/ Abstract!Next
                      \/ receipts' = receipts /\ batches' = batches
    OBVIOUS
  <2>1. CASE Tick \/ UNCHANGED vars
    BY <2>1 DEF Tick, vars
  <2>2. ASSUME NEW r \in Runs, Acts(r)
        PROVE  \/ Abstract!Next
               \/ receipts' = receipts /\ batches' = batches
    <3>p. PICK p : p = [ds |-> run[r].ds, art |-> run[r].art, first |-> run[r].seen]
      OBVIOUS
    <3>0. Secured(r) /\ run[r].seen \in Time
      BY RunFields DEF IInv
    <3>1. CASE CommitReceipt(r)
      <4>1. p \in Abstract!Payload
        BY <3>0, <3>1, <3>p DEF CommitReceipt, At, Secured, HasPayload, Abstract!Payload,
                               Time
      <4>2. batches' = batches
        BY <2>2, <3>1, BatchesStep DEF CommitReceipt, At
      <4>3. receipts' = receipts \cup {p}
            /\ \A c \in receipts : c.ds # p.ds \/ c.art # p.art
        BY <3>1, <3>p DEF CommitReceipt, ReceiptsFor
      <4>4. Abstract!Retain(p)
        BY <4>2, <4>3 DEF Abstract!Retain
      <4> QED
        BY <4>1, <4>4 DEF Abstract!Next
    <3>2. CASE /\ FinishSucceeded(r) /\ At(r, "written")
               /\ batches' = batches \cup {BatchOf(r)}
      <4>1. p \in receipts /\ p \in Abstract!Payload
        BY <3>0, <3>2, <3>p DEF At, Secured, HasPayload, Abstract!Payload, Time
      <4>2. receipts' = receipts
        BY <3>2 DEF FinishSucceeded
      <4>3. {pub(b) : b \in batches'} = {pub(b) : b \in batches} \cup {p}
        <5>1. pub(BatchOf(r)) = p
          BY <3>p DEF BatchOf
        <5> HIDE DEF pub
        <5> QED
          BY <3>2, <5>1
      <4>4. Abstract!Publish(p)
        BY <4>1, <4>2, <4>3 DEF Abstract!Publish
      <4> QED
        BY <4>1, <4>4 DEF Abstract!Next
    <3> QED
      BY <2>2, <3>1, <3>2, ReceiptsStep, BatchesStep
  <2> QED
    BY <2>1, <2>2 DEF Next, Acts
<1> QED
  BY <1>1, <1>2, Invariance, PTL DEF Spec, Implements, Abstract!Spec

-----------------------------------------------------------------------------
\* "Completed observations are skipped" is about two moments of one run: when it
\* starts, and when it ends.  CompletedBy(r, a) carries the first to the second.

\* Only the manifest of a run that has ended says that it inserted anything.
InsertedIsDone ==
    \A r \in Runs : manifest[r].inserted => run[r].pc = "done"

\* The phases of a run that has passed the look-up of its receipt.
PastLookup == {"unreceipted", "retained", "parsed", "known", "written"}

\* The observations of payload a are there for run r to find, and if a is what it
\* fetched it has not passed them by.
CompletedBy(r, a) ==
    /\ \E b \in batches : b.ds = run[r].ds /\ b.art = a
    /\ run[r].pc # "idle"
    /\ run[r].art = a => run[r].pc \notin PastLookup /\ ~manifest[r].inserted

\* The manifest of a run after one of its steps.
LEMMA ManifestStep ==
    ASSUME TypeOK, NEW r \in Runs, Acts(r)
    PROVE  \/ manifest'[r].inserted = manifest[r].inserted
           \/ ~manifest'[r].inserted /\ run'[r].pc = "done"
           \/ FinishSucceeded(r) /\ run'[r].pc = "done"
<1>1. CASE Start(r)
  BY <1>1 DEF Start, TypeOK, Manifest
<1>2. CASE SkipCompleted(r) \/ FinishSucceeded(r) \/ Fail(r)
  BY <1>2, GotoFields DEF SkipCompleted, FinishSucceeded, Fail, Finish, TypeOK
<1>3. CASE ~(Start(r) \/ SkipCompleted(r) \/ FinishSucceeded(r) \/ Fail(r))
  BY <1>3 DEF Acts, Step, Advance, Crash, Fetch, CheckStore, PersistRaw,
         SelectArtifactRow, InsertArtifactRow, FindNoReceipt, CommitReceipt,
         ReuseReceipt, ParseAndSelect, InsertBatch
<1> QED
  BY <1>1, <1>2, <1>3

LEMMA InitInserted == Init => InsertedIsDone
BY DEF Init, InsertedIsDone

LEMMA NextInserted == IInv /\ InsertedIsDone /\ [Next]_vars => InsertedIsDone'
<1> SUFFICES ASSUME IInv, InsertedIsDone, [Next]_vars PROVE InsertedIsDone'
  OBVIOUS
<1>1. CASE Tick \/ UNCHANGED vars
  BY <1>1 DEF Tick, vars, InsertedIsDone
<1>2. ASSUME NEW r \in Runs, Acts(r) PROVE InsertedIsDone'
  <2>1. \A q \in Runs : q # r => run'[q] = run[q] /\ manifest'[q] = manifest[q]
    BY <1>2, ActsLocal DEF IInv
  <2>2. manifest'[r].inserted => run'[r].pc = "done"
    BY <1>2, ManifestStep, DoneActsNot DEF IInv, InsertedIsDone
  <2> QED
    BY <2>1, <2>2 DEF InsertedIsDone
<1> QED
  BY <1>1, <1>2 DEF Next, Acts

\* What a step of a run leaves of its dataset and its payload.
LEMMA PayloadStep ==
    ASSUME TypeOK, NEW r \in Runs, Acts(r), run[r].pc # "idle"
    PROVE  /\ run'[r].ds = run[r].ds
           /\ run'[r].pc # "idle"
           /\ Fetch(r) \/ run'[r].art = run[r].art
<1> USE GotoFields DEF At
<1>1. CASE Fetch(r)
  <2>1. PICK a \in Artifacts, m \in Mimes :
           run' = [run EXCEPT ![r] = [@ EXCEPT !.pc = "fetched", !.art = a,
                                               !.mime = m, !.seen = now]]
    BY <1>1 DEF Fetch
  <2> QED
    BY <1>1, <2>1 DEF TypeOK, RunState
<1>2. CASE CheckStore(r)
  BY <1>2 DEF CheckStore, TypeOK, RunState
<1>3. CASE ReuseReceipt(r)
  <2>1. PICK c \in ReceiptsFor(r) :
           run' = [run EXCEPT ![r] = [@ EXCEPT !.pc = "retained", !.seen = c.first]]
    BY <1>3 DEF ReuseReceipt
  <2> QED
    BY <2>1 DEF TypeOK, RunState
<1>4. CASE ParseAndSelect(r)
  <2>1. PICK pc \in {"known", "parsed"} :
           run' = [run EXCEPT ![r] = [@ EXCEPT !.pc = pc, !.ingested = now]]
    BY <1>4 DEF ParseAndSelect
  <2> QED
    BY <2>1 DEF TypeOK, RunState
<1>5. ASSUME NEW pc, pc # "idle", Goto(r, pc)
      PROVE  run'[r].ds = run[r].ds /\ run'[r].pc # "idle" /\ run'[r].art = run[r].art
  BY <1>5
<1>6. CASE ~(Fetch(r) \/ CheckStore(r) \/ ReuseReceipt(r) \/ ParseAndSelect(r))
  BY <1>5, <1>6 DEF Acts, Start, Step, Advance, Crash, PersistRaw, SelectArtifactRow,
         InsertArtifactRow, FindNoReceipt, CommitReceipt, SkipCompleted,
         InsertBatch, FinishSucceeded, Fail
<1> QED
  BY <1>1, <1>2, <1>3, <1>4, <1>6

\* A run that finds the observations of its payload does not pass the look-up:
\* their receipt is there, so neither of the two ways past it is open.
LEMMA LookupStops ==
    ASSUME IInv, NEW r \in Runs, Acts(r), run[r].pc \notin PastLookup,
           \E b \in batches : b.ds = run[r].ds /\ b.art = run[r].art
    PROVE  Fetch(r) \/ run'[r].pc \notin PastLookup
<1> USE GotoFields DEF At, PastLookup
<1>0. ReceiptsFor(r) # {} /\ HasObservations(r)
  <2>1. PICK b \in batches : b.ds = run[r].ds /\ b.art = run[r].art
    OBVIOUS
  <2>2. [ds |-> b.ds, art |-> b.art, first |-> b.first] \in ReceiptsFor(r)
    BY <2>1 DEF IInv, BatchesReceipted, ReceiptsFor
  <2> QED
    BY <2>1, <2>2 DEF HasObservations
<1>1. ~FindNoReceipt(r) /\ ~CommitReceipt(r) /\ ~ReuseReceipt(r)
  BY <1>0 DEF FindNoReceipt, CommitReceipt, ReuseReceipt
<1>2. ~ParseAndSelect(r) /\ ~InsertBatch(r) /\ ~FinishSucceeded(r)
  BY DEF ParseAndSelect, InsertBatch, FinishSucceeded
<1>3. CASE Start(r)
  BY <1>3 DEF Start, IInv, TypeOK, RunState
<1>4. CASE CheckStore(r)
  BY <1>4 DEF CheckStore, IInv, TypeOK, RunState
<1>5. ASSUME NEW pc, pc \notin PastLookup, Goto(r, pc)
      PROVE  run'[r].pc \notin PastLookup
  BY <1>5 DEF IInv
<1> QED
  BY <1>1, <1>2, <1>3, <1>4, <1>5
     DEF Acts, Step, Advance, Crash, PersistRaw, SelectArtifactRow,
         InsertArtifactRow, SkipCompleted, Fail

\* A payload that is completed when a run starts stays completed for that run.
LEMMA CompletedStays ==
    ASSUME NEW r \in Runs, NEW a \in Artifacts
    PROVE  IInv /\ InsertedIsDone /\ CompletedBy(r, a) /\ [Next]_vars
              => CompletedBy(r, a)'
<1> SUFFICES ASSUME IInv, InsertedIsDone, CompletedBy(r, a), [Next]_vars
             PROVE  CompletedBy(r, a)'
  OBVIOUS
<1>1. CASE Tick \/ UNCHANGED vars
  BY <1>1 DEF Tick, vars, CompletedBy
<1>2. ASSUME NEW q \in Runs, Acts(q), q # r PROVE CompletedBy(r, a)'
  <2>1. run'[r] = run[r] /\ manifest'[r] = manifest[r]
    BY <1>2, ActsLocal DEF IInv
  <2> QED
    BY <1>2, <2>1, ActsMonotone DEF CompletedBy, Monotone
<1>3. ASSUME Acts(r) PROVE CompletedBy(r, a)'
  <2>1. /\ run'[r].ds = run[r].ds
        /\ run'[r].pc # "idle"
        /\ Fetch(r) \/ run'[r].art = run[r].art
    BY <1>3, PayloadStep DEF CompletedBy, IInv
  <2>2. \E b \in batches' : b.ds = run'[r].ds /\ b.art = a
    BY <1>3, <2>1, ActsMonotone DEF CompletedBy, Monotone
  <2>3. CASE Fetch(r)
    <3>1. manifest'[r] = manifest[r] /\ ~manifest[r].inserted
      BY <2>3 DEF Fetch, At, InsertedIsDone
    <3>2. run'[r].pc = "fetched"
      BY <2>3 DEF Fetch, IInv, TypeOK, RunState
    <3> QED
      BY <2>1, <2>2, <3>1, <3>2 DEF CompletedBy, PastLookup
  <2>4. CASE ~Fetch(r) /\ run'[r].art = a
    <3>1. run[r].art = a
      BY <2>1, <2>4
    <3>2. run[r].pc \notin PastLookup /\ ~manifest[r].inserted
      BY <3>1 DEF CompletedBy
    <3>3. run'[r].pc \notin PastLookup
      BY <1>3, <2>4, <3>1, <3>2, LookupStops DEF CompletedBy
    <3>4. ~FinishSucceeded(r)
      BY <3>2 DEF FinishSucceeded, PastLookup
    <3>5. ~manifest'[r].inserted
      BY <1>3, <3>2, <3>4, ManifestStep DEF IInv
    <3> QED
      BY <2>1, <2>2, <3>3, <3>5 DEF CompletedBy
  <2>5. CASE ~Fetch(r) /\ run'[r].art # a
    BY <2>1, <2>2, <2>5 DEF CompletedBy
  <2> QED
    BY <2>3, <2>4, <2>5
<1> QED
  BY <1>1, <1>2, <1>3 DEF Next, Acts

\* "Completed observations are skipped": a run that starts when the observations
\* of a payload are committed, and then fetches that payload, never reports to
\* have inserted them, whatever other runs do in between.
THEOREM CompletedStaySkipped == Spec => CompletedAreSkipped
<1> SUFFICES ASSUME NEW r \in Runs, NEW a \in Artifacts
             PROVE  Spec =>
                [](At(r, "started") /\ (\E b \in batches : b.ds = run[r].ds /\ b.art = a)
                      => [](run[r].art = a => ~manifest[r].inserted))
  BY DEF CompletedAreSkipped
<1>1. InsertedIsDone /\ At(r, "started")
         /\ (\E b \in batches : b.ds = run[r].ds /\ b.art = a)
      => CompletedBy(r, a)
  BY DEF InsertedIsDone, At, CompletedBy, PastLookup
<1>2. CompletedBy(r, a) => (run[r].art = a => ~manifest[r].inserted)
  BY DEF CompletedBy
<1>3. IInv /\ InsertedIsDone /\ CompletedBy(r, a) /\ [Next]_vars => CompletedBy(r, a)'
  BY CompletedStays
<1> QED
  BY <1>1, <1>2, <1>3, InitInserted, NextInserted, Invariance, PTL DEF Spec

-----------------------------------------------------------------------------
\* "The observations of one payload are inserted once" fails for runs that
\* overlap.  It is the overlap that breaks it: one run at a time keeps it, however
\* many runs fail or die before their last commit.

OneAtATime ==
    \A q, r \in Runs : run[q].pc \in Working /\ run[r].pc \in Working => q = r

SerialInv ==
    /\ OneAtATime
    /\ CompletedOnce
    /\ \A r \in Runs : run[r].pc \in PastLookup => ~HasObservations(r)

LEMMA InitSerial == Init => SerialInv
BY DEF Init, SerialInv, OneAtATime, Working, CompletedOnce, PastLookup

\* A run may only start when there is no other.
LEMMA StartsAlone ==
    ASSUME OneAtATime, MaxConcurrent = 1, NEW r \in Runs, Start(r)
    PROVE  \A q \in Runs : run[q].pc \notin Working
<1> DEFINE S == {q \in Runs : run[q].pc \in Working}
<1>1. Cardinality(S) < 1
  BY DEF Start
<1>2. ASSUME NEW q \in S PROVE FALSE
  <2>1. S = {q}
    BY DEF OneAtATime
  <2> HIDE DEF S
  <2>2. Cardinality({q}) = 1
    BY FS_Singleton
  <2> QED
    BY <1>1, <2>1, <2>2
<1> QED
  BY <1>2

LEMMA OneStays ==
    ASSUME TypeOK, OneAtATime, MaxConcurrent = 1, NEW r \in Runs, Acts(r)
    PROVE  OneAtATime'
<1>1. \A q \in Runs : q # r => run'[q] = run[q]
  BY ActsLocal
<1>2. CASE Start(r)
  BY <1>1, <1>2, StartsAlone DEF OneAtATime
<1>3. CASE run[r].pc \in Working
  BY <1>1, <1>3 DEF OneAtATime
<1> QED
  BY <1>2, <1>3
     DEF Acts, Step, Advance, Crash, Fetch, CheckStore, PersistRaw,
         SelectArtifactRow, InsertArtifactRow, FindNoReceipt, CommitReceipt,
         ReuseReceipt, SkipCompleted, ParseAndSelect, InsertBatch,
         FinishSucceeded, Fail, At, Working

LEMMA SerialStep ==
    ASSUME IInv, SerialInv, MaxConcurrent = 1, NEW r \in Runs, Acts(r)
    PROVE  SerialInv'
<1>1. OneAtATime'
  BY OneStays DEF IInv, SerialInv
<1>2. \A q \in Runs : q # r => run'[q] = run[q]
  BY ActsLocal DEF IInv
<1>3. CASE batches' = batches
  <2>1. ASSUME run'[r].pc \in PastLookup PROVE ~HasObservations(r)'
    <3>1. ~Fetch(r) /\ ~Start(r)
      <4>1. Fetch(r) => run'[r].pc = "fetched"
        BY DEF Fetch, IInv, TypeOK, RunState
      <4>2. Start(r) => run'[r].pc = "started"
        BY DEF Start, IInv, TypeOK, RunState
      <4> QED
        BY <2>1, <4>1, <4>2 DEF PastLookup
    <3>2. run[r].pc # "idle"
      BY <3>1
         DEF Acts, Step, Advance, Crash, CheckStore, PersistRaw,
             SelectArtifactRow, InsertArtifactRow, FindNoReceipt, CommitReceipt,
             ReuseReceipt, SkipCompleted, ParseAndSelect, InsertBatch,
             FinishSucceeded, Fail, At, Working
    <3>3. run'[r].ds = run[r].ds /\ run'[r].art = run[r].art
      BY <3>1, <3>2, PayloadStep DEF IInv
    <3>4. ~HasObservations(r)
      BY <2>1, <3>1, LookupStops DEF SerialInv, HasObservations
    <3> QED
      BY <1>3, <3>3, <3>4 DEF HasObservations
  <2>2. \A q \in Runs : q # r /\ run'[q].pc \in PastLookup => ~HasObservations(q)'
    BY <1>2, <1>3 DEF SerialInv, HasObservations
  <2> QED
    BY <1>1, <1>3, <2>1, <2>2 DEF SerialInv, CompletedOnce
<1>4. CASE /\ FinishSucceeded(r) /\ At(r, "written")
           /\ batches' = batches \cup {BatchOf(r)}
  <2>1. ~HasObservations(r)
    BY <1>4 DEF SerialInv, At, PastLookup
  <2>2. CompletedOnce'
    <3>1. BatchOf(r).ds = run[r].ds /\ BatchOf(r).art = run[r].art
      BY DEF BatchOf
    <3> QED
      BY <1>4, <2>1, <3>1 DEF SerialInv, CompletedOnce, HasObservations
  <2>3. run'[r].pc = "done"
    BY <1>4, GotoFields DEF FinishSucceeded, IInv
  <2>4. \A q \in Runs : run'[q].pc \notin PastLookup
    BY <1>2, <1>4, <2>3 DEF SerialInv, OneAtATime, At, PastLookup, Working
  <2> QED
    BY <1>1, <2>2, <2>4 DEF SerialInv
<1> QED
  BY <1>3, <1>4, BatchesStep

LEMMA NextSerial ==
    ASSUME MaxConcurrent = 1
    PROVE  IInv /\ SerialInv /\ [Next]_vars => SerialInv'
<1> SUFFICES ASSUME IInv, SerialInv, [Next]_vars PROVE SerialInv'
  OBVIOUS
<1>1. CASE Tick \/ UNCHANGED vars
  BY <1>1 DEF Tick, vars, SerialInv, OneAtATime, CompletedOnce, HasObservations
<1>2. CASE \E r \in Runs : Acts(r)
  BY <1>2, SerialStep
<1> QED
  BY <1>1, <1>2 DEF Next, Acts

\* With at most one run in progress the observations of a payload are committed
\* once, by whatever sequence of runs that fail, die or repeat one another.
THEOREM SerialRunsCompleteOnce ==
    ASSUME MaxConcurrent = 1 PROVE Spec => []CompletedOnce
<1>1. SerialInv => CompletedOnce
  BY DEF SerialInv
<1> QED
  BY <1>1, InitSerial, NextSerial, Invariance, PTL DEF Spec

=============================================================================
