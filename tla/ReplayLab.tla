------------------------------- MODULE ReplayLab -------------------------------
(***************************************************************************)
(* Historical replay: a case is run from what was visible at its cutoff,   *)
(* a commitment is sealed, and the outcome is measured once the horizon    *)
(* has matured (replay/engine.py, replay/benchmark.py, the replay commands *)
(* of cli.py).  There is one case.  What other components ingest goes on   *)
(* arriving meanwhile: items of evidence and bars of the case's asset.     *)
(***************************************************************************)
EXTENDS CommandSessions, FiniteSets

CONSTANTS
    ReplayCutoff, ReplayHorizon,    \* of the case
    ReplayTables,   \* how many tables a snapshot reads
    ResearchModes,  \* a mode of research, named or anonymized
    MaxArrivals     \* bound on the items of evidence and the bars together

ASSUME ReplayAssumption ==
    /\ ReplayCutoff \in Time /\ ReplayHorizon \in Time /\ ReplayCutoff <= ReplayHorizon
    /\ MaxArrivals \in Nat /\ ReplayTables \in Nat

VARIABLES
    caseKnown,      \* whether replay_cases holds the case
    evidence,       \* what the snapshot selects of, in all its tables
    bars,           \* market_observations of the case's asset
    commitments,    \* replay_commitments
    replayRuns,     \* replay_runs
    outcomes        \* outcome_evaluations

replayVars == <<caseKnown, evidence, bars, commitments, replayRuns, outcomes>>

\* at: the time the row names for its observation.  Some tables keep every row in a
\* snapshot, some hide what a row revises.  Items are numbered as they arrive.
ReplayItem == [id : 1..MaxArrivals, table : 1..ReplayTables, at : Time, hides : 0..MaxArrivals]
\* A version of a day's price; the figures of an outcome are computed of versions.
PriceBar == [day : Time, at : Time]
\* arrived: how many items had arrived before the snapshot was taken.
Commitment == [mode : ResearchModes, at : Time, context : SUBSET ReplayItem, arrived : Nat]
Outcome == [run : Commitment, at : Time, base : PriceBar, path : SUBSET PriceBar]

ReplayInit ==
    /\ caseKnown = FALSE
    /\ evidence = {} /\ bars = {}
    /\ commitments = {} /\ replayRuns = {} /\ outcomes = {}

\* A row names its own time, which may be long past when the row arrives.
EvidenceArrives ==
    /\ Cardinality(evidence) + Cardinality(bars) < MaxArrivals
    /\ \E table \in 1..ReplayTables, at \in 0..now :
       \E hides \in {0} \cup {i.id : i \in {e \in evidence : e.table = table /\ e.at <= at}} :
          evidence' = evidence \cup
              {[id |-> Cardinality(evidence) + 1, table |-> table, at |-> at, hides |-> hides]}
    /\ UNCHANGED <<caseKnown, bars, commitments, replayRuns, outcomes>>

\* The price of a day, or another version of it, which may arrive late as well.
BarArrives ==
    /\ Cardinality(evidence) + Cardinality(bars) < MaxArrivals
    /\ \E at \in 0..now : \E day \in 0..at : bars' = bars \cup {[day |-> day, at |-> at]}
    /\ UNCHANGED <<caseKnown, evidence, commitments, replayRuns, outcomes>>

\* seed_cases looks for the cases.
BeginReplay(o) ==
    \E mode \in ResearchModes :
        /\ Begin(o, [pc |-> "replay_seed", mode |-> mode, add |-> ~caseKnown])
        /\ UNCHANGED replayVars

\* The cases are committed, unless another process inserted them meanwhile; then
\* replay seed-cases ends and replay run goes on.
CommitCases(o) ==
    /\ At(o, "replay_seed") /\ ~(job[o].add /\ caseKnown)
    /\ caseKnown' = TRUE
    /\ \/ Finish(o)
       \/ Learn(o, [pc |-> "replay_snapshot", mode |-> job[o].mode, at |-> now, next |-> 1,
                    context |-> {}, arrived |-> Cardinality(evidence)])
    /\ UNCHANGED <<evidence, bars, commitments, replayRuns, outcomes>>

CasesRefused(o) ==
    /\ At(o, "replay_seed") /\ job[o].add /\ caseKnown
    /\ Finish(o)
    /\ UNCHANGED replayVars

\* What a table shows of a cutoff.
ReplaySnapshot(table, cutoff) ==
    LET seen == {i \in evidence : i.table = table /\ i.at <= cutoff}
    IN  {i \in seen : \A j \in seen : j.hides # i.id}

\* run_case: the snapshot of the cutoff, table by table.
TakeSnapshot(o) ==
    /\ At(o, "replay_snapshot") /\ job[o].next <= ReplayTables
    /\ Learn(o, [job[o] EXCEPT !.next = @ + 1, !.context = @ \cup ReplaySnapshot(job[o].next, ReplayCutoff)])
    /\ UNCHANGED replayVars

\* A commitment is not made before the cutoff.
MakeCommitment(o) ==
    /\ At(o, "replay_snapshot") /\ job[o].next > ReplayTables
    /\ IF job[o].at >= ReplayCutoff
       THEN Learn(o, [pc |-> "replay_commit",
                      row |-> [mode |-> job[o].mode, at |-> job[o].at,
                               context |-> job[o].context, arrived |-> job[o].arrived]])
       ELSE Finish(o)
    /\ UNCHANGED replayVars

\* commit: a transaction of its own; the same commitment is found or refused.
CommitCommitment(o) ==
    /\ At(o, "replay_commit")
    /\ commitments' = commitments \cup {job[o].row}
    /\ \/ Proceed(o, "replay_record")
       \/ job[o].row \in commitments /\ Finish(o)
    /\ UNCHANGED <<caseKnown, evidence, bars, replayRuns, outcomes>>

\* record_run: another transaction.
RecordRun(o) ==
    /\ At(o, "replay_record")
    /\ replayRuns' = replayRuns \cup {job[o].row}
    /\ Finish(o)
    /\ UNCHANGED <<caseKnown, evidence, bars, commitments, outcomes>>

\* get_market_data: of each day in a range the last version visible at a cutoff.
MarketAt(first, last, cutoff) ==
    LET seen == {b \in bars : b.day \in first..last /\ b.at <= cutoff}
    IN  {b \in seen : \A c \in seen : c.day = b.day => c.at <= b.at}

LastOf(S) == CHOOSE b \in S : \A c \in S : c.day <= b.day

\* Variant: the history is read as it is known today.
BeginOutcomeOfToday(o) ==
    \E r \in replayRuns :
        LET history == MarketAt(0, ReplayCutoff, now)
        IN  /\ now >= ReplayHorizon /\ history # {}
            /\ Begin(o, [pc |-> "replay_future", run |-> r, at |-> now, base |-> LastOf(history)])
            /\ UNCHANGED replayVars

\* evaluate: the horizon has matured, and the base is the last price that was
\* visible at the cutoff.
BeginOutcome(o) ==
    \E r \in replayRuns :
        LET history == MarketAt(0, ReplayCutoff, ReplayCutoff)
        IN  /\ now >= ReplayHorizon /\ history # {}
            /\ Begin(o, [pc |-> "replay_future", run |-> r, at |-> now, base |-> LastOf(history)])
            /\ UNCHANGED replayVars

\* The path from the cutoff on, as it is visible at the evaluation.
ReadFuture(o) ==
    LET future == MarketAt(ReplayCutoff, ReplayHorizon, job[o].at)
    IN  /\ At(o, "replay_future") /\ future # {}
        /\ Learn(o, [pc |-> "replay_outcome",
                     row |-> [run |-> job[o].run, at |-> job[o].at, base |-> job[o].base,
                              path |-> future]])
        /\ UNCHANGED replayVars

OutcomeRaises(o) ==
    /\ At(o, "replay_future") /\ MarketAt(ReplayCutoff, ReplayHorizon, job[o].at) = {}
    /\ Finish(o)
    /\ UNCHANGED replayVars

CommitOutcome(o) ==
    /\ At(o, "replay_outcome")
    /\ outcomes' = outcomes \cup {job[o].row}
    /\ Finish(o)
    /\ UNCHANGED <<caseKnown, evidence, bars, commitments, replayRuns>>

ReplayNext(o) ==
    \/ Free(o) /\ (BeginReplay(o) \/ BeginOutcome(o))
    \/ CommitCases(o) \/ CasesRefused(o) \/ TakeSnapshot(o) \/ MakeCommitment(o)
    \/ CommitCommitment(o) \/ RecordRun(o) \/ ReadFuture(o) \/ OutcomeRaises(o)
    \/ CommitOutcome(o)

ReplayTypeOK ==
    /\ caseKnown \in BOOLEAN
    /\ evidence \subseteq ReplayItem /\ bars \subseteq PriceBar
    /\ commitments \subseteq Commitment /\ replayRuns \subseteq commitments
    /\ outcomes \subseteq Outcome

\* docs/historical-replay.md: "Later edits and observed deletions cannot leak backward",
\* and outcomes measure from the last price visible.  Whatever arrives between the
\* queries, on time or late: a sealed context is of what names a time by the cutoff; of
\* what was there when the run began it leaves out nothing but what a row of the cutoff
\* hides; the base of an outcome is a version of the cutoff, and its path one of the time
\* of evaluation, from the base on.
ReplaysKeepToTheirCutoff ==
    /\ \A c \in commitments :
          /\ \A i \in c.context : i.at <= ReplayCutoff
          /\ \A i \in evidence : i.id <= c.arrived /\ i.at <= ReplayCutoff /\ i \notin c.context =>
                \E j \in evidence : j.hides = i.id /\ j.at <= ReplayCutoff
    /\ \A x \in outcomes :
          /\ x.run \in replayRuns
          /\ x.base.day <= ReplayCutoff /\ x.base.at <= ReplayCutoff
          /\ \A b \in x.path : x.base.day <= b.day /\ b.at <= x.at

\* docs/historical-replay.md: forward return from the last price visible at
\* commitment time.  An outcome is measured on a price after the cutoff.
OutcomesLookForward == \A x \in outcomes : \E b \in x.path : b.day > ReplayCutoff

=============================================================================
