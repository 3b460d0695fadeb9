--------------------------- MODULE ExperimentLab ---------------------------
(***************************************************************************)
(* experiment/: specifications revised one row after another, the audit of *)
(* accesses to the test window, and backtests that commit their access     *)
(* before they read a price.  All specifications share one evaluation      *)
(* window, of which the end of the research part and the end of the test   *)
(* part matter.  RUNNING and COMPLETED, which no code sets, are VALIDATED. *)
(***************************************************************************)
EXTENDS CommandSessions, Sequences

CONSTANTS
    Hypotheses,     \* what the experiments test
    Cutoffs,        \* the cutoffs the commands are given
    ResearchEnd,    \* end of the research window
    TestEnd,        \* end of the test window
    MaxSpecs        \* bound on the specifications recorded

\* EvaluationWindow: research and test windows are disjoint and ordered.
ASSUME WindowAssumption ==
    /\ Cutoffs \subseteq Time /\ ResearchEnd \in Time /\ TestEnd \in Time /\ ResearchEnd < TestEnd
    /\ MaxSpecs \in Nat \ {0}

VARIABLES
    specs,          \* experiment_specifications, in the order of their commits
    accesses,       \* test_set_accesses
    results         \* backtest_results

labVars == <<specs, accesses, results>>

\* A specification is named by its place; equal rows have one content id.
SpecId == 1..MaxSpecs
Specification == [hypothesis: Hypotheses, created: Time, cutoff: Cutoffs,
          status: {"proposed", "validated"}, version: 1..MaxSpecs,
          revision_of: 0..MaxSpecs]
Access == [spec: SpecId, at: Time]
Result == [spec: SpecId, cutoff: Cutoffs]

\* ExperimentSpecification.__post_init__
SpecAdmissible(row) ==
    /\ row.cutoff <= row.created
    /\ row.version = 1 <=> row.revision_of = 0
    /\ row.status = "validated" => row.cutoff <= ResearchEnd

SpecRows == {specs[i] : i \in DOMAIN specs}

LabInit == specs = <<>> /\ accesses = {} /\ results = {}

\* experiment create
CreateSpec(o) ==
    \E h \in Hypotheses, c \in Cutoffs :
        LET row == [hypothesis |-> h, created |-> now, cutoff |-> c,
                    status |-> "proposed", version |-> 1, revision_of |-> 0]
        IN  /\ SpecAdmissible(row)
            /\ Begin(o, [pc |-> "spec_checked", row |-> row])
            /\ UNCHANGED labVars

\* experiment validate copies the prior row; a caller of the repository may
\* also change a parameter, of which the cutoff stands for all.
ReviseSpec(o) ==
    \E i \in DOMAIN specs, s \in {"proposed", "validated"}, c \in Cutoffs :
        LET row == [specs[i] EXCEPT !.created = now, !.status = s, !.cutoff = c,
                                    !.version = @ + 1, !.revision_of = i]
        IN  /\ SpecAdmissible(row) /\ row.version <= MaxSpecs
            /\ Begin(o, [pc |-> "spec_read", row |-> row])
            /\ UNCHANGED labVars

\* add_specification asks only for accesses of the direct prior.
RevisionAllowed(row) ==
    LET i == row.revision_of
    IN  /\ specs[i].created < row.created
        /\ \A a \in accesses : a.spec # i
        /\ specs[i].status # "validated"

CheckRevision(o) ==
    /\ At(o, "spec_read")
    /\ RevisionAllowed(job[o].row)
    /\ Proceed(o, "spec_checked")
    /\ UNCHANGED labVars

RefuseRevision(o) ==
    /\ At(o, "spec_read")
    /\ ~RevisionAllowed(job[o].row)
    /\ Finish(o)
    /\ UNCHANGED labVars

CommitSpec(o) ==
    /\ At(o, "spec_checked")
    /\ Len(specs) < MaxSpecs
    /\ specs' = IF job[o].row \in SpecRows THEN specs ELSE Append(specs, job[o].row)
    /\ Finish(o)
    /\ UNCHANGED <<accesses, results>>

\* backtest run: the specification is read, whatever its status.
BeginBacktest(o) ==
    \E i \in DOMAIN specs, c \in Cutoffs :
        /\ Begin(o, [pc |-> "access_new", spec |-> i, at |-> now, cutoff |-> c])
        /\ UNCHANGED labVars

\* The audit boundary: its own commit, before any read of the market.
CommitAccess(o) ==
    LET access == [spec |-> job[o].spec, at |-> job[o].at]
    IN  /\ At(o, "access_new")
        /\ access \notin accesses
        /\ accesses' = accesses \cup {access}
        /\ Proceed(o, "engine")
        /\ UNCHANGED <<specs, results>>

\* Two runs of one instant have one audit row: found, or refused as a duplicate.
RepeatAccess(o) ==
    /\ At(o, "access_new")
    /\ [spec |-> job[o].spec, at |-> job[o].at] \in accesses
    /\ \/ Proceed(o, "engine")
       \/ Finish(o)
    /\ UNCHANGED labVars

\* Variant: the engine runs a specification of any status.
EngineRunsAny(spec, cutoff) == cutoff >= TestEnd

\* BacktestEngine.run: what it asks of the specification and of the cutoff.
EngineRuns(spec, cutoff) == spec.status = "validated" /\ cutoff >= TestEnd

CommitResult(o) ==
    /\ At(o, "engine")
    /\ EngineRuns(specs[job[o].spec], job[o].cutoff)
    /\ results' = results \cup {[spec |-> job[o].spec, cutoff |-> job[o].cutoff]}
    /\ Finish(o)
    /\ UNCHANGED <<specs, accesses>>

\* The engine refuses, or finds no price, session, benchmark or provenance.
EngineRaises(o) ==
    /\ At(o, "engine")
    /\ Finish(o)
    /\ UNCHANGED labVars

LabNext(o) ==
    \/ Free(o) /\ (CreateSpec(o) \/ ReviseSpec(o) \/ BeginBacktest(o))
    \/ CheckRevision(o) \/ RefuseRevision(o) \/ CommitSpec(o) \/ CommitAccess(o)
    \/ RepeatAccess(o) \/ CommitResult(o) \/ EngineRaises(o)

LabTypeOK ==
    /\ specs \in Seq(Specification) /\ Len(specs) <= MaxSpecs
    /\ accesses \subseteq Access
    /\ results \subseteq Result

\* A result is out of sample: its specification was fixed with what was known
\* in the research window, it is validated, and the run read a closed test
\* window under a committed access (BacktestEngine.run, _backtest_command).
ResultsOutOfSample ==
    \A r \in results :
        /\ specs[r.spec].cutoff <= ResearchEnd
        /\ r.cutoff >= TestEnd
        /\ \E a \in accesses : a.spec = r.spec

\* The first version of the line a specification belongs to.
RootOf[i \in DOMAIN specs] ==
    IF specs[i].revision_of = 0 THEN i ELSE RootOf[specs[i].revision_of]

\* docs/hypothesis-testing.md: test-set access blocks later parameter changes.
\* No revision is made once the test window was accessed for its hypothesis.
AccessBlocksRevision ==
    \A j \in DOMAIN specs, a \in accesses :
        specs[j].version > 1 /\ RootOf[a.spec] = RootOf[j] => specs[j].created <= a.at

=============================================================================
