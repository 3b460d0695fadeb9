---------------------------- MODULE MacroTrends ----------------------------
(***************************************************************************)
(* macro/: releases of one series and their corrections, as files bring    *)
(* them, and the trend signals calculated of what was visible at a cutoff. *)
(* Values are left out, and of the seasonal adjustments there is one.      *)
(***************************************************************************)
EXTENDS CommandSessions, Sequences, FiniteSets

CONSTANTS
    MaxPeriod,      \* the periods a release may describe, in their order
    Windows         \* the windows of the horizons, in periods

ASSUME MacroAssumption == MaxPeriod \in Nat /\ Windows \subseteq Nat \ {0}

VARIABLES
    releases,       \* macro_observations
    trends          \* trend_signals

macroVars == <<releases, trends>>

Period == 1..MaxPeriod
\* A release is named by its period, its first-observed time and a value.
ReleaseKey == [period: Period, at: Time, value: {"first", "corrected"}]
NoRelease == [period |-> 0]
Release == [key: ReleaseKey, revises: ReleaseKey \cup {NoRelease}]
Trend == [window: Windows, at: Time, inputs: SUBSET ReleaseKey, asof: Period]

MacroInit == releases = {} /\ trends = {}

ReleaseKeys == {r.key : r \in releases}

\* Variant: a correction may come with the time of what it corrects.
CorrectionHoldsAtOnce(r) ==
    r.revises # NoRelease =>
        /\ r.revises \in ReleaseKeys
        /\ r.revises.period = r.key.period /\ r.revises.at <= r.key.at

\* add_observation: a correction keeps the period and is observed later.
CorrectionHolds(r) ==
    r.revises # NoRelease =>
        /\ r.revises \in ReleaseKeys
        /\ r.revises.period = r.key.period /\ r.revises.at < r.key.at

\* macro ingest: the file names the time of the observation itself.
BeginMacroIngest(o) ==
    \E r \in [key: ReleaseKey, revises: ReleaseKeys \cup {NoRelease}] :
        /\ r.key.at <= now
        /\ CorrectionHolds(r)
        /\ Begin(o, [pc |-> "macro_insert", row |-> r])
        /\ UNCHANGED macroVars

CommitMacro(o) ==
    /\ At(o, "macro_insert")
    /\ releases' = releases \cup {job[o].row}
    /\ Finish(o)
    /\ UNCHANGED trends

\* observations_visible_at: of each period the release observed last; of two
\* observed at once either may be the incumbent.
VisibleSets(cutoff) ==
    LET of(p) == {k \in ReleaseKeys : k.period = p /\ k.at <= cutoff}
        last(p) == {k \in of(p) : \A q \in of(p) : q.at <= k.at}
        periods == {p \in Period : of(p) # {}}
    IN  {{pick[p] : p \in periods} :
            pick \in {f \in [periods -> ReleaseKeys] : \A p \in periods : f[p] \in last(p)}}

\* calculate_trend: the last periods of the horizon's window.
TrendOf(visible, window, cutoff) ==
    LET inputs == {k \in visible : Cardinality({q \in visible : q.period > k.period}) < window}
    IN  [window |-> window, at |-> cutoff, inputs |-> inputs,
         asof |-> CHOOSE p \in Period : \E k \in inputs : k.period = p
                                          /\ \A q \in inputs : q.period <= p]

\* trends calculate: one query, a trend for each horizon.
BeginTrends(o) ==
    \E cutoff \in 0..now : \E visible \in VisibleSets(cutoff) :
        /\ visible # {}
        /\ Begin(o, [pc |-> "trend_insert",
                     rows |-> {TrendOf(visible, w, cutoff) : w \in Windows}])
        /\ UNCHANGED macroVars

\* add_trend finds every input, observed by the time of the calculation.
CommitTrends(o) ==
    /\ At(o, "trend_insert")
    /\ \A t \in job[o].rows : \A k \in t.inputs : k \in ReleaseKeys /\ k.at <= t.at
    /\ trends' = trends \cup job[o].rows
    /\ Finish(o)
    /\ UNCHANGED releases

MacroNext(o) ==
    \/ Free(o) /\ (BeginMacroIngest(o) \/ BeginTrends(o))
    \/ CommitMacro(o) \/ CommitTrends(o)

MacroTypeOK ==
    /\ releases \subseteq Release
    /\ trends \subseteq Trend

\* docs/macro-lab.md: queries at a cutoff select the newest release of each period
\* that was visible.  From its observation on a correction hides what it corrects,
\* whatever is ingested in between, before, or dated back (add_observation,
\* observations_visible_at).
CorrectionsSupersede ==
    \A r \in releases, cutoff \in Time :
        r.revises # NoRelease /\ cutoff >= r.key.at =>
            \A visible \in VisibleSets(cutoff) : r.revises \notin visible

=============================================================================
