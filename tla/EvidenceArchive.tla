-------------------------- MODULE EvidenceArchive --------------------------
(***************************************************************************)
(* archive/: an archive run stores and commits its payloads one by one,    *)
(* then records a manifest of what it counted.  Vintages form revision     *)
(* chains; proven ones may make an unusable replay case usable.            *)
(***************************************************************************)
EXTENDS CommandSessions, Sequences, FiniteSets

CONSTANTS
    Uris,           \* the canonical URIs a source serves, which a case requires
    Contents,       \* what a URI may answer
    CaseCutoff,     \* the cutoff of the replay case
    MaxPayloads     \* bound on the payloads of a fetch

ASSUME ArchiveAssumption == CaseCutoff \in Time /\ MaxPayloads \in Nat

VARIABLES
    stored,         \* contents in the artifact store
    vintages,       \* evidence_vintages, with their artifact rows
    archiveRuns,    \* archive_runs
    archiveGaps     \* archive_gaps

archiveVars == <<stored, vintages, archiveRuns, archiveGaps>>

\* Of the classifications it matters which prove historical availability.
Classification == {"observed_live_at_time", "retrospectively_available_current_copy"}
VintageKey == [uri: Uris, content: Contents, at: Time, class: Classification]
NoVintage == [uri |-> "none"]
Vintage == [key: VintageKey, revises: VintageKey \cup {NoVintage}]
Counts == [inserted: Nat, duplicates: Nat]
ArchiveRun == [status: {"succeeded", "failed", "skipped"}, snapshots: Nat, counts: Counts]
Gap == [expected: Time, detected: Time]

ArchiveInit == stored = {} /\ vintages = {} /\ archiveRuns = <<>> /\ archiveGaps = {}

Keys == {v.key : v \in vintages}
NoneCounted == [inserted |-> 0, duplicates |-> 0]

BeginArchive(o) ==
    /\ Begin(o, [pc |-> "archive_fetch"])
    /\ UNCHANGED archiveVars

\* The adapter answers payloads, each with its retrieval time; it names the
\* vintage that a payload revises.
AdapterAnswers(o) ==
    \E n \in 0..MaxPayloads :
      \E keys \in [1..n -> [uri: Uris, content: Contents, at: {now}, class: Classification]],
         revises \in [1..n -> Keys \cup {NoVintage}] :
        /\ At(o, "archive_fetch")
        /\ Learn(o, [pc |-> "archive_put", counts |-> NoneCounted, snapshots |-> n,
                     todo |-> [i \in 1..n |-> [key |-> keys[i], revises |-> revises[i]]]])
        /\ UNCHANGED archiveVars

\* archive: the bytes are on disk before any row of them is.
PutPayload(o) ==
    /\ At(o, "archive_put") /\ job[o].todo # <<>>
    /\ stored' = stored \cup {Head(job[o].todo).key.content}
    /\ Proceed(o, "archive_commit")
    /\ UNCHANGED <<vintages, archiveRuns, archiveGaps>>

\* add_vintage: what a revision asks of the vintage it revises.
ChainHolds(v) ==
    v.revises # NoVintage =>
        /\ v.revises \in Keys
        /\ v.revises.uri = v.key.uri /\ v.revises.at < v.key.at

\* Variant: the vintages wait for the commit of the run, which a failure rolls
\* back with what it has counted kept.
CommitPayloadLate(o) ==
    /\ At(o, "archive_commit") /\ ChainHolds(Head(job[o].todo))
    /\ Learn(o, [job[o] EXCEPT !.pc = "archive_put", !.todo = Tail(@), !.counts.inserted = @ + 1])
    /\ UNCHANGED archiveVars

\* archive: the vintage and its artifact row, in a commit of their own.
CommitPayload(o) ==
    LET v == Head(job[o].todo)
    IN  /\ At(o, "archive_commit") /\ v \notin vintages /\ ChainHolds(v)
        /\ vintages' = vintages \cup {v}
        /\ Learn(o, [job[o] EXCEPT !.pc = "archive_put", !.todo = Tail(@),
                                   !.counts.inserted = @ + 1])
        /\ UNCHANGED <<stored, archiveRuns, archiveGaps>>

FindDuplicate(o) ==
    /\ At(o, "archive_commit") /\ Head(job[o].todo) \in vintages
    /\ Learn(o, [job[o] EXCEPT !.pc = "archive_put", !.todo = Tail(@),
                               !.counts.duplicates = @ + 1])
    /\ UNCHANGED archiveVars

\* A fetch, a store or a chain that fails: rollback, no snapshots, and the counts
\* of what was committed before.
ArchiveFails(o) ==
    /\ At(o, "archive_fetch") \/ At(o, "archive_put")
       \/ (At(o, "archive_commit") /\ ~ChainHolds(Head(job[o].todo)))
    /\ Learn(o, [pc |-> "archive_record", status |-> "failed", snapshots |-> 0,
                 counts |-> IF At(o, "archive_fetch") THEN NoneCounted ELSE job[o].counts])
    /\ UNCHANGED archiveVars

ArchiveEnds(o) ==
    /\ At(o, "archive_put") /\ job[o].todo = <<>>
    /\ Learn(o, [pc |-> "archive_record", status |-> "succeeded",
                 snapshots |-> job[o].snapshots, counts |-> job[o].counts])
    /\ UNCHANGED archiveVars

\* An exception that run does not catch, as of an invalid vintage.
ArchiveRaises(o) ==
    /\ At(o, "archive_put") /\ job[o].todo # <<>>
    /\ Finish(o)
    /\ UNCHANGED archiveVars

RecordArchiveRun(o) ==
    /\ At(o, "archive_record")
    /\ archiveRuns' = Append(archiveRuns, [status |-> job[o].status, snapshots |-> job[o].snapshots,
                                           counts |-> job[o].counts])
    /\ Finish(o)
    /\ UNCHANGED <<stored, vintages, archiveGaps>>

\* archive run, archive source: no adapter is configured.
ScheduleSkipped(o) ==
    /\ Begin(o, [pc |-> "archive_record", status |-> "skipped", snapshots |-> 0,
                 counts |-> NoneCounted])
    /\ UNCHANGED archiveVars

BeginGap(o) ==
    \E t \in Time :
        /\ t <= now
        /\ Begin(o, [pc |-> "gap", row |-> [expected |-> t, detected |-> now]])
        /\ UNCHANGED archiveVars

RecordGap(o) ==
    /\ At(o, "gap")
    /\ archiveGaps' = archiveGaps \cup {job[o].row}
    /\ Finish(o)
    /\ UNCHANGED <<stored, vintages, archiveRuns>>

ArchiveNext(o) ==
    \/ Free(o) /\ (BeginArchive(o) \/ ScheduleSkipped(o) \/ BeginGap(o))
    \/ AdapterAnswers(o) \/ PutPayload(o) \/ CommitPayload(o) \/ FindDuplicate(o)
    \/ ArchiveFails(o) \/ ArchiveEnds(o) \/ ArchiveRaises(o) \/ RecordArchiveRun(o)
    \/ RecordGap(o)

\* evaluate_replay_upgrade: a case becomes usable once each URI it lacks has a
\* vintage that proves its availability.
Proving(uri) == {k \in Keys : k.uri = uri /\ k.class = "observed_live_at_time"}
UpgradeEligible == \A uri \in Uris : Proving(uri) # {}

ArchiveTypeOK ==
    /\ stored \subseteq Contents
    /\ vintages \subseteq Vintage
    /\ archiveRuns \in Seq(ArchiveRun)
    /\ archiveGaps \subseteq Gap

\* Whatever fails or dies between the commits of a run, the manifests together
\* claim no vintage that is not in the archive, every vintage is on disk, and
\* a revision is observed after what it revises (ArchiveService.run, archive).
ManifestsNeverOverclaim ==
    LET Claimed[i \in 0..Len(archiveRuns)] ==
            IF i = 0 THEN 0 ELSE Claimed[i - 1] + archiveRuns[i].counts.inserted
    IN  /\ Claimed[Len(archiveRuns)] <= Cardinality(vintages)
        /\ \A v \in vintages :
               /\ v.key.content \in stored
               /\ v.revises # NoVintage => v.revises \in Keys /\ v.revises.at < v.key.at

\* docs/evidence-vintages.md: a live vintage is eligible from its genuine local
\* observation time.  A case becomes usable only by what was observed by its cutoff.
UpgradesUseEvidenceOfTheirTime ==
    UpgradeEligible => \A uri \in Uris : \E k \in Proving(uri) : k.at <= CaseCutoff

=============================================================================
