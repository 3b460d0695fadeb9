----------------------------- MODULE EvidenceFusion -----------------------------
(***************************************************************************)
(* fusion/: claims of one domain from several sources, what is recorded of *)
(* them, and the reputation of the sources.  Each call of the repository   *)
(* is a session of its own: it checks, and then inserts and commits.       *)
(* Propositions, entities, spans, rationales and the weights of a score    *)
(* are left out.                                                           *)
(***************************************************************************)
EXTENDS CommandSessions, FiniteSets, Revisions

CONSTANTS
    ClaimSources,
    ReputationWindow,   \* how far back a reputation reaches
    MaxLeaves           \* bound on the rows that only describe a claim

ASSUME FusionAssumption == ReputationWindow \in Nat /\ MaxLeaves \in Nat

VARIABLES
    claims,         \* unified_claims
    lineage,        \* claim_lineage
    corroborations, \* claim_corroborations
    resolutions,    \* claim_resolutions
    disputes,       \* claim_contradictions
    scores,         \* fusion_scores
    reputations     \* fusion_reputation_snapshots

leafVars == <<lineage, corroborations, disputes, scores>>
fusionVars == <<claims, resolutions, reputations, leafVars>>

ClaimId == 1..MaxCommands
Claim == [id : ClaimId, source : ClaimSources, factual : BOOLEAN, at : Time,
          version : ClaimId, revises : {0} \cup ClaimId]
Lineage == [from : ClaimId, to : ClaimId, copy : BOOLEAN, at : Time]
Independence == {"same_primary_source", "copied", "independent", "unknown"}
Corroboration == [claim : ClaimId, source : ClaimSources, class : Independence,
                  official : BOOLEAN, at : Time]
\* Partial confirmation counts as confirmation.
Outcomes == {"confirmed", "contradicted", "unresolved", "expired"}
\* alone: by the source of the claim and nobody else.
Resolution == [claim : ClaimId, outcome : Outcomes, alone : BOOLEAN, at : Time]
Dispute == [claim : ClaimId, at : Time]
\* The components that are computed of other rows: counts in thirds, capped.
Score == [claim : ClaimId, class : Independence, independent : 0..3, burden : 0..3, at : Time]
Reputation == [source : ClaimSources, cutoff : Time, counted : SUBSET ClaimId,
               confirmed : SUBSET ClaimId, contradicted : SUBSET ClaimId,
               unresolved : SUBSET ClaimId, copies : SUBSET ClaimId]

FusionInit ==
    /\ claims = {} /\ lineage = {} /\ corroborations = {} /\ resolutions = {}
    /\ disputes = {} /\ scores = {} /\ reputations = {}

\* The checks passed; the row is inserted when the session commits.
Adds(o, table, row) ==
    /\ Begin(o, [pc |-> "fusion_insert", table |-> table, row |-> row])
    /\ UNCHANGED fusionVars

Leaves == Cardinality(lineage) + Cardinality(corroborations) + Cardinality(disputes) + Cardinality(scores)
LeafAllowed == Leaves < MaxLeaves

RevisionFollows(row) == Follows(row, claims)

\* add_claim
AddClaim(o) ==
    \E source \in ClaimSources, factual \in BOOLEAN, at \in 0..now,
       version \in 1..Cardinality(claims) + 1, revises \in {0} \cup {c.id : c \in claims} :
        LET row == [id |-> started + 1, source |-> source, factual |-> factual, at |-> at,
                    version |-> version, revises |-> revises]
        IN  RevisionFollows(row) /\ Adds(o, "claims", row)

\* add_lineage: both claims were observed by then.
AddLineage(o) ==
    /\ LeafAllowed
    /\ \E from, to \in claims, copy \in BOOLEAN, at \in 0..now :
          /\ from # to /\ from.at <= at /\ to.at <= at
          /\ Adds(o, "lineage", [from |-> from.id, to |-> to.id, copy |-> copy, at |-> at])

LineageOf(claim, cutoff) == {e \in lineage : claim \in {e.from, e.to} /\ e.at <= cutoff}

\* classify_independence
ClassOf(claim, source, edges) ==
    IF source = claim.source THEN "same_primary_source"
    ELSE IF \E e \in edges : e.copy THEN "copied"
    ELSE IF edges # {} THEN "independent" ELSE "unknown"

\* add_corroboration, of the class the engine finds.
AddCorroboration(o) ==
    /\ LeafAllowed
    /\ \E claim \in claims, source \in ClaimSources, official \in BOOLEAN, at \in 0..now :
          /\ claim.at <= at
          /\ Adds(o, "corroborations",
                  [claim |-> claim.id, source |-> source, official |-> official, at |-> at,
                   class |-> ClassOf(claim, source, LineageOf(claim.id, at))])

\* add_resolution: a source alone resolves its own claim only as the authority, by
\* the caller's word, on a fact.
AddResolution(o) ==
    \E claim \in claims, outcome \in Outcomes, alone \in BOOLEAN, at \in 0..now :
        /\ claim.at <= at
        /\ alone /\ outcome # "unresolved" => claim.factual
        /\ Adds(o, "resolutions", [claim |-> claim.id, outcome |-> outcome, alone |-> alone, at |-> at])

\* add_contradiction
AddDispute(o) ==
    /\ LeafAllowed
    /\ \E claim \in claims, at \in 0..now :
          claim.at <= at /\ Adds(o, "disputes", [claim |-> claim.id, at |-> at])

CorroborationsOf(claim, cutoff) == {r \in corroborations : r.claim = claim /\ r.at <= cutoff}
Capped(n) == IF n > 3 THEN 3 ELSE n

\* fusion_score, then add_score.
AddScore(o) ==
    /\ LeafAllowed
    /\ \E claim \in claims, class \in Independence, at \in 0..now :
          /\ claim.at <= at
          /\ Adds(o, "scores",
                  [claim |-> claim.id, class |-> class, at |-> at,
                   independent |-> Capped(Cardinality({r \in CorroborationsOf(claim.id, at) :
                                                          r.class = "independent"})),
                   burden |-> Capped(Cardinality({d \in disputes : d.claim = claim.id}))])

ClaimsVisibleAt(cutoff) == CurrentAt(claims, cutoff)

\* calculate_reputation selects the claims of a source in the window.
BeginReputation(o) ==
    \E source \in ClaimSources, cutoff \in 0..now :
        /\ Begin(o, [pc |-> "fusion_reputation", source |-> source, cutoff |-> cutoff,
                     counted |-> {c.id : c \in {d \in ClaimsVisibleAt(cutoff) :
                                      d.source = source /\ cutoff - ReputationWindow <= d.at}}])
        /\ UNCHANGED fusionVars

\* Variant: whatever is known today.
ResolutionsOfToday(claim, cutoff) == {r \in resolutions : r.claim = claim}

ResolutionsVisibleAt(claim, cutoff) == {r \in resolutions : r.claim = claim /\ r.at <= cutoff}

\* The last of them in the order of their times; which one, of the same time, is open.
LatestResolutions(claim, cutoff) ==
    LET visible == ResolutionsVisibleAt(claim, cutoff)
    IN  {r \in visible : \A s \in visible : s.at <= r.at}

\* Then it looks at the resolutions and the lineage of each, and the snapshot is
\* stored by add_reputation, or only printed (reputation).
CalculateReputation(o) ==
    /\ At(o, "fusion_reputation")
    /\ LET counted == job[o].counted
           cutoff == job[o].cutoff
           Latest(c) == LatestResolutions(c, cutoff)
           With(last, outcome) == {c \in counted : last[c] = outcome}
       IN  \E last \in {f \in [counted -> Outcomes] :
                          \A c \in counted : \/ \E r \in Latest(c) : f[c] = r.outcome
                                             \/ Latest(c) = {} /\ f[c] = "unresolved"} :
             Learn(o, [pc |-> "fusion_insert", table |-> "reputations",
                       row |-> [source |-> job[o].source, cutoff |-> cutoff, counted |-> counted,
                                confirmed |-> With(last, "confirmed"),
                                contradicted |-> With(last, "contradicted"),
                                unresolved |-> With(last, "unresolved"),
                                copies |-> {c \in counted : \E e \in LineageOf(c, cutoff) :
                                                                e.copy /\ e.to = c}]])
    /\ UNCHANGED fusionVars

Into(o, table, rows) == IF job[o].table = table THEN rows \cup {job[o].row} ELSE rows

\* Every table has the content of a row for its key: what is there is left alone.
CommitFusion(o) ==
    /\ At(o, "fusion_insert")
    /\ claims' = Into(o, "claims", claims)
    /\ lineage' = Into(o, "lineage", lineage)
    /\ corroborations' = Into(o, "corroborations", corroborations)
    /\ resolutions' = Into(o, "resolutions", resolutions)
    /\ disputes' = Into(o, "disputes", disputes)
    /\ scores' = Into(o, "scores", scores)
    /\ reputations' = Into(o, "reputations", reputations)
    /\ Finish(o)

FusionNext(o) ==
    \/ Free(o) /\ (AddClaim(o) \/ AddLineage(o) \/ AddCorroboration(o)
                      \/ AddResolution(o) \/ AddDispute(o) \/ AddScore(o)
                      \/ BeginReputation(o))
    \/ CalculateReputation(o) \/ CommitFusion(o)

FusionTypeOK ==
    /\ claims \subseteq Claim /\ lineage \subseteq Lineage
    /\ corroborations \subseteq Corroboration /\ resolutions \subseteq Resolution
    /\ disputes \subseteq Dispute /\ scores \subseteq Score
    /\ reputations \subseteq Reputation

\* docs/source-reputation.md: only resolutions visible at cutoff T affect a snapshot
\* at T.  Whatever is recorded late, out of order or while a snapshot is computed,
\* a stored snapshot counts claims of its source that were observed by its cutoff,
\* gives each at most one fate, and a fate other than unresolved was on record for
\* the cutoff (calculate_reputation).
ReputationsKeepToTheirCutoff ==
    \A s \in reputations :
        LET counted == {c \in claims : c.id \in s.counted}
            OnRecord(c, outcome) ==
                \E r \in resolutions : r.claim = c /\ r.outcome = outcome /\ r.at <= s.cutoff
        IN  /\ \A c \in counted : c.source = s.source /\ c.at <= s.cutoff
            /\ s.confirmed \cup s.contradicted \cup s.unresolved \cup s.copies \subseteq s.counted
            /\ s.confirmed \cap s.contradicted = {}
            /\ (s.confirmed \cup s.contradicted) \cap s.unresolved = {}
            /\ \A c \in s.confirmed : OnRecord(c, "confirmed")
            /\ \A c \in s.contradicted : OnRecord(c, "contradicted")

\* docs/source-reputation.md: copied and forwarded claims do not receive
\* origination credit.
CopiesEarnNoCredit == \A s \in reputations : s.copies \cap s.confirmed = {}

=============================================================================
