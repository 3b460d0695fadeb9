-------------------------- MODULE ExpertEvolution --------------------------
(***************************************************************************)
(* evolve/: proposals against the current champion of one expert, the      *)
(* challengers built from them, their evaluations, the append-only log     *)
(* that names the champion, and the audit of the final holdout.            *)
(* A version is named by its place in lineage, where 1 is the root.        *)
(***************************************************************************)
EXTENDS CommandSessions, Sequences, FiniteSets

CONSTANTS
    Tools,          \* what the root version may call
    Manifests,      \* benchmark manifests
    Auditors,       \* who accesses the final holdout
    MaxLineage,     \* bound on the versions
    MaxHoldouts     \* policy.maximum_final_holdout_accesses

ASSUME EvolutionAssumption ==
    /\ Tools # {} /\ MaxLineage \in Nat \ {0} /\ MaxHoldouts \in Nat

VARIABLES
    proposals,      \* improvement_proposals: what they change, of which parent
    lineage,        \* evolvable_expert_versions
    verdicts,       \* challenger_evaluations
    championLog,    \* champion_registry_events
    holdouts        \* evolution_holdout_accesses of the final holdout

evolutionVars == <<proposals, lineage, verdicts, championLog, holdouts>>

VersionId == 1..MaxLineage
\* A proposal reduces the tools, or changes what is not a capability.
Proposal == [parent: VersionId, requested: SUBSET Tools, kind: {"tools", "other"}]
ExpertVersion == [parent: 0..MaxLineage, tools: SUBSET Tools]
Verdict == [champion: VersionId, challenger: VersionId, manifest: Manifests,
            decision: {"quarantined", "eligible_for_promotion", "rejected"}, at: Time]
ChampionEvent == [version: VersionId, previous: 0..MaxLineage,
                  action: {"initial_champion", "promotion", "rollback"},
                  at: Time, verdict: Verdict \cup {[decision |-> "none"]}]
HoldoutAccess == [version: VersionId, manifest: Manifests, at: Time, actor: Auditors]

NoVerdict == [decision |-> "none"]

EvolutionInit ==
    /\ proposals = {}
    /\ lineage = <<[parent |-> 0, tools |-> Tools]>>
    /\ verdicts = {}
    /\ championLog = {[version |-> 1, previous |-> 0, action |-> "initial_champion",
                       at |-> 0, verdict |-> NoVerdict]}
    /\ holdouts = {}

\* The first row of an ORDER BY time DESC; ties come in any order.
Newest(rows) == {r \in rows : \A q \in rows : q.at <= r.at}

\* current_champion_id
Champion(v) == \E e \in Newest(championLog) : e.version = v

\* evolve propose names the champion of the moment as its parent.
Propose(o) ==
    \E v \in VersionId, kind \in {"tools", "other"}, requested \in SUBSET Tools :
        /\ Champion(v)
        /\ kind = "other" => requested = {}
        /\ Begin(o, [pc |-> "proposing",
                     row |-> [parent |-> v, requested |-> requested, kind |-> kind]])
        /\ UNCHANGED evolutionVars

CommitProposal(o) ==
    /\ At(o, "proposing")
    /\ proposals' = proposals \cup {job[o].row}
    /\ Finish(o)
    /\ UNCHANGED <<lineage, verdicts, championLog, holdouts>>

\* Variant: any tools may be requested of the whole pool.
MayUse(parent, p) == p.kind = "other" \/ p.requested # {}

\* construct_challenger and ExpertVersion.__post_init__: a challenger keeps a
\* nonempty part of the tools its parent has.
MayInherit(parent, p) ==
    p.kind = "other" \/ (p.requested # {} /\ p.requested \subseteq lineage[parent].tools)

\* A challenger is built of the proposal's parent, whoever is champion by now.
BuildChallenger(o) ==
    \E p \in proposals :
        /\ MayInherit(p.parent, p) /\ Len(lineage) < MaxLineage
        /\ Begin(o, [pc |-> "building",
                     row |-> [parent |-> p.parent,
                              tools |-> IF p.kind = "tools" THEN p.requested
                                        ELSE lineage[p.parent].tools]])
        /\ UNCHANGED evolutionVars

CommitChallenger(o) ==
    /\ At(o, "building") /\ Len(lineage) < MaxLineage
    /\ lineage' = Append(lineage, job[o].row)
    /\ Finish(o)
    /\ UNCHANGED <<proposals, verdicts, championLog, holdouts>>

\* evaluate_challenger: a safety failure quarantines whatever else was measured;
\* with no reason against it the challenger is eligible.
DecisionOf(unsafe, worse) ==
    IF unsafe THEN "quarantined" ELSE IF worse THEN "rejected" ELSE "eligible_for_promotion"

Evaluate(o) ==
    \E v \in DOMAIN lineage, m \in Manifests, unsafe, worse \in BOOLEAN :
        /\ lineage[v].parent # 0
        /\ Begin(o, [pc |-> "evaluating",
                     row |-> [champion |-> lineage[v].parent, challenger |-> v,
                              manifest |-> m, decision |-> DecisionOf(unsafe, worse),
                              at |-> now]])
        /\ UNCHANGED evolutionVars

CommitVerdict(o) ==
    /\ At(o, "evaluating")
    /\ verdicts' = verdicts \cup {job[o].row}
    /\ Finish(o)
    /\ UNCHANGED <<proposals, lineage, championLog, holdouts>>

VerdictsOn(v) == {e \in verdicts : e.challenger = v}

\* Variant: only the safety veto of the latest evaluation is asked for.
BeginPromotionUnlessVetoed(o) ==
    \E v \in DOMAIN lineage : \E e \in Newest(VerdictsOn(v)) :
        /\ e.decision # "quarantined"
        /\ Begin(o, [pc |-> "passing", version |-> v, verdict |-> e])
        /\ UNCHANGED evolutionVars

\* evolve promote reads the evaluations of the challenger: the latest decides.
BeginPromotion(o) ==
    \E v \in DOMAIN lineage : \E e \in Newest(VerdictsOn(v)) :
        /\ e.decision = "eligible_for_promotion"
        /\ Begin(o, [pc |-> "passing", version |-> v, verdict |-> e])
        /\ UNCHANGED evolutionVars

\* It reads the current champion only to record it as the previous one.
ReadPrevious(o) ==
    \E v \in VersionId :
        /\ At(o, "passing") /\ Champion(v)
        /\ Learn(o, [pc |-> "naming", row |->
               [version |-> job[o].version, previous |-> v, action |-> "promotion",
                at |-> now, verdict |-> job[o].verdict]])
        /\ UNCHANGED evolutionVars

\* rollback_event as its caller forms it of the last event of the history,
\* history[-1]: the champion before that event is champion again.
BeginRollback(o) ==
    \E e \in Newest(championLog) :
        /\ Cardinality(championLog) >= 2 /\ e.previous # 0
        /\ Begin(o, [pc |-> "naming", row |->
               [version |-> e.previous, previous |-> e.version,
                action |-> "rollback", at |-> now, verdict |-> NoVerdict]])
        /\ UNCHANGED evolutionVars

CommitChampion(o) ==
    /\ At(o, "naming")
    /\ championLog' = championLog \cup {job[o].row}
    /\ Finish(o)
    /\ UNCHANGED <<proposals, lineage, verdicts, holdouts>>

AccessesOf(v, m) == {a \in holdouts : a.version = v /\ a.manifest = m}

\* audit_holdout counts the accesses to the final holdout ...
CountHoldouts(o) ==
    \E v \in DOMAIN lineage, m \in Manifests, a \in Auditors :
        /\ Cardinality(AccessesOf(v, m)) < MaxHoldouts
        /\ Begin(o, [pc |-> "auditing", row |->
               [version |-> v, manifest |-> m, at |-> now, actor |-> a]])
        /\ UNCHANGED evolutionVars

\* ... and inserts its own, which has an id of its own.
CommitHoldout(o) ==
    /\ At(o, "auditing")
    /\ holdouts' = holdouts \cup {job[o].row}
    /\ Finish(o)
    /\ UNCHANGED <<proposals, lineage, verdicts, championLog>>

EvolutionNext(o) ==
    \/ Free(o) /\ (Propose(o) \/ BuildChallenger(o) \/ Evaluate(o)
                      \/ BeginPromotion(o) \/ BeginRollback(o) \/ CountHoldouts(o))
    \/ CommitProposal(o) \/ CommitChallenger(o) \/ CommitVerdict(o)
    \/ ReadPrevious(o) \/ CommitChampion(o) \/ CommitHoldout(o)

EvolutionTypeOK ==
    /\ proposals \subseteq Proposal
    /\ lineage \in Seq(ExpertVersion) /\ Len(lineage) \in VersionId
    /\ verdicts \subseteq Verdict
    /\ championLog \subseteq ChampionEvent
    /\ holdouts \subseteq HoldoutAccess

\* docs/self-improvement.md: tool changes may only reduce the parent allowlist.
\* Along any chain of proposals no version calls what an ancestor could not,
\* and none is left without a tool (construct_challenger).
CapabilitiesOnlyShrink ==
    \A v \in DOMAIN lineage :
        /\ lineage[v].tools # {}
        /\ lineage[v].parent # 0 => lineage[v].tools \subseteq lineage[lineage[v].parent].tools

\* Every version that was ever promoted passed an evaluation of its own, made at
\* or before the promotion, whoever promoted or evaluated meanwhile; a rollback
\* names a version that another event than a rollback made champion (promote,
\* rollback_event).
ChampionsPassed ==
    \A e \in championLog :
        /\ e.action = "promotion" =>
               /\ e.verdict \in VerdictsOn(e.version) /\ e.verdict.at <= e.at
               /\ e.verdict.decision = "eligible_for_promotion"
        /\ e.action = "rollback" =>
               \E f \in championLog : f.version = e.version /\ f.action # "rollback"

\* docs/champion-challenger.md: final holdout access defaults to once per
\* challenger and manifest.
HoldoutUsedOnce ==
    \A v \in DOMAIN lineage, m \in Manifests : Cardinality(AccessesOf(v, m)) <= MaxHoldouts

\* evolve promote: a challenger replaces the champion it was measured against.
PromotedOverItsRival ==
    \A e \in championLog : e.action = "promotion" => e.previous = e.verdict.champion

=============================================================================
