------------------------------ MODULE ExpertProofs ------------------------------
(***************************************************************************)
(* Safety of the champions of expert evolution and of the catalog of       *)
(* experts, for any number of commands that race.  Both are kept in tables *)
(* that only grow, read by one query and written by a later one: what a    *)
(* process has read stays true, and its commit adds a row that keeps to    *)
(* the rows it was made of.  With the proofs of the other parts, the types *)
(* of the whole desk.                                                      *)
(***************************************************************************)
EXTENDS ResearchDesk, LaboratoryProofs, ResearchProofs, SequenceTheorems

-----------------------------------------------------------------------------
(* Versions, their verdicts, and the champions.                            *)

\* A version has some of the tools of its parent.
Descends(row) ==
    /\ row \in ExpertVersion /\ row.tools # {}
    /\ row.parent # 0 => row.parent \in DOMAIN lineage /\ row.tools \subseteq lineage[row.parent].tools

Proposed(p) == p \in Proposal /\ p.parent \in DOMAIN lineage

Judged(e) == e \in Verdict /\ e.at <= now

\* What made it champion was not a rollback.
Made(v) == \E f \in championLog : f.version = v /\ f.action # "rollback"

Passed(e) ==
    /\ e.verdict \in VerdictsOn(e.version) /\ e.verdict.at <= e.at
    /\ e.verdict.decision = "eligible_for_promotion"

Named(e) ==
    /\ e \in ChampionEvent /\ e.version \in DOMAIN lineage
    /\ e.action = "promotion" => Passed(e)
    /\ e.action = "rollback" => Made(e.version)
    /\ e.previous # 0 => Made(e.previous)

EvolutionRows ==
    /\ EvolutionTypeOK
    /\ \A v \in DOMAIN lineage : Descends(lineage[v])
    /\ \A p \in proposals : Proposed(p)
    /\ \A e \in championLog : Named(e)

\* What a process of evolve/ has established.
EvolutionJob(j) ==
    /\ j.pc = "proposing" => Proposed(j.row)
    /\ j.pc = "building" => Descends(j.row)
    /\ j.pc = "evaluating" => Judged(j.row)
    /\ j.pc = "passing" =>
          /\ j.version \in DOMAIN lineage /\ j.verdict \in VerdictsOn(j.version)
          /\ j.verdict.decision = "eligible_for_promotion"
    /\ j.pc = "naming" => Named(j.row)
    /\ j.pc = "auditing" => j.row \in HoldoutAccess

EvolutionInv ==
    /\ part = "evolution" =>
          /\ SessionsOK
          /\ \A o \in Operators : EvolutionJob(job[o])
          /\ \A e \in verdicts : Judged(e)
    /\ EvolutionRows

LEMMA EvolutionPart ==
    ASSUME [Next]_vars
    PROVE  /\ part' = part
           /\ part # "evolution" => UNCHANGED evolutionVars
           /\ part = "evolution" =>
                 \/ \E o \in Operators : EvolutionNext(o)
                 \/ (\E o \in Operators : Dies(o)) /\ UNCHANGED evolutionVars
                 \/ Tick /\ UNCHANGED evolutionVars
                 \/ UNCHANGED <<sessionVars, evolutionVars>>
BY DEF Next, vars, Lab, Study, Evolution, Source, Replay, Research, Campaign, Agents, Arrival, Outside

\* Rows are only added and the clock does not go back, so what was established stays so.
LEMMA EvolutionGrows ==
    ASSUME now \in Time, now' \in Time, now <= now',
           \A v \in DOMAIN lineage : v \in DOMAIN lineage' /\ lineage'[v] = lineage[v],
           verdicts \subseteq verdicts', championLog \subseteq championLog'
    PROVE  /\ \A row : Descends(row) => Descends(row)'
           /\ \A p : Proposed(p) => Proposed(p)'
           /\ \A e : Judged(e) => Judged(e)'
           /\ \A e : Named(e) => Named(e)'
           /\ \A j : EvolutionJob(j) => EvolutionJob(j)'
<1>1. \A row : Descends(row) => Descends(row)'
  BY DEF Descends
<1>2. \A p : Proposed(p) => Proposed(p)'
  BY DEF Proposed
<1>3. \A e : Judged(e) => Judged(e)'
  BY DEF Judged, Verdict, Time
<1>4. \A e : Named(e) => Named(e)'
  BY DEF Named, Made, Passed, VerdictsOn
<1>5. ASSUME NEW j, EvolutionJob(j) PROVE EvolutionJob(j)'
  BY <1>1, <1>2, <1>3, <1>4, <1>5 DEF EvolutionJob, VerdictsOn
<1>6. QED
  BY <1>1, <1>2, <1>3, <1>4, <1>5

\* A step that adds rows which hold, and leaves its process with what is established.
LEMMA EvolutionStep ==
    ASSUME EvolutionInv, part = "evolution", part' = part, SessionsOK', now' = now,
           \A v \in DOMAIN lineage : v \in DOMAIN lineage' /\ lineage'[v] = lineage[v],
           verdicts \subseteq verdicts', championLog \subseteq championLog',
           EvolutionTypeOK',
           \A v \in DOMAIN lineage' : v \in DOMAIN lineage \/ Descends(lineage'[v]),
           \A p \in proposals' : p \in proposals \/ Proposed(p),
           \A e \in verdicts' : e \in verdicts \/ Judged(e),
           \A e \in championLog' : e \in championLog \/ Named(e),
           NEW o \in Operators, EvolutionJob(job[o])',
           \A q \in Operators : q # o => job'[q] = job[q]
    PROVE  EvolutionInv'
<1>1. /\ \A row : Descends(row) => Descends(row)'
      /\ \A p : Proposed(p) => Proposed(p)'
      /\ \A e : Judged(e) => Judged(e)'
      /\ \A e : Named(e) => Named(e)'
      /\ \A j : EvolutionJob(j) => EvolutionJob(j)'
  <2>1. now \in Time /\ now' \in Time /\ now <= now'
    BY DEF EvolutionInv, SessionsOK, Time
  <2>2. QED
    BY <2>1, EvolutionGrows
<1>2. ASSUME NEW v \in DOMAIN lineage' PROVE Descends(lineage[v])'
  BY <1>1 DEF EvolutionInv, EvolutionRows
<1>3. /\ \A p \in proposals' : Proposed(p)'
      /\ \A e \in verdicts' : Judged(e)'
      /\ \A e \in championLog' : Named(e)'
  BY <1>1 DEF EvolutionInv, EvolutionRows
<1>4. ASSUME NEW q \in Operators PROVE EvolutionJob(job[q])'
  <2>1. CASE q = o
    BY <2>1
  <2>2. CASE q # o
    BY <1>1, <2>2 DEF EvolutionInv
  <2>3. QED
    BY <2>1, <2>2
<1>5. QED
  BY <1>2, <1>3, <1>4 DEF EvolutionInv, EvolutionRows

\* A step that changes no table.
LEMMA EvolutionJobStep ==
    ASSUME EvolutionInv, part = "evolution", part' = part, UNCHANGED evolutionVars, SessionsOK', now' = now,
           NEW o \in Operators, EvolutionJob(job'[o]),
           \A q \in Operators : q # o => job'[q] = job[q]
    PROVE  EvolutionInv'
<1>1. EvolutionTypeOK'
  BY DEF EvolutionInv, EvolutionRows, EvolutionTypeOK, evolutionVars
<1>2. EvolutionJob(job[o])'
  BY DEF EvolutionJob, evolutionVars, Proposed, Descends, Judged, VerdictsOn, Named, Passed, Made
<1>3. QED
  BY <1>1, <1>2, EvolutionStep DEF evolutionVars

\* A command that has committed, or is gone, claims nothing.
LEMMA EvolutionEnds ==
    ASSUME SessionsOK, NEW o \in Operators, Finish(o)
    PROVE  /\ SessionsOK' /\ now' = now /\ EvolutionJob(job[o])' /\ EvolutionJob(job'[o])
           /\ \A q \in Operators : q # o => job'[q] = job[q]
BY OneFinishes DEF EvolutionJob, Idle

LEMMA EvolutionBegins ==
    ASSUME EvolutionInv, part = "evolution", part' = part, UNCHANGED evolutionVars,
           NEW o \in Operators, NEW j, Begin(o, j), EvolutionJob(j)
    PROVE  EvolutionInv'
BY OneBegins, EvolutionJobStep DEF EvolutionInv

LEMMA ProposeKeeps ==
    ASSUME EvolutionInv, part = "evolution", part' = part, NEW o \in Operators, Propose(o)
    PROVE  EvolutionInv'
<1>1. PICK v \in VersionId, kind \in {"tools", "other"}, requested \in SUBSET Tools :
          /\ Champion(v)
          /\ Begin(o, [pc |-> "proposing",
                       row |-> [parent |-> v, requested |-> requested, kind |-> kind]])
          /\ UNCHANGED evolutionVars
  BY DEF Propose
<1>2. v \in DOMAIN lineage
  BY <1>1 DEF Champion, Newest, EvolutionInv, EvolutionRows, Named
<1>3. EvolutionJob([pc |-> "proposing", row |-> [parent |-> v, requested |-> requested, kind |-> kind]])
  BY <1>2 DEF EvolutionJob, Proposed, Proposal
<1>4. QED
  BY <1>1, <1>3, EvolutionBegins

LEMMA BuildChallengerKeeps ==
    ASSUME EvolutionInv, part = "evolution", part' = part, NEW o \in Operators, BuildChallenger(o)
    PROVE  EvolutionInv'
<1>1. PICK p, row :
          /\ p \in proposals
          /\ row = [parent |-> p.parent,
                    tools |-> IF p.kind = "tools" THEN p.requested ELSE lineage[p.parent].tools]
          /\ MayInherit(p.parent, p)
          /\ Begin(o, [pc |-> "building", row |-> row])
          /\ UNCHANGED evolutionVars
  BY DEF BuildChallenger
<1>2. /\ p \in Proposal /\ p.parent \in DOMAIN lineage /\ Descends(lineage[p.parent])
  BY <1>1 DEF EvolutionInv, EvolutionRows, Proposed
<1>3. Descends(row)
  BY <1>1, <1>2, EvolutionAssumption DEF Descends, MayInherit, Proposal, ExpertVersion, VersionId
<1>4. EvolutionJob([pc |-> "building", row |-> row])
  BY <1>3 DEF EvolutionJob
<1>5. QED
  BY <1>1, <1>4, EvolutionBegins

LEMMA EvaluateKeeps ==
    ASSUME EvolutionInv, part = "evolution", part' = part, NEW o \in Operators, Evaluate(o)
    PROVE  EvolutionInv'
<1>1. PICK v, m, unsafe, worse, row :
          /\ v \in DOMAIN lineage /\ m \in Manifests /\ unsafe \in BOOLEAN /\ worse \in BOOLEAN
          /\ row = [champion |-> lineage[v].parent, challenger |-> v, manifest |-> m,
                    decision |-> DecisionOf(unsafe, worse), at |-> now]
          /\ lineage[v].parent # 0
          /\ Begin(o, [pc |-> "evaluating", row |-> row])
          /\ UNCHANGED evolutionVars
  BY DEF Evaluate
<1>2. /\ lineage[v] \in ExpertVersion /\ v \in VersionId /\ now \in Time
      /\ DecisionOf(unsafe, worse) \in {"quarantined", "eligible_for_promotion", "rejected"}
  BY <1>1, EvolutionAssumption DEF EvolutionInv, EvolutionRows, EvolutionTypeOK, VersionId, SessionsOK, DecisionOf
<1>3. Judged(row)
  BY <1>1, <1>2, EvolutionAssumption DEF Judged, Verdict, ExpertVersion, VersionId, Time
<1>4. EvolutionJob([pc |-> "evaluating", row |-> row])
  BY <1>3 DEF EvolutionJob
<1>5. QED
  BY <1>1, <1>4, EvolutionBegins

LEMMA BeginPromotionKeeps ==
    ASSUME EvolutionInv, part = "evolution", part' = part, NEW o \in Operators, BeginPromotion(o)
    PROVE  EvolutionInv'
<1>1. PICK v \in DOMAIN lineage : \E e \in Newest(VerdictsOn(v)) :
          /\ e.decision = "eligible_for_promotion"
          /\ Begin(o, [pc |-> "passing", version |-> v, verdict |-> e])
          /\ UNCHANGED evolutionVars
  BY DEF BeginPromotion
<1>2. PICK e \in VerdictsOn(v) :
          /\ e.decision = "eligible_for_promotion"
          /\ Begin(o, [pc |-> "passing", version |-> v, verdict |-> e])
          /\ UNCHANGED evolutionVars
  BY <1>1 DEF Newest
<1>3. EvolutionJob([pc |-> "passing", version |-> v, verdict |-> e])
  BY <1>2 DEF EvolutionJob
<1>4. QED
  BY <1>2, <1>3, EvolutionBegins

\* Whoever is champion was made so, by an event of the log.
LEMMA ChampionWasMade ==
    ASSUME EvolutionRows, NEW e \in championLog
    PROVE  Made(e.version)
BY DEF EvolutionRows, Named, Made, ChampionEvent

LEMMA ReadPreviousKeeps ==
    ASSUME EvolutionInv, part = "evolution", part' = part, NEW o \in Operators, ReadPrevious(o)
    PROVE  EvolutionInv'
<1>1. PICK v, row :
          /\ v \in VersionId
          /\ row = [version |-> job[o].version, previous |-> v, action |-> "promotion",
                    at |-> now, verdict |-> job[o].verdict]
          /\ job[o].pc = "passing" /\ Champion(v)
          /\ Learn(o, [pc |-> "naming", row |-> row])
          /\ UNCHANGED evolutionVars
  BY DEF ReadPrevious, At
<1>2. /\ job[o].version \in DOMAIN lineage /\ job[o].verdict \in VerdictsOn(job[o].version)
      /\ job[o].verdict.decision = "eligible_for_promotion"
      /\ \A e \in verdicts : e \in Verdict /\ e.at <= now
      /\ now \in Time /\ DOMAIN lineage \subseteq VersionId
  BY <1>1, EvolutionAssumption DEF EvolutionInv, EvolutionJob, Judged, SessionsOK, EvolutionRows, EvolutionTypeOK, VersionId
<1>3. Made(v)
  BY <1>1, ChampionWasMade DEF Champion, Newest, EvolutionInv
<1>4. row \in ChampionEvent
  BY <1>1, <1>2, EvolutionAssumption DEF ChampionEvent, VerdictsOn, VersionId
<1>5. Named(row)
  BY <1>1, <1>2, <1>3, <1>4 DEF Named, Passed, VerdictsOn
<1>6. EvolutionJob([pc |-> "naming", row |-> row])
  BY <1>5 DEF EvolutionJob
<1>7. QED
  BY <1>1, <1>6, OneLearns, EvolutionJobStep DEF EvolutionInv

LEMMA BeginRollbackKeeps ==
    ASSUME EvolutionInv, part = "evolution", part' = part, NEW o \in Operators, BeginRollback(o)
    PROVE  EvolutionInv'
<1>1. PICK e, row :
          /\ e \in championLog
          /\ row = [version |-> e.previous, previous |-> e.version,
                    action |-> "rollback", at |-> now, verdict |-> NoVerdict]
          /\ e.previous # 0
          /\ Begin(o, [pc |-> "naming", row |-> row])
          /\ UNCHANGED evolutionVars
  BY DEF BeginRollback, Newest
<1>2. /\ Made(e.previous) /\ Made(e.version)
      /\ e \in ChampionEvent /\ now \in Time
  BY <1>1, ChampionWasMade DEF EvolutionInv, EvolutionRows, Named, SessionsOK
<1>3. e.previous \in DOMAIN lineage
  BY <1>2 DEF Made, EvolutionInv, EvolutionRows, Named
<1>4. row \in ChampionEvent
  BY <1>1, <1>2, EvolutionAssumption DEF ChampionEvent, VersionId, NoVerdict
<1>5. Named(row)
  BY <1>1, <1>2, <1>3, <1>4 DEF Named
<1>6. EvolutionJob([pc |-> "naming", row |-> row])
  BY <1>5 DEF EvolutionJob
<1>7. QED
  BY <1>1, <1>6, EvolutionBegins

LEMMA CountHoldoutsKeeps ==
    ASSUME EvolutionInv, part = "evolution", part' = part, NEW o \in Operators, CountHoldouts(o)
    PROVE  EvolutionInv'
<1>1. PICK v, m, a, row :
          /\ v \in DOMAIN lineage /\ m \in Manifests /\ a \in Auditors
          /\ row = [version |-> v, manifest |-> m, at |-> now, actor |-> a]
          /\ Begin(o, [pc |-> "auditing", row |-> row])
          /\ UNCHANGED evolutionVars
  BY DEF CountHoldouts
<1>2. row \in HoldoutAccess
  BY <1>1, EvolutionAssumption DEF HoldoutAccess, EvolutionInv, EvolutionRows, EvolutionTypeOK, VersionId, SessionsOK
<1>3. EvolutionJob([pc |-> "auditing", row |-> row])
  BY <1>2 DEF EvolutionJob
<1>4. QED
  BY <1>1, <1>3, EvolutionBegins

LEMMA CommitChallengerKeeps ==
    ASSUME EvolutionInv, part = "evolution", part' = part, NEW o \in Operators, CommitChallenger(o)
    PROVE  EvolutionInv'
<1> DEFINE row == job[o].row
<1>1. /\ Descends(row) /\ Len(lineage) < MaxLineage
      /\ lineage' = Append(lineage, row)
      /\ Finish(o) /\ UNCHANGED <<proposals, verdicts, championLog, holdouts>>
  BY DEF CommitChallenger, At, EvolutionInv, EvolutionJob
<1>2. /\ lineage \in Seq(ExpertVersion) /\ row \in ExpertVersion /\ Len(lineage) \in Nat
      /\ Len(lineage) >= 1
  BY <1>1 DEF EvolutionInv, EvolutionRows, EvolutionTypeOK, VersionId, Descends
<1>3. /\ lineage' \in Seq(ExpertVersion) /\ Len(lineage') = Len(lineage) + 1
      /\ \A v \in DOMAIN lineage : v \in DOMAIN lineage' /\ lineage'[v] = lineage[v]
      /\ \A v \in DOMAIN lineage' : v \in DOMAIN lineage \/ lineage'[v] = row
  BY <1>1, <1>2
<1>4. EvolutionTypeOK'
  BY <1>1, <1>2, <1>3, EvolutionAssumption DEF EvolutionInv, EvolutionRows, EvolutionTypeOK, VersionId
<1>5. QED
  BY <1>1, <1>3, <1>4, EvolutionEnds, EvolutionStep DEF EvolutionInv

\* The other commits add the row their process has prepared, which holds.
LEMMA CommitRowKeeps ==
    ASSUME EvolutionInv, part = "evolution", part' = part, NEW o \in Operators,
           CommitProposal(o) \/ CommitVerdict(o) \/ CommitChampion(o) \/ CommitHoldout(o)
    PROVE  EvolutionInv'
<1> DEFINE row == job[o].row
<1>1. Finish(o) /\ lineage' = lineage
  BY DEF CommitProposal, CommitVerdict, CommitChampion, CommitHoldout
<1>2. \/ proposals' = proposals \cup {row} /\ Proposed(row) /\ UNCHANGED <<verdicts, championLog, holdouts>>
      \/ verdicts' = verdicts \cup {row} /\ Judged(row) /\ UNCHANGED <<proposals, championLog, holdouts>>
      \/ championLog' = championLog \cup {row} /\ Named(row) /\ UNCHANGED <<proposals, verdicts, holdouts>>
      \/ holdouts' = holdouts \cup {row} /\ row \in HoldoutAccess /\ UNCHANGED <<proposals, verdicts, championLog>>
  BY DEF CommitProposal, CommitVerdict, CommitChampion, CommitHoldout, At, EvolutionInv, EvolutionJob
<1>3. EvolutionTypeOK'
  BY <1>1, <1>2 DEF EvolutionInv, EvolutionRows, EvolutionTypeOK, Proposed, Judged, Named
<1> HIDE DEF row
<1>4. /\ verdicts \subseteq verdicts' /\ championLog \subseteq championLog'
      /\ \A p \in proposals' : p \in proposals \/ Proposed(p)
      /\ \A e \in verdicts' : e \in verdicts \/ Judged(e)
      /\ \A e \in championLog' : e \in championLog \/ Named(e)
  BY <1>2
<1>5. QED
  BY <1>1, <1>3, <1>4, EvolutionEnds, EvolutionStep DEF EvolutionInv

LEMMA EvolutionStarts == Init => EvolutionInv
<1> SUFFICES ASSUME Init PROVE EvolutionInv
  OBVIOUS
<1>1. SessionsOK /\ \A o \in Operators : job[o] = Idle
  <2>1. /\ SessionsInit(MaxCommands - CommandsOf[part])
        /\ MaxCommands - CommandsOf[part] \in Int
        /\ MaxCommands - CommandsOf[part] <= MaxCommands
    BY DeskAssumption, SessionsAssumption DEF Init
  <2>2. QED
    BY <2>1, SessionsStart
<1>2. EvolutionJob(Idle)
  BY DEF EvolutionJob, Idle
<1> DEFINE root == [parent |-> 0, tools |-> Tools]
           first == [version |-> 1, previous |-> 0, action |-> "initial_champion", at |-> 0, verdict |-> NoVerdict]
<1>3. /\ lineage = <<root>> /\ championLog = {first}
      /\ proposals = {} /\ verdicts = {} /\ holdouts = {}
  BY DEF Init, EvolutionInit
<1>4. /\ lineage \in Seq(ExpertVersion) /\ Len(lineage) = 1 /\ DOMAIN lineage = {1} /\ lineage[1] = root
      /\ root \in ExpertVersion
  BY <1>3, EvolutionAssumption DEF ExpertVersion
<1>5. first \in ChampionEvent
  BY EvolutionAssumption, SessionsAssumption DEF ChampionEvent, VersionId, Time, NoVerdict
<1>6. EvolutionTypeOK
  BY <1>3, <1>4, <1>5, EvolutionAssumption DEF EvolutionTypeOK, VersionId
<1>7. EvolutionRows
  BY <1>3, <1>4, <1>5, <1>6, EvolutionAssumption DEF EvolutionRows, Descends, Named
<1>8. QED
  BY <1>1, <1>2, <1>3, <1>7 DEF EvolutionInv

LEMMA EvolutionKept == EvolutionInv /\ [Next]_vars => EvolutionInv'
<1> SUFFICES ASSUME EvolutionInv, [Next]_vars PROVE EvolutionInv'
  OBVIOUS
<1>1. part' = part
  BY EvolutionPart
<1>2. ASSUME UNCHANGED evolutionVars PROVE EvolutionRows'
  BY <1>2 DEF EvolutionInv, EvolutionRows, EvolutionTypeOK, evolutionVars, Descends, Proposed, Named, Made, Passed,
              VerdictsOn
<1>3. CASE part # "evolution"
  BY <1>1, <1>2, <1>3, EvolutionPart DEF EvolutionInv
<1>4. CASE part = "evolution"
  <2>1. ASSUME NEW o \in Operators, EvolutionNext(o) PROVE EvolutionInv'
    BY <1>1, <1>4, <2>1, ProposeKeeps, BuildChallengerKeeps, EvaluateKeeps, BeginPromotionKeeps, BeginRollbackKeeps,
       CountHoldoutsKeeps, CommitChallengerKeeps, ReadPreviousKeeps, CommitRowKeeps DEF EvolutionNext
  <2>2. ASSUME NEW o \in Operators, Dies(o), UNCHANGED evolutionVars PROVE EvolutionInv'
    BY <1>1, <1>4, <2>2, EvolutionEnds, EvolutionJobStep DEF Dies, EvolutionInv
  <2>3. ASSUME Tick \/ UNCHANGED sessionVars, UNCHANGED evolutionVars PROVE EvolutionInv'
    <3>1. SessionsOK' /\ job' = job /\ now \in Time /\ now' \in Time /\ now <= now'
      BY <1>4, <2>3, ClockTicks, NothingHappens DEF EvolutionInv, SessionsOK, Time
    <3>2. /\ \A e : Judged(e) => Judged(e)'
          /\ \A j : EvolutionJob(j) => EvolutionJob(j)'
      BY <2>3, <3>1, EvolutionGrows DEF evolutionVars
    <3>3. QED
      BY <1>2, <1>4, <2>3, <3>1, <3>2 DEF EvolutionInv, evolutionVars
  <2>4. QED
    BY <1>4, <2>1, <2>2, <2>3, EvolutionPart
<1>5. QED
  BY <1>3, <1>4

\* What every command of evolve/ preserves: versions under increasing ids whose parents came
\* before them, and a session that carries only a row its checks let through.
THEOREM EvolutionInductive == Spec => []EvolutionInv
BY EvolutionStarts, EvolutionKept, PTL DEF Spec

\* Every row of evolve/ is of its type, the versions numbered in the order of their commits.
THEOREM EvolutionTypes == Spec => []EvolutionTypeOK
<1>1. EvolutionInv => EvolutionTypeOK
  BY DEF EvolutionInv, EvolutionRows
<1>2. QED
  BY <1>1, EvolutionInductive, PTL

\* No version calls a tool its parent could not, and none is left without one, along any
\* chain of proposals of champions long replaced (construct_challenger).
THEOREM CapabilitiesNeverGrow == Spec => []CapabilitiesOnlyShrink
<1>1. EvolutionInv => CapabilitiesOnlyShrink
  BY DEF EvolutionInv, EvolutionRows, Descends, CapabilitiesOnlyShrink
<1>2. QED
  BY <1>1, EvolutionInductive, PTL

\* Every promoted version passed an evaluation of its own by then, and a rollback names a
\* version that another event made champion (promote, rollback_event).
THEOREM ChampionsHavePassed == Spec => []ChampionsPassed
<1>1. EvolutionInv => ChampionsPassed
  BY DEF EvolutionInv, EvolutionRows, Named, Passed, Made, ChampionsPassed
<1>2. QED
  BY <1>1, EvolutionInductive, PTL

-----------------------------------------------------------------------------
(* The catalog of experts, and what is done on behalf of an expert.        *)

\* A definition of the catalog, or one that may come into it.
Sound(d) == d \in Definition /\ VersionNumber(d) \in 1..MaxRevisions

\* d is no older than any of the versions known.
NoOlder(known, d) == \A n \in known : n <= VersionNumber(d)

GrantHolds(a) == a.decision = "allowed" => ApprovedAfter(a.known, a.of)
RoutingHolds(r) == \A d \in r.selected : ApprovedAfter(r.known[d.expert], d)

AgentsRows ==
    /\ AgentsTypeOK
    /\ \A a \in toolAudits : GrantHolds(a)
    /\ \A r \in routings : RoutingHolds(r)

\* What a routing has read is no older than what was there when it began, which is there.
RoutingJob(j) ==
    /\ j = [pc |-> "agent_routing", left |-> j.left, found |-> j.found, known |-> j.known]
    /\ j.found \subseteq definitions
    /\ j.known \in [Specialists -> SUBSET (1..MaxRevisions)]
    /\ \A s \in Specialists : j.known[s] \subseteq NumbersOf(s)
    /\ \A d \in j.found : NoOlder(j.known[d.expert], d)

\* What a process of expert/ has established.
AgentsJob(j) ==
    /\ j.pc = "agent_seeding" => \A d \in j.missing : Sound(d)
    /\ j.pc \in {"agent_revising", "agent_committing"} => j = [pc |-> j.pc, item |-> j.item] /\ Sound(j.item)
    /\ j.pc = "agent_loaded" =>
          j.of \in definitions /\ j.known \subseteq 1..MaxRevisions /\ NoOlder(j.known, j.of)
    /\ j.pc = "agent_routing" => RoutingJob(j)

\* The jobs go with the part, the rows stay as they are in any other.
AgentsInv ==
    /\ part = "agents" => SessionsOK /\ \A o \in Operators : AgentsJob(job[o])
    /\ AgentsRows

LEMMA AgentsPart ==
    ASSUME [Next]_vars
    PROVE  /\ part' = part
           /\ part # "agents" => UNCHANGED agentVars
           /\ part = "agents" =>
                 \/ \E o \in Operators : AgentsNext(o)
                 \/ (\E o \in Operators : Dies(o)) /\ UNCHANGED agentVars
                 \/ Tick /\ UNCHANGED agentVars
                 \/ UNCHANGED <<sessionVars, agentVars>>
BY DEF Next, vars, Lab, Study, Evolution, Source, Replay, Research, Campaign, Agents, Arrival, Outside, deskVars

\* The catalog only grows, so what was established stays so.
LEMMA AgentsGrow ==
    ASSUME definitions \subseteq definitions'
    PROVE  /\ \A a : GrantHolds(a) => GrantHolds(a)'
           /\ \A r : RoutingHolds(r) => RoutingHolds(r)'
           /\ \A j : AgentsJob(j) => AgentsJob(j)'
<1>1. \A known, d : ApprovedAfter(known, d) => ApprovedAfter(known, d)'
  BY DEF ApprovedAfter
<1>2. \A s : NumbersOf(s) \subseteq NumbersOf(s)'
  BY DEF NumbersOf, DefinitionsOf
<1>3. ASSUME NEW j, RoutingJob(j) PROVE RoutingJob(j)'
  BY <1>2, <1>3 DEF RoutingJob, NoOlder
<1>4. ASSUME NEW j, AgentsJob(j) PROVE AgentsJob(j)'
  BY <1>3, <1>4 DEF AgentsJob, Sound, NoOlder
<1>5. QED
  BY <1>1, <1>4 DEF GrantHolds, RoutingHolds

\* A step that adds rows which hold, and leaves its process with what is established.
LEMMA AgentsStep ==
    ASSUME AgentsInv, part = "agents", part' = part, SessionsOK',
           definitions \subseteq definitions', AgentsTypeOK',
           \A a \in toolAudits' : a \in toolAudits \/ GrantHolds(a),
           \A r \in routings' : r \in routings \/ RoutingHolds(r),
           NEW o \in Operators, AgentsJob(job[o])',
           \A q \in Operators : q # o => job'[q] = job[q]
    PROVE  AgentsInv'
<1>1. /\ \A a : GrantHolds(a) => GrantHolds(a)'
      /\ \A r : RoutingHolds(r) => RoutingHolds(r)'
      /\ \A j : AgentsJob(j) => AgentsJob(j)'
  BY AgentsGrow
<1>2. (\A a \in toolAudits' : GrantHolds(a)') /\ (\A r \in routings' : RoutingHolds(r)')
  BY <1>1 DEF AgentsInv, AgentsRows
<1>3. ASSUME NEW q \in Operators PROVE AgentsJob(job[q])'
  <2>1. CASE q = o
    BY <2>1
  <2>2. CASE q # o
    BY <1>1, <2>2 DEF AgentsInv
  <2>3. QED
    BY <2>1, <2>2
<1>4. QED
  BY <1>2, <1>3 DEF AgentsInv, AgentsRows

LEMMA AgentsJobStep ==
    ASSUME AgentsInv, part = "agents", part' = part, UNCHANGED agentVars, SessionsOK',
           NEW o \in Operators, AgentsJob(job'[o]),
           \A q \in Operators : q # o => job'[q] = job[q]
    PROVE  AgentsInv'
<1>1. AgentsTypeOK'
  BY DEF AgentsInv, AgentsRows, AgentsTypeOK, agentVars
<1>2. AgentsJob(job[o])'
  BY AgentsGrow DEF agentVars, AgentsJob, RoutingJob, NumbersOf, DefinitionsOf, Sound, NoOlder
<1>3. QED
  BY <1>1, <1>2, AgentsStep DEF agentVars

LEMMA AgentsBegin ==
    ASSUME AgentsInv, part = "agents", part' = part, UNCHANGED agentVars,
           NEW o \in Operators, NEW j, Begin(o, j) \/ Learn(o, j), AgentsJob(j)
    PROVE  AgentsInv'
BY OneBegins, OneLearns, AgentsJobStep DEF AgentsInv

LEMMA AgentsEnd ==
    ASSUME SessionsOK, NEW o \in Operators, Finish(o)
    PROVE  /\ SessionsOK' /\ now' = now /\ AgentsJob(job[o])' /\ AgentsJob(job'[o])
           /\ \A q \in Operators : q # o => job'[q] = job[q]
BY OneFinishes DEF AgentsJob, Idle

\* A definition and the number of its version.
LEMMA DefinitionForm ==
    ASSUME NEW d \in Definition
    PROVE  /\ d = [expert |-> d.expert, path |-> d.path] /\ d.expert \in Specialists
           /\ d.path \in Seq(ExpertStatus) /\ Len(d.path) \in Nat
BY DEF Definition

\* Adding a status makes a definition of the next version.
LEMMA AppendedIsSound ==
    ASSUME NEW s \in Specialists, NEW path \in Seq(ExpertStatus), Len(path) < MaxRevisions,
           NEW status \in ExpertStatus
    PROVE  Sound([expert |-> s, path |-> Append(path, status)])
<1> DEFINE d == [expert |-> s, path |-> Append(path, status)]
<1>1. Append(path, status) \in Seq(ExpertStatus) /\ Len(Append(path, status)) = Len(path) + 1 /\ Len(path) \in Nat
  OBVIOUS
<1>2. d \in Definition /\ VersionNumber(d) = Len(path) + 1
  BY <1>1 DEF Definition, VersionNumber
<1>3. VersionNumber(d) \in 1..MaxRevisions
  BY <1>1, <1>2, AgentsAssumption
<1>4. QED
  BY <1>2, <1>3 DEF Sound

LEMMA RevisedIsSound ==
    ASSUME NEW d, Sound(d), VersionNumber(d) < MaxRevisions, NEW status \in ExpertStatus
    PROVE  Sound(Revised(d, status))
<1>1. d = [expert |-> d.expert, path |-> d.path] /\ d.expert \in Specialists /\ d.path \in Seq(ExpertStatus)
  BY DefinitionForm DEF Sound
<1>2. Revised(d, status) = [expert |-> d.expert, path |-> Append(d.path, status)]
  BY <1>1 DEF Revised
<1>3. QED
  BY <1>1, <1>2, AppendedIsSound DEF VersionNumber

LEMMA CatalogIsSound ==
    ASSUME AgentsInv, NEW d \in definitions
    PROVE  Sound(d) /\ d.expert \in Specialists
<1>1. Sound(d)
  BY DEF AgentsInv, AgentsRows, AgentsTypeOK, Sound
<1>2. QED
  BY <1>1, DefinitionForm DEF Sound

\* The numbers of the versions, and the latest of them.
LEMMA LatestIsNoOlder ==
    ASSUME AgentsInv, NEW s, NEW d \in LatestOf(s)
    PROVE  /\ d \in definitions /\ d.expert = s /\ NoOlder(NumbersOf(s), d)
           /\ NumbersOf(s) \subseteq 1..MaxRevisions
BY CatalogIsSound DEF LatestOf, DefinitionsOf, NumbersOf, NoOlder, Sound

LEMMA BeginSeedingKeeps ==
    ASSUME AgentsInv, part = "agents", part' = part, NEW o \in Operators, BeginSeeding(o)
    PROVE  AgentsInv'
<1> DEFINE j == [pc |-> "agent_seeding", missing |-> {SeedOf(s) : s \in Specialists} \ definitions]
<1>1. Begin(o, j) /\ UNCHANGED agentVars
  BY DEF BeginSeeding
<1>2. ASSUME NEW s \in Specialists PROVE Sound(SeedOf(s))
  <2>1. SeedOf(s).path \in Seq(ExpertStatus) /\ Len(SeedOf(s).path) = 1
    BY DEF SeedOf, ExpertStatus
  <2>2. SeedOf(s) \in Definition
    BY <2>1 DEF SeedOf, Definition
  <2>3. QED
    BY <2>1, <2>2, AgentsAssumption DEF Sound, VersionNumber
<1>3. AgentsJob(j)
  BY <1>2 DEF AgentsJob
<1>4. QED
  BY <1>1, <1>3, AgentsBegin

\* A step that adds definitions to the catalog and ends.
LEMMA CatalogGrows ==
    ASSUME AgentsInv, part = "agents", part' = part, NEW o \in Operators, Finish(o),
           UNCHANGED <<toolAudits, routings>>, definitions \subseteq definitions',
           \A d \in definitions' : d \in definitions \/ Sound(d)
    PROVE  AgentsInv'
<1>1. AgentsTypeOK'
  BY DEF AgentsInv, AgentsRows, AgentsTypeOK, Sound
<1>2. QED
  BY <1>1, AgentsEnd, AgentsStep DEF AgentsInv

LEMMA CommitSeedsKeeps ==
    ASSUME AgentsInv, part = "agents", part' = part, NEW o \in Operators, CommitSeeds(o)
    PROVE  AgentsInv'
<1>1. /\ \A d \in job[o].missing : Sound(d)
      /\ definitions' = definitions \/ definitions' = definitions \cup job[o].missing
      /\ Finish(o) /\ UNCHANGED <<toolAudits, routings>>
  BY DEF CommitSeeds, At, AgentsInv, AgentsJob
<1>2. QED
  BY <1>1, CatalogGrows

LEMMA BeginSuspensionKeeps ==
    ASSUME AgentsInv, part = "agents", part' = part, NEW o \in Operators, BeginSuspension(o)
    PROVE  AgentsInv'
<1>1. PICK s \in Specialists : \E d \in LatestOf(s) :
          /\ VersionNumber(d) < MaxRevisions
          /\ Begin(o, [pc |-> "agent_revising", item |-> Revised(d, "suspended")])
  BY DEF BeginSuspension
<1>2. PICK d \in LatestOf(s) :
          /\ VersionNumber(d) < MaxRevisions
          /\ Begin(o, [pc |-> "agent_revising", item |-> Revised(d, "suspended")])
  BY <1>1
<1>3. Sound(Revised(d, "suspended"))
  BY <1>2, LatestIsNoOlder, CatalogIsSound, RevisedIsSound DEF ExpertStatus
<1>4. AgentsJob([pc |-> "agent_revising", item |-> Revised(d, "suspended")]) /\ UNCHANGED agentVars
  BY <1>3 DEF AgentsJob, BeginSuspension
<1>5. QED
  BY <1>2, <1>4, AgentsBegin

\* Whatever a caller of the library brings, it is a definition.
LEMMA BeginAddingKeeps ==
    ASSUME AgentsInv, part = "agents", part' = part, NEW o \in Operators, BeginAdding(o)
    PROVE  AgentsInv'
<1>1. PICK item : Begin(o, [pc |-> "agent_revising", item |-> item]) /\ Sound(item)
  <2>1. PICK status \in ExpertStatus :
          \/ \E d \in definitions :
                /\ VersionNumber(d) < MaxRevisions
                /\ Begin(o, [pc |-> "agent_revising", item |-> Revised(d, status)])
          \/ \E s \in Specialists, past \in UNION {[1..n -> {"retired"}] : n \in 0..(MaxRevisions - 1)} :
                Begin(o, [pc |-> "agent_revising", item |-> [expert |-> s, path |-> Append(past, status)]])
    BY DEF BeginAdding
  <2>2. ASSUME NEW d \in definitions, VersionNumber(d) < MaxRevisions PROVE Sound(Revised(d, status))
    BY <2>2, CatalogIsSound, RevisedIsSound
  <2>3. ASSUME NEW s \in Specialists, NEW past \in UNION {[1..n -> {"retired"}] : n \in 0..(MaxRevisions - 1)}
        PROVE  Sound([expert |-> s, path |-> Append(past, status)])
    <3>1. PICK n \in 0..(MaxRevisions - 1) : past \in [1..n -> {"retired"}]
      OBVIOUS
    <3>2. past \in Seq(ExpertStatus) /\ Len(past) = n
      BY <3>1 DEF ExpertStatus
    <3>3. QED
      BY <3>1, <3>2, AppendedIsSound, AgentsAssumption
  <2>4. CASE \E d \in definitions :
                /\ VersionNumber(d) < MaxRevisions
                /\ Begin(o, [pc |-> "agent_revising", item |-> Revised(d, status)])
    BY <2>2, <2>4
  <2>5. CASE \E s \in Specialists, past \in UNION {[1..n -> {"retired"}] : n \in 0..(MaxRevisions - 1)} :
                Begin(o, [pc |-> "agent_revising", item |-> [expert |-> s, path |-> Append(past, status)]])
    BY <2>3, <2>5
  <2>6. QED
    BY <2>1, <2>4, <2>5
<1>2. AgentsJob([pc |-> "agent_revising", item |-> item]) /\ UNCHANGED agentVars
  BY <1>1 DEF AgentsJob, BeginAdding
<1>3. QED
  BY <1>1, <1>2, AgentsBegin

LEMMA CheckLineageKeeps ==
    ASSUME AgentsInv, part = "agents", part' = part, NEW o \in Operators, CheckLineage(o)
    PROVE  AgentsInv'
<1> DEFINE j == [job[o] EXCEPT !.pc = "agent_committing"]
<1>1. Learn(o, j) \/ Finish(o)
  BY DEF CheckLineage, Proceed
<1>2. job[o] = [pc |-> "agent_revising", item |-> job[o].item] /\ Sound(job[o].item) /\ UNCHANGED agentVars
  BY DEF CheckLineage, At, AgentsInv, AgentsJob
<1>3. j = [pc |-> "agent_committing", item |-> job[o].item]
  BY <1>2
<1>4. AgentsJob(j)
  BY <1>2, <1>3 DEF AgentsJob
<1> HIDE DEF j
<1>5. QED
  BY <1>1, <1>2, <1>4, AgentsBegin, AgentsEnd, AgentsJobStep DEF AgentsInv

LEMMA CommitDefinitionKeeps ==
    ASSUME AgentsInv, part = "agents", part' = part, NEW o \in Operators, CommitDefinition(o)
    PROVE  AgentsInv'
<1>1. /\ Sound(job[o].item) /\ definitions' = definitions \cup {job[o].item}
      /\ Finish(o) /\ UNCHANGED <<toolAudits, routings>>
  BY DEF CommitDefinition, At, AgentsInv, AgentsJob
<1>2. QED
  BY <1>1, CatalogGrows

LEMMA LoadExpertKeeps ==
    ASSUME AgentsInv, part = "agents", part' = part, NEW o \in Operators, LoadExpert(o)
    PROVE  AgentsInv'
<1>1. PICK s \in Specialists : \E d \in LatestOf(s) :
          Begin(o, [pc |-> "agent_loaded", of |-> d, known |-> NumbersOf(s)])
  BY DEF LoadExpert
<1>2. PICK d \in LatestOf(s) : Begin(o, [pc |-> "agent_loaded", of |-> d, known |-> NumbersOf(s)])
  BY <1>1
<1>3. AgentsJob([pc |-> "agent_loaded", of |-> d, known |-> NumbersOf(s)]) /\ UNCHANGED agentVars
  BY <1>2, LatestIsNoOlder DEF AgentsJob, LoadExpert
<1>4. QED
  BY <1>2, <1>3, AgentsBegin

\* A grant is made on the version that was loaded.
LEMMA AuditToolKeeps ==
    ASSUME AgentsInv, part = "agents", part' = part, NEW o \in Operators, AuditTool(o)
    PROVE  AgentsInv'
<1>1. PICK decision \in Decisions(job[o].of) :
          toolAudits' = toolAudits \cup {[of |-> job[o].of, decision |-> decision, known |-> job[o].known]}
  BY DEF AuditTool
<1> DEFINE a == [of |-> job[o].of, decision |-> decision, known |-> job[o].known]
<1>2. /\ job[o].of \in definitions /\ job[o].known \subseteq 1..MaxRevisions /\ NoOlder(job[o].known, job[o].of)
      /\ UNCHANGED <<sessionVars, definitions, routings>> /\ SessionsOK
  BY DEF AuditTool, At, AgentsInv, AgentsJob
<1>3. decision = "allowed" => StatusOf(job[o].of) = "approved"
  BY <1>1 DEF Decisions
<1>4. GrantHolds(a)
  BY <1>2, <1>3 DEF GrantHolds, ApprovedAfter, NoOlder
<1>5. a \in ToolAudit
  BY <1>1, <1>2 DEF ToolAudit, AgentsInv, AgentsRows, AgentsTypeOK, Decisions
<1>6. AgentsTypeOK'
  BY <1>1, <1>2, <1>5 DEF AgentsInv, AgentsRows, AgentsTypeOK
<1>7. AgentsJob(job[o])'
  BY <1>2, AgentsGrow DEF AgentsInv, sessionVars
<1>8. SessionsOK'
  BY <1>2 DEF SessionsOK, sessionVars, Time
<1> HIDE DEF a
<1>9. QED
  BY <1>1, <1>2, <1>4, <1>6, <1>7, <1>8, AgentsStep DEF sessionVars, a

LEMMA BeginRoutingKeeps ==
    ASSUME AgentsInv, part = "agents", part' = part, NEW o \in Operators, BeginRouting(o)
    PROVE  AgentsInv'
<1> DEFINE known == [s \in Specialists |-> NumbersOf(s)]
           j == [pc |-> "agent_routing", left |-> {d.expert : d \in definitions}, found |-> {}, known |-> known]
<1>1. Begin(o, j) /\ UNCHANGED agentVars
  BY DEF BeginRouting
<1>2. known \in [Specialists -> SUBSET (1..MaxRevisions)] /\ \A s \in Specialists : known[s] \subseteq NumbersOf(s)
  BY CatalogIsSound DEF NumbersOf, DefinitionsOf, Sound
<1> HIDE DEF known
<1>3. RoutingJob(j)
  BY <1>2 DEF RoutingJob
<1>4. AgentsJob(j)
  BY <1>3 DEF AgentsJob
<1>5. QED
  BY <1>1, <1>4, AgentsBegin

\* What is read next is no older than what was there when the routing began.
LEMMA ReadExpertKeeps ==
    ASSUME AgentsInv, part = "agents", part' = part, NEW o \in Operators, ReadExpert(o)
    PROVE  AgentsInv'
<1>1. RoutingJob(job[o]) /\ UNCHANGED agentVars
  BY DEF ReadExpert, At, AgentsInv, AgentsJob
<1>2. PICK s \in job[o].left : \E d \in LatestOf(s) :
          Learn(o, [job[o] EXCEPT !.left = @ \ {s}, !.found = @ \cup {d}])
  BY DEF ReadExpert
<1>3. PICK d \in LatestOf(s) : Learn(o, [job[o] EXCEPT !.left = @ \ {s}, !.found = @ \cup {d}])
  BY <1>2
<1>4. PICK left, found, known :
          /\ job[o] = [pc |-> "agent_routing", left |-> left, found |-> found, known |-> known]
          /\ found \subseteq definitions /\ known \in [Specialists -> SUBSET (1..MaxRevisions)]
          /\ \A x \in Specialists : known[x] \subseteq NumbersOf(x)
          /\ \A x \in found : NoOlder(known[x.expert], x)
  BY <1>1 DEF RoutingJob
<1> DEFINE j == [pc |-> "agent_routing", left |-> left \ {s}, found |-> found \cup {d}, known |-> known]
<1>5. [job[o] EXCEPT !.left = @ \ {s}, !.found = @ \cup {d}] = j
  <2>1. PICK k : k = job[o]
    OBVIOUS
  <2>2. k = [pc |-> "agent_routing", left |-> left, found |-> found, known |-> known]
    BY <1>4, <2>1
  <2>3. PICK i : i = [k EXCEPT !.left = @ \ {s}, !.found = @ \cup {d}]
    OBVIOUS
  <2>4. i = [pc |-> "agent_routing", left |-> left \ {s}, found |-> found \cup {d}, known |-> known]
    BY <2>2, <2>3
  <2>5. QED
    BY <2>1, <2>3, <2>4
<1>6. d \in definitions /\ d.expert = s /\ NoOlder(NumbersOf(s), d) /\ s \in Specialists
  BY <1>3, LatestIsNoOlder, CatalogIsSound
<1>7. NoOlder(known[d.expert], d)
  BY <1>4, <1>6 DEF NoOlder
<1>8. RoutingJob(j)
  BY <1>4, <1>6, <1>7 DEF RoutingJob
<1>9. AgentsJob(j)
  BY <1>8 DEF AgentsJob
<1> HIDE DEF j
<1>10. QED
  BY <1>1, <1>3, <1>5, <1>9, AgentsBegin

LEMMA CommitRoutingKeeps ==
    ASSUME AgentsInv, part = "agents", part' = part, NEW o \in Operators, CommitRouting(o)
    PROVE  AgentsInv'
<1>1. PICK matched \in SUBSET Specialists :
          routings' = routings \cup
              {[selected |-> {d \in job[o].found : StatusOf(d) = "approved" /\ d.expert \in matched},
                known |-> job[o].known]}
  BY DEF CommitRouting
<1> DEFINE r == [selected |-> {d \in job[o].found : StatusOf(d) = "approved" /\ d.expert \in matched},
                 known |-> job[o].known]
<1>2. RoutingJob(job[o]) /\ Finish(o) /\ UNCHANGED <<definitions, toolAudits>>
  BY DEF CommitRouting, At, AgentsInv, AgentsJob
<1>3. RoutingHolds(r)
  BY <1>2 DEF RoutingHolds, ApprovedAfter, RoutingJob, NoOlder
<1>4. r \in Routing
  BY <1>2 DEF Routing, RoutingJob, AgentsInv, AgentsRows, AgentsTypeOK
<1>5. AgentsTypeOK'
  BY <1>1, <1>2, <1>4 DEF AgentsInv, AgentsRows, AgentsTypeOK
<1> HIDE DEF r
<1>6. QED
  BY <1>1, <1>2, <1>3, <1>5, AgentsEnd, AgentsStep DEF AgentsInv, r

LEMMA AgentsStart == Init => AgentsInv
<1> SUFFICES ASSUME Init PROVE AgentsInv
  OBVIOUS
<1>1. SessionsOK /\ \A o \in Operators : job[o] = Idle
  <2>1. /\ SessionsInit(MaxCommands - CommandsOf[part])
        /\ MaxCommands - CommandsOf[part] \in Int
        /\ MaxCommands - CommandsOf[part] <= MaxCommands
    BY DeskAssumption, SessionsAssumption DEF Init
  <2>2. QED
    BY <2>1, SessionsStart
<1>2. AgentsJob(Idle)
  BY DEF AgentsJob, Idle
<1>3. definitions = {} /\ toolAudits = {} /\ routings = {}
  BY DEF Init, AgentsInit
<1>4. QED
  BY <1>1, <1>2, <1>3 DEF AgentsInv, AgentsRows, AgentsTypeOK

LEMMA AgentsKept == AgentsInv /\ [Next]_vars => AgentsInv'
<1> SUFFICES ASSUME AgentsInv, [Next]_vars PROVE AgentsInv'
  OBVIOUS
<1>1. part' = part
  BY AgentsPart
<1>2. ASSUME UNCHANGED agentVars PROVE AgentsRows'
  BY <1>2 DEF AgentsInv, AgentsRows, AgentsTypeOK, agentVars, GrantHolds, RoutingHolds, ApprovedAfter
<1>3. CASE part # "agents"
  BY <1>1, <1>2, <1>3, AgentsPart DEF AgentsInv
<1>4. CASE part = "agents"
  <2>1. ASSUME NEW o \in Operators, AgentsNext(o) PROVE AgentsInv'
    <3>1. CASE CloseSession(o)
      BY <1>1, <1>4, <3>1, AgentsEnd, AgentsJobStep DEF CloseSession, AgentsInv
    <3>2. QED
      BY <1>1, <1>4, <2>1, <3>1, BeginSeedingKeeps, CommitSeedsKeeps, BeginSuspensionKeeps, BeginAddingKeeps,
         CheckLineageKeeps, CommitDefinitionKeeps, LoadExpertKeeps, AuditToolKeeps, BeginRoutingKeeps,
         ReadExpertKeeps, CommitRoutingKeeps DEF AgentsNext
  <2>2. ASSUME NEW o \in Operators, Dies(o), UNCHANGED agentVars PROVE AgentsInv'
    BY <1>1, <1>4, <2>2, AgentsEnd, AgentsJobStep DEF Dies, AgentsInv
  <2>3. ASSUME Tick \/ UNCHANGED sessionVars, UNCHANGED agentVars PROVE AgentsInv'
    <3>1. SessionsOK' /\ job' = job
      BY <1>4, <2>3, ClockTicks, NothingHappens DEF AgentsInv
    <3>2. \A j : AgentsJob(j) => AgentsJob(j)'
      BY <2>3, AgentsGrow DEF agentVars
    <3>3. QED
      BY <1>1, <1>2, <1>4, <2>3, <3>1, <3>2 DEF AgentsInv
  <2>4. QED
    BY <1>4, <2>1, <2>2, <2>3, AgentsPart
<1>5. QED
  BY <1>3, <1>4

\* What every command of expert/ preserves: what was found of an expert is in the catalog
\* and no older than what the command could know, and so are the rows made of it.
THEOREM AgentsInductive == Spec => []AgentsInv
BY AgentsStart, AgentsKept, PTL DEF Spec

\* The tables of expert/ hold rows of their types.
THEOREM AgentsTypes == Spec => []AgentsTypeOK
<1>1. AgentsInv => AgentsTypeOK
  BY DEF AgentsInv, AgentsRows
<1>2. QED
  BY <1>1, AgentsInductive, PTL

\* However additions race and fork, tools are granted and subjects routed on approved
\* versions of the catalog, none older than a version, say a suspension, that was there
\* when the expert was loaded or the routing began (authorize, list_latest, route).
THEOREM SuspensionIsAlwaysHeeded == Spec => []SuspensionIsHeeded
<1>1. AgentsInv => SuspensionIsHeeded
  BY DEF AgentsInv, AgentsRows, GrantHolds, RoutingHolds, SuspensionIsHeeded
<1>2. QED
  BY <1>1, AgentsInductive, PTL

-----------------------------------------------------------------------------

\* The tables of every part hold rows of their types, and a backtest accounts for each
\* of its signals once, whatever part is explored and whatever its commands do.
THEOREM DeskTypes == Spec => []TypeOK
BY LaboratoryTypes, BacktestTypes, EvolutionTypes, MacroTypes, ObservatoryTypes, MarketTypes,
   ReplayTypes, ResearchTypes, CampaignTypes, AgentsTypes, PTL DEF TypeOK

=============================================================================
