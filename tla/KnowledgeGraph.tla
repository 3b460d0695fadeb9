--------------------------- MODULE KnowledgeGraph ---------------------------
(***************************************************************************)
(* knowledge/: versions of relationships between entities, as seeds and    *)
(* curators append them, and the trace of an event through those visible   *)
(* at a cutoff.  An entity has one version; aliases and exposures, which a *)
(* trace does not follow, confidences and provenance are left out.         *)
(***************************************************************************)
EXTENDS CommandSessions, FiniteSets, Sequences

CONSTANTS
    Entities,
    MaxVersions,    \* bound on the versions of one relationship
    MaxRelations,   \* bound on the rows of the table
    LastDate,       \* the last date a validity names
    MaxDepth        \* the depth of a trace

ASSUME GraphAssumption ==
    MaxVersions \in Nat /\ MaxRelations \in Nat /\ MaxDepth \in Nat /\ LastDate \in Nat

VARIABLES
    entities,       \* knowledge_entities: when each was observed
    relations       \* knowledge_relationships

graphVars == <<entities, relations>>

Never == LastDate + 1
Pair == {p \in Entities \X Entities : p[1] # p[2]}
\* Valid from one time up to another, or from then on.
Interval == {i \in (0..LastDate) \X (1..Never) : i[1] < i[2]}
Relation == [pair: Pair, valid: Interval, at: Time, active: BOOLEAN, version: 1..MaxVersions]

GraphInit == entities = << >> /\ relations = {}

VersionsOf(pair) == {r.version : r \in {q \in relations : q.pair = pair}}

\* _require_next_version: one more than the last one there is.
NextVersion(pair) == Cardinality(VersionsOf(pair)) + 1

\* The fixed time a seed gives its records.
SeedTime == 0

\* entity seed, company seed: entities that are not there yet, in one transaction.
BeginSeed(o) ==
    /\ Entities \ DOMAIN entities # {}
    /\ Begin(o, [pc |-> "seed_insert", rows |-> [e \in Entities \ DOMAIN entities |-> SeedTime]])
    /\ UNCHANGED graphVars

\* add_entity: the first version of an entity is unique.
CommitSeed(o) ==
    /\ At(o, "seed_insert")
    /\ entities' = IF DOMAIN job[o].rows \cap DOMAIN entities # {} THEN entities
                   ELSE [e \in DOMAIN entities \cup DOMAIN job[o].rows |->
                            IF e \in DOMAIN entities THEN entities[e] ELSE job[o].rows[e]]
    /\ Finish(o)
    /\ UNCHANGED relations

\* add_relationship: the caller names its time, at which both ends are there, and
\* the next version.
BeginRelation(o) ==
    \E pair \in Pair, valid \in Interval, at \in 0..now, active \in BOOLEAN :
        /\ \A e \in {pair[1], pair[2]} : e \in DOMAIN entities /\ entities[e] <= at
        /\ NextVersion(pair) <= MaxVersions /\ Cardinality(relations) < MaxRelations
        /\ Begin(o, [pc |-> "relation_insert",
                     row |-> [pair |-> pair, valid |-> valid, at |-> at,
                              active |-> active, version |-> NextVersion(pair)]])
        /\ UNCHANGED graphVars

\* Pair and version are unique; who comes second is refused.
CommitRelation(o) ==
    /\ At(o, "relation_insert")
    /\ relations' = IF job[o].row.version \in VersionsOf(job[o].row.pair) THEN relations
                    ELSE relations \cup {job[o].row}
    /\ Finish(o)
    /\ UNCHANGED entities

Visible(cutoff) ==
    {r \in relations : r.at <= cutoff /\ r.valid[1] <= cutoff /\ cutoff < r.valid[2]}

\* Variant: the active one of the last version that is active.
CurrentActiveFirst(cutoff) ==
    {r \in Visible(cutoff) : r.active /\
        \A q \in Visible(cutoff) : q.pair = r.pair /\ q.active => q.version <= r.version}

\* get_relationships: of each relationship the last version that is visible and
\* valid, if it is active.
Current(cutoff) ==
    {r \in Visible(cutoff) : r.active /\
        \A q \in Visible(cutoff) : q.pair = r.pair => q.version <= r.version}

\* A path: where it is, the entities it came by and the relationships it took.
Step(path, r) ==
    LET to == IF r.pair[1] = path.node THEN r.pair[2] ELSE r.pair[1]
    IN  [node |-> to, nodes |-> path.nodes \cup {to}, took |-> Append(path.took, r)]

\* One round of trace_event: each relationship of an end of the frontier leads to
\* its other end, unless the path has been there.
Steps(frontier, cutoff) ==
    UNION {{Step(path, r) : r \in {q \in Current(cutoff) :
               /\ path.node \in {q.pair[1], q.pair[2]}
               /\ {q.pair[1], q.pair[2]} \cap path.nodes = {path.node}}} : path \in frontier}

\* trace_event: the paths from the entities of the event that are there.
Trace(starts, cutoff) ==
    LET there == {s \in starts \cap DOMAIN entities : entities[s] <= cutoff}
        round[depth \in 0..MaxDepth] ==
            IF depth = 0
            THEN [frontier |-> {[node |-> e, nodes |-> {e}, took |-> << >>] : e \in there},
                  paths |-> {}]
            ELSE LET next == Steps(round[depth - 1].frontier, cutoff)
                 IN  [frontier |-> next, paths |-> round[depth - 1].paths \cup next]
    IN  round[MaxDepth].paths

GraphNext(o) ==
    \/ Free(o) /\ (BeginSeed(o) \/ BeginRelation(o))
    \/ CommitSeed(o) \/ CommitRelation(o)

GraphTypeOK ==
    /\ DOMAIN entities \subseteq Entities
    /\ \A e \in DOMAIN entities : entities[e] \in Time
    /\ relations \subseteq Relation

\* Reference: two entities with an active relationship that no later version hides.
Adjacent(cutoff) ==
    {p \in Entities \X Entities : \E r \in relations :
        /\ {r.pair[1], r.pair[2]} = {p[1], p[2]}
        /\ r.active /\ r.at <= cutoff /\ cutoff \in r.valid[1]..(r.valid[2] - 1)
        /\ ~\E q \in relations :
              /\ q.pair = r.pair /\ q.version > r.version
              /\ q.at <= cutoff /\ cutoff \in q.valid[1]..(q.valid[2] - 1)}

\* Reference: what is reached within the depth.
Reach(starts, cutoff) ==
    LET wider[n \in 0..MaxDepth] ==
            IF n = 0 THEN {s \in starts \cap DOMAIN entities : entities[s] <= cutoff}
            ELSE wider[n - 1] \cup {e \in Entities : \E s \in wider[n - 1] : <<s, e>> \in Adjacent(cutoff)}
    IN  wider[MaxDepth]

\* docs/knowledge-graph.md: a corrected relationship is only hidden by a later
\* version that is itself visible, and a trace leads over relationships that count
\* at the cutoff, to exactly the entities that some entity of the event reaches
\* within the depth, for every set of entities and every cutoff (get_relationships,
\* trace_event).
TracesReachTheirNeighbourhood ==
    \A starts \in SUBSET DOMAIN entities, cutoff \in 0..LastDate :
        LET paths == Trace(starts, cutoff)
            from == {s \in starts \cap DOMAIN entities : entities[s] <= cutoff}
        IN  /\ from \cup {p.node : p \in paths} = Reach(starts, cutoff)
            /\ \A p \in paths : Cardinality(p.nodes) = Len(p.took) + 1

=============================================================================
