------------------------------- MODULE SocialLab -------------------------------
(***************************************************************************)
(* social/: public sources, versions of their posts, and what callers of   *)
(* the repository note of them: rumors, narratives, propagation, clusters  *)
(* and reputations, one row to a session.  Texts, metrics, entities and    *)
(* confidences are left out.                                               *)
(***************************************************************************)
EXTENDS CommandSessions, FiniteSets, Revisions

CONSTANTS
    Natives,        \* the identities of sources on their platform
    NativePosts,    \* the identities of posts on their platform
    MaxSocialNotes  \* bound on the rows that only describe posts

ASSUME SocialAssumption == MaxSocialNotes \in Nat

VARIABLES
    socialSources,  \* social_sources
    socialPosts,    \* social_posts
    rumorClaims,     \* rumor_claims
    narratives,     \* narrative_candidates
    propagations,   \* social_propagation_edges
    clusters,       \* coordination_candidates
    standings       \* social_reputation_snapshots

socialVars == <<socialSources, socialPosts, rumorClaims, narratives, propagations, clusters, standings>>

SocialId == 1..MaxCommands
SocialSource == [id : SocialId, native : Natives]
SocialPost == [id : SocialId, source : SocialId, native : NativePosts, at : Time,
               revises : {0} \cup SocialId]
RumorClaim == [id : SocialId, at : Time, version : SocialId, revises : {0} \cup SocialId]
Narrative == [posts : SUBSET SocialId, at : Time, reviewed : BOOLEAN]
Propagation == [from : SocialId, to : SocialId, at : Time]
Cluster == [posts : SUBSET SocialId, at : Time]
Standing == [source : SocialId, upto : Time, at : Time]

SocialInit ==
    /\ socialSources = {} /\ socialPosts = {} /\ rumorClaims = {} /\ narratives = {}
    /\ propagations = {} /\ clusters = {} /\ standings = {}

AddsSocial(o, table, row) ==
    /\ Begin(o, [pc |-> "social_insert", table |-> table, row |-> row])
    /\ UNCHANGED socialVars

SocialNoteAllowed ==
    Cardinality(narratives) + Cardinality(propagations) + Cardinality(clusters)
        + Cardinality(standings) < MaxSocialNotes

\* add_source: a source of an identity that is there under other words is refused.
AddSource(o) ==
    \E native \in Natives :
        /\ \A s \in socialSources : s.native # native
        /\ AddsSocial(o, "sources", [id |-> started + 1, native |-> native])

\* Variant: an edit need not be later than what it edits.
EditUndated(row) ==
    row.revises # 0 =>
        \E prior \in socialPosts : prior.id = row.revises /\ prior.native = row.native

\* An edit or a deletion is a later version of the same native post; the sources of
\* the two are not compared.
Edit(row) ==
    row.revises # 0 =>
        \E prior \in socialPosts : /\ prior.id = row.revises /\ prior.native = row.native
                                   /\ prior.at < row.at

\* add_post
AddPost(o) ==
    \E s \in socialSources, native \in NativePosts, at \in 0..now,
       prior \in {0} \cup {p.id : p \in socialPosts} :
        LET row == [id |-> started + 1, source |-> s.id, native |-> native, at |-> at, revises |-> prior]
        IN  Edit(row) /\ AddsSocial(o, "posts", row)

\* add_rumor: its posts are named and not looked for.
AddRumor(o) ==
    \E at \in 0..now, prior \in {0} \cup {r.id : r \in rumorClaims}, version \in SocialId :
        LET row == [id |-> started + 1, at |-> at, version |-> version, revises |-> prior]
        IN  Follows(row, rumorClaims) /\ AddsSocial(o, "rumors", row)

\* add_narrative
AddNarrative(o) ==
    /\ SocialNoteAllowed
    /\ \E p \in socialPosts, reviewed \in BOOLEAN, at \in 0..now :
          AddsSocial(o, "narratives", [posts |-> {p.id}, at |-> at, reviewed |-> reviewed])

\* add_edge: between two posts that are there, at any time.
AddEdge(o) ==
    /\ SocialNoteAllowed
    /\ \E from, to \in socialPosts, at \in 0..now :
          from # to /\ AddsSocial(o, "edges", [from |-> from.id, to |-> to.id, at |-> at])

\* add_coordination
AddCluster(o) ==
    /\ SocialNoteAllowed
    /\ \E posts \in SUBSET {p.id : p \in socialPosts}, at \in 0..now :
          Cardinality(posts) >= 2 /\ AddsSocial(o, "clusters", [posts |-> posts, at |-> at])

\* add_reputation: of a window that ended when it was computed.
AddStanding(o) ==
    /\ SocialNoteAllowed
    /\ \E s \in socialSources, upto \in 0..now :
          AddsSocial(o, "standings", [source |-> s.id, upto |-> upto, at |-> now])

Stores(o, table, rows) == IF job[o].table = table THEN rows \cup {job[o].row} ELSE rows

\* uq_social_source_identity
SourceTaken(o) ==
    job[o].table = "sources" /\ \E s \in socialSources : s.native = job[o].row.native

CommitSocial(o) ==
    /\ At(o, "social_insert") /\ ~SourceTaken(o)
    /\ socialSources' = Stores(o, "sources", socialSources)
    /\ socialPosts' = Stores(o, "posts", socialPosts)
    /\ rumorClaims' = Stores(o, "rumors", rumorClaims)
    /\ narratives' = Stores(o, "narratives", narratives)
    /\ propagations' = Stores(o, "edges", propagations)
    /\ clusters' = Stores(o, "clusters", clusters)
    /\ standings' = Stores(o, "standings", standings)
    /\ Finish(o)

SocialRefused(o) ==
    /\ At(o, "social_insert") /\ SourceTaken(o)
    /\ Finish(o)
    /\ UNCHANGED socialVars

SocialNext(o) ==
    \/ Free(o) /\ (AddSource(o) \/ AddPost(o) \/ AddRumor(o) \/ AddNarrative(o)
                      \/ AddEdge(o) \/ AddCluster(o) \/ AddStanding(o))
    \/ CommitSocial(o) \/ SocialRefused(o)

\* What social posts and social rumor print of a cutoff.
PostsVisibleAt(cutoff) == CurrentAt(socialPosts, cutoff)
RumorsVisibleAt(cutoff) == CurrentAt(rumorClaims, cutoff)

SocialTypeOK ==
    /\ socialSources \subseteq SocialSource /\ socialPosts \subseteq SocialPost
    /\ rumorClaims \subseteq RumorClaim /\ narratives \subseteq Narrative
    /\ propagations \subseteq Propagation /\ clusters \subseteq Cluster
    /\ standings \subseteq Standing

\* docs/social-lab.md: edits and deletions append versions, and replay uses local
\* observation time.  Whoever appends what, late or out of order, a reader of any
\* cutoff is shown no post and no rumor beside a version that revises it; all the
\* versions of a post bear its native identity, each observed after the one it
\* revises, though they need not be of one source; and an identity has one source
\* (posts_visible_at, rumors_visible_at, add_post).
SocialHistoryStandsAlone ==
    /\ \A cutoff \in Time :
          /\ StandAlone(PostsVisibleAt(cutoff), socialPosts)
          /\ StandAlone(RumorsVisibleAt(cutoff), rumorClaims)
    /\ \A p \in socialPosts : \A q \in Line(p, socialPosts) : q.native = p.native /\ q.at <= p.at
    /\ \A s, t \in socialSources : s.native = t.native => s = t

=============================================================================
