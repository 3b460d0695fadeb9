----------------------------- MODULE ExpertAgents -----------------------------
(***************************************************************************)
(* The catalog of experts of expert/: definitions that are only revised,   *)
(* the tools an expert is granted call by call, and the routing of         *)
(* subjects to it.  The command line seeds, suspends and routes; a host of *)
(* experts runs them and adds definitions through the library, each in a   *)
(* session of its own.  add_definition looks at nothing but the lineage.   *)
(***************************************************************************)
EXTENDS CommandSessions, Sequences, FiniteSets

CONSTANTS
    Specialists,    \* the experts but the generalist, which is the fallback
    MaxRevisions    \* bound on the versions of a definition

ASSUME AgentsAssumption == MaxRevisions \in Nat \ {0}

VARIABLES
    definitions,    \* expert_definitions
    toolAudits,     \* expert_tool_audits
    routings        \* expert_routing_decisions

agentVars == <<definitions, toolAudits, routings>>

\* A draft is like a retired expert: neither approved nor to be suspended.
ExpertStatus == {"evaluation", "approved", "suspended", "retired"}
\* A definition is named by its content, which names what it revises: here the statuses it
\* says it went through.  Its version is their number.
Definition == [expert : Specialists, path : Seq(ExpertStatus)]
VersionNumber(d) == Len(d.path)
StatusOf(d) == d.path[VersionNumber(d)]

\* known: the versions of the expert that the catalog held when the expert was loaded.
ToolAudit == [of : Definition, decision : {"allowed", "denied"}, known : SUBSET (1..MaxRevisions)]
\* The experts selected, by the definitions found of them; known: the versions that the
\* catalog held when the command began.
Routing == [selected : SUBSET Definition, known : [Specialists -> SUBSET (1..MaxRevisions)]]

AgentsInit == definitions = {} /\ toolAudits = {} /\ routings = {}

DefinitionsOf(s) == {d \in definitions : d.expert = s}
NumbersOf(s) == {VersionNumber(d) : d \in DefinitionsOf(s)}

\* Variant: the rows come in no order.
LatestUnordered(s) == DefinitionsOf(s)

\* latest: the highest version; of two rows of that version either one.
LatestOf(s) == {d \in DefinitionsOf(s) : \A e \in DefinitionsOf(s) : VersionNumber(e) <= VersionNumber(d)}

SeedOf(s) == [expert |-> s, path |-> <<"evaluation">>]

\* expert seed adds what is missing, unless an expert has definitions but not its seed.
BeginSeeding(o) ==
    /\ Free(o)
    /\ \A s \in Specialists : DefinitionsOf(s) = {} \/ SeedOf(s) \in definitions
    /\ Begin(o, [pc |-> "agent_seeding", missing |-> {SeedOf(s) : s \in Specialists} \ definitions])
    /\ UNCHANGED agentVars

\* Where two commands add a seed, the second to commit fails.
CommitSeeds(o) ==
    /\ At(o, "agent_seeding")
    /\ definitions' = IF job[o].missing \cap definitions = {} THEN definitions \cup job[o].missing ELSE definitions
    /\ Finish(o)
    /\ UNCHANGED <<toolAudits, routings>>

Revised(d, status) == [d EXCEPT !.path = Append(@, status)]

\* expert suspend: transition of the latest version, which adds one.
BeginSuspension(o) ==
    /\ Free(o)
    /\ \E s \in Specialists : \E d \in LatestOf(s) :
          /\ StatusOf(d) \in {"evaluation", "approved"}
          /\ VersionNumber(d) < MaxRevisions
          /\ Begin(o, [pc |-> "agent_revising", item |-> Revised(d, "suspended")])
    /\ UNCHANGED agentVars

\* A caller of the library brings a definition of any status, whether transition would
\* have made it or not: a revision of a version it once read, or one that says what it
\* likes of its past.
BeginAdding(o) ==
    /\ Free(o)
    /\ \E status \in ExpertStatus :
          \/ \E d \in definitions :
                /\ VersionNumber(d) < MaxRevisions
                /\ Begin(o, [pc |-> "agent_revising", item |-> Revised(d, status)])
          \/ \E s \in Specialists, past \in UNION {[1..n -> {"retired"}] : n \in 0..(MaxRevisions - 1)} :
                Begin(o, [pc |-> "agent_revising", item |-> [expert |-> s, path |-> Append(past, status)]])
    /\ UNCHANGED agentVars

Revises(item, d) == VersionNumber(item) = VersionNumber(d) + 1 /\ SubSeq(item.path, 1, VersionNumber(d)) = d.path

\* add_definition reads the latest version, which the new one must revise if there is one.
CheckLineage(o) ==
    /\ At(o, "agent_revising")
    /\ LET item == job[o].item
           latest == LatestOf(item.expert)
       IN  IF item \notin definitions /\ (latest = {} \/ \E d \in latest : Revises(item, d))
           THEN Proceed(o, "agent_committing") ELSE Finish(o)
    /\ UNCHANGED agentVars

\* No constraint keeps two revisions of one version out: only equal rows collide.
CommitDefinition(o) ==
    /\ At(o, "agent_committing")
    /\ definitions' = definitions \cup {job[o].item}
    /\ Finish(o)
    /\ UNCHANGED <<toolAudits, routings>>

\* The host loads an expert for a task.
LoadExpert(o) ==
    /\ Free(o)
    /\ \E s \in Specialists : \E d \in LatestOf(s) :
          Begin(o, [pc |-> "agent_loaded", of |-> d, known |-> NumbersOf(s)])
    /\ UNCHANGED agentVars

\* authorize: what is approved is denied all the same for a cutoff still to come, or a tool,
\* an entity or a source that is not its own.
Decisions(d) == IF StatusOf(d) = "approved" THEN {"allowed", "denied"} ELSE {"denied"}

\* authorize and add_tool_audit, call by call: grants and denials are kept, and the expert
\* is not read again.
AuditTool(o) ==
    /\ At(o, "agent_loaded")
    /\ \E decision \in Decisions(job[o].of) :
          toolAudits' = toolAudits \cup {[of |-> job[o].of, decision |-> decision, known |-> job[o].known]}
    /\ UNCHANGED <<sessionVars, definitions, routings>>

\* The task is over, or what a handler answered is refused.
CloseSession(o) == At(o, "agent_loaded") /\ Finish(o) /\ UNCHANGED agentVars

\* expert route, expert panel: list_latest reads one expert after another.
BeginRouting(o) ==
    /\ Free(o)
    /\ Begin(o, [pc |-> "agent_routing", left |-> {d.expert : d \in definitions}, found |-> {},
                 known |-> [s \in Specialists |-> NumbersOf(s)]])
    /\ UNCHANGED agentVars

ReadExpert(o) ==
    /\ At(o, "agent_routing")
    /\ \E s \in job[o].left : \E d \in LatestOf(s) :
          Learn(o, [job[o] EXCEPT !.left = @ \ {s}, !.found = @ \cup {d}])
    /\ UNCHANGED agentVars

\* route: approved experts that a tag and the geography match; nobody else but the
\* generalist, whom no status is asked of.
CommitRouting(o) ==
    /\ At(o, "agent_routing") /\ job[o].left = {}
    /\ \E matched \in SUBSET Specialists :
          routings' = routings \cup
              {[selected |-> {d \in job[o].found : StatusOf(d) = "approved" /\ d.expert \in matched},
                known |-> job[o].known]}
    /\ Finish(o)
    /\ UNCHANGED <<definitions, toolAudits>>

AgentsNext(o) ==
    \/ BeginSeeding(o) \/ CommitSeeds(o)
    \/ BeginSuspension(o) \/ BeginAdding(o) \/ CheckLineage(o) \/ CommitDefinition(o)
    \/ LoadExpert(o) \/ AuditTool(o) \/ CloseSession(o)
    \/ BeginRouting(o) \/ ReadExpert(o) \/ CommitRouting(o)

AgentsTypeOK ==
    /\ definitions \subseteq Definition /\ \A d \in definitions : VersionNumber(d) \in 1..MaxRevisions
    /\ toolAudits \subseteq ToolAudit
    /\ routings \subseteq Routing

\* d is approved, in the catalog, and no older than any of the versions known.
ApprovedAfter(known, d) ==
    /\ d \in definitions /\ StatusOf(d) = "approved"
    /\ \A n \in known : n <= VersionNumber(d)

\* docs/expert-agents.md: "Suspended experts are excluded."  However additions race and
\* fork and a routing reads the catalog expert by expert, no version that was there when a
\* command began, a suspension above all, is passed over for an older one: a tool is
\* granted and a subject routed on an approved version of the catalog that none known by
\* then is above.
SuspensionIsHeeded ==
    /\ \A a \in toolAudits : a.decision = "allowed" => ApprovedAfter(a.known, a.of)
    /\ \A r \in routings : \A d \in r.selected : ApprovedAfter(r.known[d.expert], d)

=============================================================================
