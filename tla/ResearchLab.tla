------------------------------ MODULE ResearchLab ------------------------------
(***************************************************************************)
(* research/: a context is assembled of what was visible at a cutoff, one  *)
(* query after the other; it is committed with its manifest before the     *)
(* provider is called; and the call, its claims, the hypothesis or the     *)
(* review and their trace are committed together after it.  The rows of    *)
(* the other laboratories are leads: a table, a time and what they cite.   *)
(***************************************************************************)
EXTENDS CompanyRegistry, Sequences

CONSTANTS
    MaxLeads,       \* bound on the rows of the other laboratories
    StaleAfter      \* the age, in ticks, past which evidence is stale

ASSUME ResearchAssumption == MaxLeads \in Nat \ {0} /\ StaleAfter \in Nat

VARIABLES
    leads,          \* rows of the other laboratories, of every table
    contexts,       \* research_contexts
    aliases,        \* research_anonymization_mappings
    contextManifests, \* research_context_manifests
    calls,          \* research_provider_calls and the research_claims of them
    hypotheses,     \* research_hypotheses_v2
    researchReviews, \* research_reviews
    traces          \* research_traces

researchVars == <<leads, contexts, aliases, contextManifests, calls, hypotheses, researchReviews, traces>>

\* The tables that the builder queries, in its order; of the other laboratories, the
\* tables whose rows it treats alike are one: events, policies and fused claims are
\* passed over unless their evidence is visible, the rows of macro, of social and of
\* the graph are taken as they are.
Tables == <<"filing", "fundamental", "exposure", "guarded", "plain", "geopolitical">>
LeadTables == {"guarded", "plain", "geopolitical"}
\* Rows whose evidence becomes part of the context.
Collected == {"filing", "fundamental", "exposure", "guarded", "geopolitical"}

Lead == [id : 1..MaxLeads, table : LeadTables, at : Time, cites : SUBSET Statements]
ContextItem(kind, id, at, cites) == [kind |-> kind, id |-> id, at |-> at, cites |-> cites]

\* known: the leads that are there from the first.
ResearchInit(known) ==
    /\ leads = known /\ contexts = {} /\ aliases = {} /\ contextManifests = {}
    /\ calls = {} /\ hypotheses = {} /\ researchReviews = {} /\ traces = {}

\* Another laboratory commits a row, of now or of an earlier time, that cites evidence;
\* the geopolitical one checks its evidence itself.
LeadArrives ==
    /\ Cardinality(leads) < MaxLeads
    /\ \E table \in LeadTables, at \in 0..now, items \in SUBSET Statements \ {{}} :
          /\ table = "geopolitical" => EvidenceBy(items, at)
          /\ leads' = leads \cup {[id |-> Cardinality(leads) + 1, table |-> table, at |-> at, cites |-> items]}
    /\ UNCHANGED <<contexts, aliases, contextManifests, calls, hypotheses, researchReviews, traces>>

\* What a query adds to a context, by table; of exposures one.
RowsOf(table, c, cutoff) ==
    CASE table = "filing" -> {FilingsAt(c, cutoff)}
      [] table = "fundamental" -> {FundamentalsAt(c, cutoff)}
      [] table = "exposure" ->
            LET last == ExposuresAt(c, cutoff) IN IF last = {} THEN {{}} ELSE {{x} : x \in last}
      [] OTHER -> {{l \in leads : /\ l.table = table /\ l.at <= cutoff
                                  /\ table = "guarded" => EvidenceBy(l.cites, cutoff)}}

\* research build-context or research hypothesize: the company is visible at the cutoff.
BeginResearch(o) ==
    /\ Free(o)
    /\ \E c \in Companies, cutoff \in 0..now + 1 : \E v \in CompaniesAt(c, cutoff) :
          Begin(o, [pc |-> "context_read", run |-> started + 1, company |-> c, cutoff |-> cutoff, next |-> 1,
                    items |-> {ContextItem("company", v.version, v.at, {})}])
    /\ UNCHANGED researchVars

\* build: one query.
ReadTable(o) ==
    /\ At(o, "context_read") /\ job[o].next <= Len(Tables)
    /\ LET table == Tables[job[o].next]
       IN  \E rows \in RowsOf(table, job[o].company, job[o].cutoff) :
               Learn(o, [job[o] EXCEPT !.next = @ + 1,
                         !.items = @ \cup {ContextItem(table, r.id, r.at, r.cites) : r \in rows}])
    /\ UNCHANGED researchVars

EvidenceOf(items) == UNION {i.cites : i \in {x \in items : x.kind \in Collected}}

EvidenceItems(ids) == {ContextItem("evidence", 0, statements[s], {s}) : s \in ids}

ContextOf(j) ==
    [subject |-> j.company, cutoff |-> j.cutoff, anonymized |-> FALSE,
     items |-> j.items \cup EvidenceItems(EvidenceOf(j.items))]

\* hypothesize goes on with the manifest of a context; of is 0 unless it is a review's.
SealsNext(run, context) ==
    [pc |-> "manifest_commit", run |-> run, of |-> 0, source |-> context, context |-> context]

\* build ends with the evidence of what it collected, all of it visible by then, and
\* build_context commits, be the context new or known.  What comes next was said on the
\* command line: --anonymize, the hypothesis, or nothing.
CommitContext(o) ==
    /\ At(o, "context_read") /\ job[o].next > Len(Tables)
    /\ LET j == job[o]
           ids == EvidenceOf(j.items)
           context == ContextOf(j)
       IN  /\ ids # {} => EvidenceBy(ids, j.cutoff)
           /\ contexts' = contexts \cup {context}
           /\ \/ Learn(o, [pc |-> "alias_commit", run |-> j.run, context |-> context])
              \/ Learn(o, SealsNext(j.run, context))
              \/ Finish(o)
    /\ UNCHANGED <<leads, aliases, contextManifests, calls, hypotheses, researchReviews, traces>>

\* Another process inserted the same context after the lookup.
ContextRefused(o) ==
    /\ At(o, "context_read") /\ job[o].next > Len(Tables)
    /\ ContextOf(job[o]) \in contexts
    /\ Finish(o)
    /\ UNCHANGED researchVars

\* anonymize_context: the subject and the names of the company are replaced, the
\* provenance is not.
Anonymized(context) == [context EXCEPT !.subject = "COMPANY_A", !.anonymized = TRUE]

\* --anonymize: the aliased context and its mapping are committed too.
CommitAlias(o) ==
    /\ At(o, "alias_commit")
    /\ LET named == job[o].context
           aliased == Anonymized(named)
       IN  /\ contexts' = contexts \cup {aliased}
           /\ aliases' = aliases \cup {[context |-> aliased, subject |-> named.subject, at |-> now]}
           /\ Learn(o, SealsNext(job[o].run, aliased)) \/ Finish(o)
    /\ UNCHANGED <<leads, contextManifests, calls, hypotheses, researchReviews, traces>>

\* context_for_hypothesis: of the oldest trace of it that no reviewer wrote.
SourceTraces(h) ==
    LET own == {t \in traces : t.hypothesis = h.id /\ t.review = 0}
    IN  {t \in own : \A u \in own : t.at <= u.at}

\* The reviewer gets the hypothesis and the evidence of its context.
ReviewContext(h, context) ==
    [subject |-> context.subject, cutoff |-> h.at, anonymized |-> FALSE,
     items |-> {ContextItem("hypothesis", h.id, h.at, h.basis)}
               \cup {i \in context.items : i.kind = "evidence"}]

\* research review
BeginReview(o) ==
    /\ Free(o)
    /\ \E h \in hypotheses : \E t \in SourceTraces(h) :
          LET source == t.manifest.context
          IN  Begin(o, [pc |-> "manifest_commit", run |-> started + 1, of |-> h.id, source |-> source,
                        context |-> ReviewContext(h, source)])
    /\ UNCHANGED researchVars

ManifestOf(context) == [context |-> context, at |-> now]

\* Variant: the manifest is only flushed, to be committed with the results.
CommitManifestLater(o) ==
    /\ At(o, "manifest_commit") /\ job[o].context.cutoff <= now
    /\ LET j == job[o]
       IN  Learn(o, [pc |-> "provider_call", run |-> j.run, of |-> j.of, source |-> j.source,
                     manifest |-> ManifestOf(j.context)])
    /\ UNCHANGED researchVars

\* hypothesize, review: the context and its manifest, which does not predate the
\* cutoff, are committed before the provider is called.
CommitManifest(o) ==
    /\ At(o, "manifest_commit") /\ job[o].context.cutoff <= now
    /\ LET j == job[o]
       IN  /\ contexts' = contexts \cup {j.context}
           /\ contextManifests' = contextManifests \cup {ManifestOf(j.context)}
           /\ Learn(o, [pc |-> "provider_call", run |-> j.run, of |-> j.of, source |-> j.source,
                        manifest |-> ManifestOf(j.context)])
    /\ UNCHANGED <<leads, aliases, calls, hypotheses, researchReviews, traces>>

\* The cutoff is yet to come, or another review of the hypothesis inserted its context.
ManifestRefused(o) ==
    /\ At(o, "manifest_commit")
    /\ \/ job[o].context.cutoff > now
       \/ job[o].of # 0 /\ job[o].context \in contexts
    /\ Finish(o)
    /\ UNCHANGED researchVars

\* What a claim may cite: items of evidence, and what any item cites.
Citable(context) == UNION {i.cites : i \in context.items}

\* validate_provider_output
Grounded(context, claim) == claim.supports \cup claim.contradicts \subseteq Citable(context)

Claim == [supports : SUBSET Statements \ {{}}, contradicts : SUBSET Statements]

\* The provider fails, or its answer is malformed, empty or not grounded.
ProviderFails(o) ==
    /\ At(o, "provider_call")
    /\ Finish(o)
    /\ UNCHANGED researchVars

\* What it answered, under an ID that holds the time of the answer.
CallOf(j, claims) == [id |-> j.run, at |-> now, claims |-> claims]

HypothesisOf(j, claim) ==
    [id |-> j.run, basis |-> claim.supports, counter |-> claim.contradicts, at |-> now, cutoff |-> j.source.cutoff]

\* review is 0 when the trace is of the generation of the hypothesis.
TraceOf(j, hypothesis, review, accepted) ==
    [manifest |-> j.manifest, call |-> j.run, hypothesis |-> hypothesis, review |-> review,
     accepted |-> accepted, at |-> now]

\* hypothesize: the provider answers with a claim that is grounded, and the call, the
\* claim, the hypothesis and the trace are added in one commit.
RecordHypothesis(o) ==
    /\ At(o, "provider_call") /\ job[o].of = 0
    /\ LET j == job[o]
       IN  \E claim \in Claim :
              /\ Grounded(j.manifest.context, claim)
              /\ calls' = calls \cup {CallOf(j, {claim})}
              /\ hypotheses' = hypotheses \cup {HypothesisOf(j, claim)}
              /\ traces' = traces \cup {TraceOf(j, j.run, 0, FALSE)}
    /\ Finish(o)
    /\ UNCHANGED <<leads, contexts, aliases, contextManifests, researchReviews>>

ReviewOf(j, accepted) == [id |-> j.run, of |-> j.of, accepted |-> accepted, at |-> now]

\* Evidence that was old when the hypothesis was generated.
Stale(h, context) == {i \in context.items : i.kind = "evidence" /\ h.at - i.at > StaleAfter}

\* The gates of a review; its mechanism, horizon and wording are judged by worded.
Acceptable(h, context, worded) ==
    /\ h.basis \subseteq Citable(context)
    /\ Cardinality(h.basis) >= 2
    /\ h.counter = {}
    /\ worded
    /\ Stale(h, context) = {}

\* review: the provider answers with a claim or none, which the gates do not ask about;
\* the call, its claims, the result and the trace are added in one commit.
RecordReview(o) ==
    /\ At(o, "provider_call") /\ job[o].of # 0
    /\ LET j == job[o]
       IN  \E h \in hypotheses, worded \in BOOLEAN, claims \in {{}} \cup {{c} : c \in Claim} :
              LET accepted == Acceptable(h, j.source, worded)
              IN  /\ h.id = j.of
                  /\ \A c \in claims : Grounded(j.manifest.context, c)
                  /\ calls' = calls \cup {CallOf(j, claims)}
                  /\ researchReviews' = researchReviews \cup {ReviewOf(j, accepted)}
                  /\ traces' = traces \cup {TraceOf(j, h.id, j.run, accepted)}
    /\ Finish(o)
    /\ UNCHANGED <<leads, contexts, aliases, contextManifests, hypotheses>>

\* The contexts are built.
BuildNext(o) ==
    /\ BeginResearch(o) \/ ReadTable(o) \/ CommitContext(o) \/ ContextRefused(o)
    /\ UNCHANGED companyVars

\* What is done with contexts.
ResearchNext(o) ==
    /\ \/ CommitAlias(o) \/ CommitManifest(o) \/ ManifestRefused(o)
       \/ ProviderFails(o) \/ RecordHypothesis(o) \/ BeginReview(o) \/ RecordReview(o)
    /\ UNCHANGED companyVars

ResearchTypeOK ==
    /\ DOMAIN statements \subseteq Statements /\ \A s \in DOMAIN statements : statements[s] \in Time
    /\ companies \subseteq CompanyVersion /\ filings \subseteq Filing /\ fundamentals \subseteq Fundamental
    /\ exposures \subseteq Exposure
    /\ leads \subseteq Lead
    /\ \A x \in contexts : x.cutoff \in 0..MaxTime + 1
    /\ \A m \in contextManifests : m.context \in contexts /\ m.at \in Time
    /\ \A c \in calls : c.claims \subseteq Claim

\* Whatever order rows arrive in, the evidence of what a builder collected was
\* visible by its cutoff: a row that cites later evidence would stop all research
\* of its company from then on (_evidence, ResearchContextBuilder.build).
EveryCutoffCanBeResearched ==
    \A o \in Operators : At(o, "context_read") =>
        \A s \in EvidenceOf(job[o].items) :
            s \in DOMAIN statements /\ statements[s] <= job[o].cutoff

\* docs/research-intelligence.md: before each call a context and its manifest are
\* committed.  Whatever dies or fails, every call, in flight or recorded, has
\* both;
\* every hypothesis, review and call has its trace; what a claim cites is of the
\* very context of its call; and an accepted hypothesis rests on the context it was
\* generated of, not on the reviewer's.
TracesReplayTheirContext ==
    /\ \A o \in Operators : At(o, "provider_call") =>
           job[o].manifest \in contextManifests /\ job[o].manifest.context \in contexts
    /\ \A c \in calls : \E t \in traces :
           /\ t.call = c.id
           /\ t.manifest \in contextManifests /\ t.manifest.context \in contexts /\ t.manifest.at <= c.at
           /\ \A claim \in c.claims : claim.supports \cup claim.contradicts \subseteq Citable(t.manifest.context)
    /\ \A h \in hypotheses : \E t \in traces :
           t.hypothesis = h.id /\ t.review = 0 /\ t.manifest.context.cutoff = h.cutoff
    /\ \A r \in researchReviews : \E t, u \in traces :
           /\ t.review = r.id /\ t.hypothesis = r.of /\ t.accepted = r.accepted
           /\ u.hypothesis = r.of /\ u.review = 0 /\ u.at <= r.at
           /\ r.accepted => /\ \E h \in hypotheses : h.id = r.of /\ h.basis \subseteq Citable(u.manifest.context)
                            /\ {i \in t.manifest.context.items : i.kind = "evidence"}
                                 = {i \in u.manifest.context.items : i.kind = "evidence"}

=============================================================================
