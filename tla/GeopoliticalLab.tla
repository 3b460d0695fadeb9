---------------------------- MODULE GeopoliticalLab ----------------------------
(***************************************************************************)
(* geopolitical/: candidates that are extracted from evidence, reviews of  *)
(* them, versions of events, transmission paths and corroborations.  Only  *)
(* the extraction has a command; the other rows come from callers of the   *)
(* repository, one to a session.  Actors, places, mechanisms and           *)
(* confidences are left out.                                               *)
(***************************************************************************)
EXTENDS CommandSessions, FiniteSets, Revisions

CONSTANTS
    EventTypes,
    Reports,        \* items of evidence; how two of them compare is given
    MaxNotes        \* bound on the candidates, reviews, paths and corroborations

ASSUME GeopoliticalAssumption == MaxNotes \in Nat

VARIABLES
    reports,        \* evidence: when each item was observed
    eventCandidates, \* geopolitical_candidates
    reviews,        \* geopolitical_candidate_reviews
    geoEvents,      \* geopolitical_events
    paths,          \* geopolitical_transmission_paths
    responses       \* geopolitical_corroborations

geopoliticalVars == <<reports, eventCandidates, reviews, geoEvents, paths, responses>>

GeoId == 1..MaxCommands
ReviewStates == {"corroborated", "rejected", "promoted"}
EventCandidate == [report : Reports, at : Time]
Review == [candidate : EventCandidate, state : ReviewStates, at : Time]
\* of: the candidates, at most one, that its caller names; the table does not keep it.
GeoEvent == [id : GeoId, type : EventTypes, reports : SUBSET Reports, of : SUBSET EventCandidate,
             at : Time, version : GeoId, revises : {0} \cup GeoId]
TransmissionPath == [event : GeoId, at : Time, until : 1..MaxTime + 1]
Kinds == {"independent_sources", "syndicated_copy", "official_confirmation",
          "official_contradiction", "unresolved_conflict"}
Response == [candidate : EventCandidate, kind : Kinds, at : Time]

GeopoliticalInit ==
    /\ reports = << >> /\ eventCandidates = {} /\ reviews = {}
    /\ geoEvents = {} /\ paths = {} /\ responses = {}

\* The other components ingest an item of evidence.
ReportArrives ==
    /\ \E r \in Reports \ DOMAIN reports :
          reports' = [q \in DOMAIN reports \cup {r} |-> IF q = r THEN now ELSE reports[q]]
    /\ UNCHANGED <<eventCandidates, reviews, geoEvents, paths, responses>>

ReportsVisible(items, cutoff) == items # {} /\ \A r \in items : r \in DOMAIN reports /\ reports[r] <= cutoff

AddsGeo(o, table, row) ==
    /\ Begin(o, [pc |-> "geo_insert", table |-> table, row |-> row])
    /\ UNCHANGED geopoliticalVars

NoteAllowed ==
    Cardinality(eventCandidates) + Cardinality(reviews) + Cardinality(paths) + Cardinality(responses) < MaxNotes

\* geopolitical extract: of evidence that is visible at the cutoff; what the phrases
\* say is of the candidate's content.
ExtractCandidate(o) ==
    /\ NoteAllowed
    /\ \E r \in Reports, cutoff \in 0..now :
          /\ ReportsVisible({r}, cutoff)
          /\ AddsGeo(o, "candidates", [report |-> r, at |-> cutoff])

\* review_candidate
ReviewCandidate(o) ==
    /\ NoteAllowed
    /\ \E c \in eventCandidates, state \in ReviewStates, at \in 0..now :
          c.at <= at /\ AddsGeo(o, "reviews", [candidate |-> c, state |-> state, at |-> at])

\* candidate_review_state: the last review by then; which, of the same time, is open.
ReviewStatesAt(candidate, cutoff) ==
    LET seen == {r \in reviews : r.candidate = candidate /\ r.at <= cutoff}
    IN  {r.state : r \in {q \in seen : \A s \in seen : s.at <= q.at}}

\* Variant: a revision names its prior version, whenever it was observed.
GeoRevisionUndated(row) ==
    \/ row.version = 1 /\ row.revises = 0
    \/ \E prior \in geoEvents : /\ prior.id = row.revises /\ row.version = prior.version + 1
                                /\ prior.type = row.type

\* A revision follows its prior version, of the same type.
GeoRevision(row) ==
    /\ Follows(row, geoEvents)
    /\ \A prior \in geoEvents : prior.id = row.revises => prior.type = row.type

\* add_event, of a candidate that was promoted by its time, or of evidence alone.
AddEvent(o) ==
    \E type \in EventTypes, items \in SUBSET Reports, of \in {{}} \cup {{c} : c \in eventCandidates},
       at \in 0..now, prior \in {0} \cup {e.id : e \in geoEvents}, version \in GeoId :
        LET row == [id |-> started + 1, type |-> type, reports |-> items, of |-> of,
                    at |-> at, version |-> version, revises |-> prior]
        IN  /\ ReportsVisible(items, at) /\ GeoRevision(row)
            /\ \A c \in of : "promoted" \in ReviewStatesAt(c, at)
            /\ AddsGeo(o, "events", row)

\* add_path
AddPath(o) ==
    /\ NoteAllowed
    /\ \E e \in geoEvents, at \in 0..now, until \in 1..MaxTime + 1 :
          /\ e.at <= at /\ at < until
          /\ AddsGeo(o, "paths", [event |-> e.id, at |-> at, until |-> until])

\* classify_corroboration: the same source or the same words is a copy.
KindOf(same, official, contradicts) ==
    IF same THEN "syndicated_copy"
    ELSE IF official
         THEN IF contradicts THEN "official_contradiction" ELSE "official_confirmation"
         ELSE IF contradicts THEN "unresolved_conflict" ELSE "independent_sources"

\* add_corroboration, by two items of evidence; a syndicated copy may name one twice.
AddResponse(o) ==
    /\ NoteAllowed
    /\ \E c \in eventCandidates, items \in SUBSET Reports, same, official, contradicts \in BOOLEAN, at \in 0..now :
          /\ Cardinality(items) \in (IF same THEN {1, 2} ELSE {2}) /\ ReportsVisible(items, at)
          /\ AddsGeo(o, "responses", [candidate |-> c, at |-> at,
                                      kind |-> KindOf(same, official, contradicts)])

Keeps(o, table, rows) == IF job[o].table = table THEN rows \cup {job[o].row} ELSE rows

CommitGeopolitical(o) ==
    /\ At(o, "geo_insert")
    /\ eventCandidates' = Keeps(o, "candidates", eventCandidates)
    /\ reviews' = Keeps(o, "reviews", reviews)
    /\ geoEvents' = Keeps(o, "events", geoEvents)
    /\ paths' = Keeps(o, "paths", paths)
    /\ responses' = Keeps(o, "responses", responses)
    /\ Finish(o)
    /\ UNCHANGED reports

\* The last versions that were supportable at a cutoff.
EventsVisibleAt(cutoff) == CurrentAt({e \in geoEvents : ReportsVisible(e.reports, cutoff)}, cutoff)

PathsVisibleAt(events, cutoff) ==
    {p \in paths : p.event \in {e.id : e \in events} /\ p.at <= cutoff /\ cutoff < p.until}

ResponsesVisibleAt(cutoff) == {r \in responses : r.at <= cutoff}

\* geopolitical report: three queries, one after the other.
BeginReport(o) ==
    /\ \E cutoff \in 0..now :
          Begin(o, [pc |-> "geo_paths", cutoff |-> cutoff, events |-> EventsVisibleAt(cutoff)])
    /\ UNCHANGED geopoliticalVars

ReadPaths(o) ==
    /\ At(o, "geo_paths")
    /\ Learn(o, [pc |-> "geo_responses", cutoff |-> job[o].cutoff, events |-> job[o].events,
                 paths |-> PathsVisibleAt(job[o].events, job[o].cutoff)])
    /\ UNCHANGED geopoliticalVars

ReadResponses(o) ==
    /\ At(o, "geo_responses")
    /\ Learn(o, [pc |-> "geo_report", cutoff |-> job[o].cutoff, events |-> job[o].events,
                 paths |-> job[o].paths, responses |-> ResponsesVisibleAt(job[o].cutoff)])
    /\ UNCHANGED geopoliticalVars

PrintReport(o) == At(o, "geo_report") /\ Finish(o) /\ UNCHANGED geopoliticalVars

GeopoliticalNext(o) ==
    \/ Free(o) /\ (ExtractCandidate(o) \/ ReviewCandidate(o) \/ AddEvent(o)
                      \/ AddPath(o) \/ AddResponse(o) \/ BeginReport(o))
    \/ CommitGeopolitical(o) \/ ReadPaths(o) \/ ReadResponses(o) \/ PrintReport(o)

GeopoliticalTypeOK ==
    /\ DOMAIN reports \subseteq Reports /\ \A r \in DOMAIN reports : reports[r] \in Time
    /\ eventCandidates \subseteq EventCandidate /\ reviews \subseteq Review
    /\ geoEvents \subseteq GeoEvent /\ paths \subseteq TransmissionPath /\ responses \subseteq Response

\* docs/geopolitical-lab.md: a record represents what was supportable at a cutoff,
\* and promotion requires a separate review.  Whoever appends what, in whatever
\* order and between the queries of a report, a report of any cutoff shows the last
\* of what was observed of an event, no event beside a revision of it, the paths
\* of those events only, and nothing observed later; and an event of a candidate
\* was promoted, of evidence that was there, by the time it bears.
ReportsAreOfTheirCutoff ==
    /\ \A cutoff \in Time :
          LET shown == EventsVisibleAt(cutoff)
          IN  /\ StandAlone(shown, geoEvents)
              /\ {e \in geoEvents : e.at <= cutoff} = UNION {Line(s, geoEvents) : s \in shown}
    /\ \A e \in geoEvents : \A c \in e.of :
          /\ reports[c.report] <= c.at
          /\ \E r \in reviews : r.candidate = c /\ r.state = "promoted" /\ c.at <= r.at /\ r.at <= e.at
    /\ \A o \in Operators :
          At(o, "geo_report") =>
             /\ \A p \in job[o].paths : \E e \in job[o].events : e.id = p.event /\ e.at <= p.at
             /\ \A r \in job[o].events \cup job[o].paths \cup job[o].responses : r.at <= job[o].cutoff

=============================================================================
