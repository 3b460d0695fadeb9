-------------------------- MODULE EventObservatory --------------------------
(***************************************************************************)
(* observatory/: the events extracted of the exchange rates observed of    *)
(* one currency.  Each extraction goes over all observations from the      *)
(* first, in one session, and commits at its end.  An event is named by    *)
(* its material fingerprint; mechanism links follow their event and are    *)
(* left out, and a value stands for all the attributes it fixes.           *)
(***************************************************************************)
EXTENDS CommandSessions, SequencesExt

CONSTANTS
    MaxDay,         \* the periods observed, in their order
    Rates           \* the values observed, in thousandths

ASSUME ObservatoryAssumption == MaxDay \in Nat /\ Rates \subseteq Nat \ {0}

VARIABLES
    observations,   \* normalized_observations
    events          \* canonical_events with their transitions and support

observatoryVars == <<observations, events>>

Observation == [day: 1..MaxDay, at: Time, rate: Rates]

\* What an event says: a rate, or a rate and the one before it.
Rate(r) == <<r>>
Movement(before, r) == <<before, r>>
Material == {Rate(r) : r \in Rates} \cup {Movement(b, r) : b \in Rates, r \in Rates}

\* The material fingerprint; the deduplication key is its kind and day.
EventKey == [kind: {"update", "movement", "unusual"}, day: 1..MaxDay,
             says: Material, corrected: BOOLEAN]
NoEvent == [kind |-> "none"]

Transition == [to: {"observed", "confirmed", "revised", "superseded"}, at: Time]
Record == [at: Time, supersedes: EventKey \cup {NoEvent},
           transitions: Seq(Transition), support: SUBSET Observation]

ObservatoryInit == observations = {} /\ events = << >>

\* ingest: the time is taken after the fetch, the observation is committed later.
BeginObserve(o) ==
    \E day \in 1..MaxDay, rate \in Rates :
        /\ Begin(o, [pc |-> "rate_commit", row |-> [day |-> day, at |-> now, rate |-> rate]])
        /\ UNCHANGED observatoryVars

CommitObservation(o) ==
    /\ At(o, "rate_commit")
    /\ observations' = observations \cup {job[o].row}
    /\ Learn(o, [pc |-> "extract"])
    /\ UNCHANGED events

\* list_for_source: by day, then in the order of observation.
Before(a, b) ==
    \/ a.day < b.day
    \/ a.day = b.day /\ a.at < b.at
    \/ a.day = b.day /\ a.at = b.at /\ a.rate < b.rate
Listed(all) ==
    [i \in 1..Cardinality(all) |->
        CHOOSE x \in all : Cardinality({y \in all : Before(y, x)}) = i - 1]

\* The movement is at least one percent.
Unusual(before, r) ==
    LET change == IF r > before THEN r - before ELSE before - r IN 100 * change >= before

\* BoiEventExtractor.extract: an update, and what moved since the observation
\* listed before, whatever its day.
UpdateOf(obs) ==
    [kind |-> "update", day |-> obs.day, says |-> Rate(obs.rate), corrected |-> FALSE]
MoveOf(kind, before, obs) ==
    [kind |-> kind, day |-> obs.day, says |-> Movement(before, obs.rate), corrected |-> FALSE]

SameIdentity(known, key) == {k \in DOMAIN known : k.kind = key.kind /\ k.day = key.day}

\* latest_for_key_before.
LatestBefore(known, key, at) ==
    LET before == {k \in SameIdentity(known, key) : known[k].at < at}
    IN  IF before = {} THEN NoEvent
        ELSE CHOOSE k \in before : \A q \in before : known[q].at <= known[k].at

\* current_status: the last transition by its time, then by its sequence.
StatusAt(record, cutoff) ==
    LET due == {i \in DOMAIN record.transitions : record.transitions[i].at <= cutoff}
        last == CHOOSE i \in due : \A j \in due :
                    \/ record.transitions[j].at < record.transitions[i].at
                    \/ record.transitions[j].at = record.transitions[i].at /\ j <= i
    IN  IF due = {} THEN "none" ELSE record.transitions[last].to

Recorded(known, key, record) ==
    [k \in DOMAIN known \cup {key} |-> IF k = key THEN record ELSE known[k]]

Supported(known, key, obs) == [known EXCEPT ![key].support = @ \cup {obs}]

\* _record_initial_lifecycle.
NewRecord(key, prior, obs) ==
    [at |-> obs.at, supersedes |-> prior, support |-> {obs},
     transitions |-> <<[to |-> "observed", at |-> obs.at],
                       [to |-> IF key.corrected THEN "revised" ELSE "confirmed", at |-> obs.at]>>]

Supersede(known, prior, at) ==
    [known EXCEPT ![prior].transitions = Append(@, [to |-> "superseded", at |-> at])]

Raised == [ok |-> FALSE]
Fine(known) == [ok |-> TRUE, known |-> known]

\* Variant: an event of the same key is reused whatever it says.
AddEventByIdentity(known, key, prior, obs) ==
    LET there == SameIdentity(known, key)
    IN  IF there # {} THEN Fine(Supported(known, CHOOSE k \in there : TRUE, obs))
        ELSE Fine(Recorded(known, key, NewRecord(key, prior, obs)))

\* SqlCanonicalEventRepository.add: support of what is there, or a new event that
\* supersedes one of its key; a superseded event cannot be superseded again.
AddEvent(known, key, prior, obs) ==
    IF key \in DOMAIN known THEN Fine(Supported(known, key, obs))
    ELSE IF prior = NoEvent
    THEN IF SameIdentity(known, key) # {} THEN Raised
         ELSE Fine(Recorded(known, key, NewRecord(key, NoEvent, obs)))
    ELSE IF StatusAt(known[prior], obs.at) = "superseded" THEN Raised
    ELSE Fine(Supersede(Recorded(known, key, NewRecord(key, prior, obs)), prior, obs.at))

\* run_pending for one candidate: another fact than the latest before is a revision.
Persist(known, key, obs) ==
    LET latest == LatestBefore(known, key, obs.at)
        changed == latest # NoEvent /\ latest # key
    IN  AddEvent(known, [key EXCEPT !.corrected = changed],
                 IF changed THEN latest ELSE NoEvent, obs)

\* The first error ends the extraction.
Then(result, key, obs) == IF result.ok THEN Persist(result.known, key, obs) ELSE result

\* The candidates of an observation, one after the other; nothing has moved before the
\* first observation, whose rate before is 0.
PersistAll(known, before, obs) ==
    LET updated == Persist(known, UpdateOf(obs), obs)
        moved == Then(updated, MoveOf("movement", before, obs), obs)
    IN  IF before = 0 THEN updated
        ELSE IF Unusual(before, obs.rate) THEN Then(moved, MoveOf("unusual", before, obs), obs)
        ELSE moved

\* run_pending: the observations from the first, each after the one listed before.
Extraction(known, all) ==
    LET listed == Listed(all)
        RateBefore(i) == IF i = 1 THEN 0 ELSE listed[i - 1].rate
        After[i \in 0..Len(listed)] ==
            IF i = 0 THEN Fine(known)
            ELSE LET last == After[i - 1]
                 IN  IF last.ok THEN PersistAll(last.known, RateBefore(i), listed[i]) ELSE last
    IN  After[Len(listed)]

\* What is committed while the extraction runs is not seen by it: the whole run
\* takes the state it starts from.
Extract(o) ==
    /\ At(o, "extract")
    /\ LET run == Extraction(events, observations)
       IN  /\ run.ok
           /\ Learn(o, [pc |-> "extract_commit", from |-> events, to |-> run.known,
                        read |-> observations])
    /\ UNCHANGED observatoryVars

\* The extraction raises, and nothing of it is kept.
ExtractRaises(o) ==
    /\ At(o, "extract") /\ ~Extraction(events, observations).ok
    /\ Finish(o)
    /\ UNCHANGED observatoryVars

\* The fingerprint of an event and the sequence of a transition are unique, so
\* of two extractions that found something new about one event one commits.
CommitExtraction(o) ==
    /\ At(o, "extract_commit")
    /\ job[o].from = events \/ job[o].to = job[o].from
    /\ events' = IF job[o].from = events THEN job[o].to ELSE events
    /\ Finish(o)
    /\ UNCHANGED observations

ExtractionRefused(o) ==
    /\ At(o, "extract_commit")
    /\ job[o].from # events /\ job[o].to # job[o].from
    /\ Finish(o)
    /\ UNCHANGED observatoryVars

ObservatoryNext(o) ==
    \/ Free(o) /\ BeginObserve(o)
    \/ CommitObservation(o) \/ Extract(o) \/ ExtractRaises(o)
    \/ CommitExtraction(o) \/ ExtractionRefused(o)

ObservatoryTypeOK ==
    /\ observations \subseteq Observation
    /\ DOMAIN events \subseteq EventKey
    /\ \A k \in DOMAIN events : events[k] \in Record

\* docs/event-observatory.md: a changed value supersedes the prior version.  The
\* event superseded was observed before, it says something else under the same
\* key, and from the time of its successor on it counts as superseded
\* (run_pending, add, transition).
RevisionsSupersedeTheirPast ==
    \A k \in DOMAIN events : LET prior == events[k].supersedes IN
        prior # NoEvent =>
            /\ prior \in DOMAIN events /\ prior \in SameIdentity(events, k)
            /\ prior.says # k.says \/ ~prior.corrected
            /\ events[prior].at < events[k].at
            /\ \A cutoff \in Time : cutoff >= events[k].at =>
                   StatusAt(events[prior], cutoff) = "superseded"

\* docs/event-observatory.md: every supported observation produces an update.  An
\* observation only supports what it says, and once extracted it supports its
\* update (_add_support, run_pending).
ObservationsSupportWhatTheySay ==
    /\ \A k \in DOMAIN events : \A obs \in events[k].support :
           obs \in observations /\ obs.day = k.day /\ Last(k.says) = obs.rate
    /\ \A o \in Operators : At(o, "extract_commit") =>
           \A obs \in job[o].read :
              \E k \in DOMAIN job[o].to : k.kind = "update" /\ obs \in job[o].to[k].support

\* However late observations come and passes overlap, the history of an event reads as if
\* it had been written in order.
EventsKeepTheirHistory == RevisionsSupersedeTheirPast /\ ObservationsSupportWhatTheySay

\* docs/event-observatory.md:88: a materially changed observation for the same
\* currency and period produces a revision.  With no two observations of one time
\* the extraction would go through from what is stored (run_pending).
ExtractionCanAdvance ==
    (\A a, b \in observations : a # b => a.at # b.at) => Extraction(events, observations).ok

=============================================================================
