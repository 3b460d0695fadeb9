----------------------------- MODULE NewsLab ------------------------------
(***************************************************************************)
(* news/: runs over the one reviewed feed.  The raw payload is committed   *)
(* before anything is parsed; its entries become items, revisions of the   *)
(* items of their URI, or quarantined items, in one transaction, each      *)
(* after two queries that other runs may commit between.  Title, body and  *)
(* fingerprint of an entry are one content.                                *)
(***************************************************************************)
EXTENDS CommandSessions, FiniteSets, Sequences

CONSTANTS
    Links,          \* canonical URIs of entries
    Stories,        \* contents of entries
    Malformed,      \* payloads that are rejected as a whole
    MaxEntries      \* bound on the entries of a feed

Endpoint == "endpoint"
ASSUME NewsAssumption == Endpoint \notin Links /\ MaxEntries \in Nat

VARIABLES
    receipts,       \* raw_ingestions, one for each payload
    items,          \* news_items
    candidates      \* news_event_candidates, one for each extracted item

newsVars == <<receipts, items, candidates>>

\* A feed may hold one link more than once.
Entry == [uri: Links, content: Stories, published: Time]
Feed == UNION {[1..n -> Entry] : n \in 1..MaxEntries}
Payload == Feed \cup Malformed

ItemKey == [uri: Links \cup {Endpoint}, content: Stories \cup Malformed,
            at: Time, quarantined: BOOLEAN]
NoItem == [uri |-> "none"]
Item == [key: ItemKey, revises: ItemKey \cup {NoItem}]

NewsInit == receipts = {} /\ items = {} /\ candidates = {}

KeysOf(rows) == {i.key : i \in rows}
ItemKeys == KeysOf(items)

\* What a run makes items of: the entries, or a malformed payload as a whole.
EntriesOf(payload) ==
    IF payload \in Malformed
    THEN <<[uri |-> Endpoint, content |-> payload, published |-> 0]>>
    ELSE payload

\* A malformed payload and an entry published after its observation are quarantined.
Quarantined(j) ==
    j.payload \in Malformed \/ EntriesOf(j.payload)[j.next].published > j.at

\* The items a run's queries find: those committed and its own.
Found(j) == KeysOf(items \cup j.rows)

Covers(rows, entry) == \E k \in KeysOf(rows) : k.uri = entry.uri /\ k.content = entry.content

\* Variant: any item of the URI counts as the same.
ReingestedByUri(j) == \E k \in Found(j) : k.uri = EntriesOf(j.payload)[j.next].uri

\* classify_duplicate, the first query: the same source, URI and content is
\* there already, quarantined or not.
Reingested(j) == Covers(items \cup j.rows, EntriesOf(j.payload)[j.next])

\* classify_duplicate, the second query: the last items of the URI; of several
\* observed at once any may be found.
PriorItems(j) ==
    LET of == {k \in Found(j) : k.uri = EntriesOf(j.payload)[j.next].uri}
    IN  {k \in of : \A q \in of : q.at <= k.at}

\* The item of an entry, a revision of what the second query found.
NewItem(j, prior) ==
    LET entry == EntriesOf(j.payload)[j.next]
    IN  [key |-> [uri |-> entry.uri, content |-> entry.content,
                  at |-> j.at, quarantined |-> Quarantined(j)],
         revises |-> prior]

\* news ingest: the clock is read when the fetch has answered.
BeginNews(o) ==
    \E payload \in Payload :
        /\ Begin(o, [pc |-> "news_raw", payload |-> payload, at |-> now,
                     known |-> payload \in receipts])
        /\ UNCHANGED newsVars

\* The artifact, its row and the receipt, in a transaction of their own.
CommitRaw(o) ==
    /\ At(o, "news_raw")
    /\ job[o].known \/ job[o].payload \notin receipts
    /\ receipts' = receipts \cup {job[o].payload}
    /\ Learn(o, [pc |-> "news_entry", payload |-> job[o].payload, at |-> job[o].at,
                 next |-> 1, rows |-> {}])
    /\ UNCHANGED <<items, candidates>>

\* The receipt was inserted by another run since: its key is taken.
RawRefused(o) ==
    /\ At(o, "news_raw")
    /\ ~job[o].known /\ job[o].payload \in receipts
    /\ Finish(o)
    /\ UNCHANGED newsVars

Classified(j) == j.next > Len(EntriesOf(j.payload))

\* An entry whose content is there already is passed over; another is new.
FindExact(o) ==
    /\ At(o, "news_entry") /\ ~Classified(job[o])
    /\ \/ Reingested(job[o]) /\ Learn(o, [job[o] EXCEPT !.next = @ + 1])
       \/ ~Reingested(job[o]) /\ Proceed(o, "news_prior")
    /\ UNCHANGED newsVars

\* A new item revises a last one of its URI, if any is there by now.
FindPrior(o) ==
    /\ At(o, "news_prior")
    /\ \E prior \in IF PriorItems(job[o]) = {} THEN {NoItem} ELSE PriorItems(job[o]) :
          Learn(o, [job[o] EXCEPT !.pc = "news_entry", !.next = @ + 1,
                                  !.rows = @ \cup {NewItem(job[o], prior)}])
    /\ UNCHANGED newsVars

Extracted(rows) == KeysOf({i \in rows : ~i.key.quarantined})

\* Variant: the items are left to a commit of their own, which is lost.
CommitNewsLater(o) ==
    /\ At(o, "news_entry") /\ Classified(job[o])
    /\ candidates' = candidates \cup Extracted(job[o].rows)
    /\ Finish(o)
    /\ UNCHANGED <<receipts, items>>

\* Items and the candidates extracted of them are committed together.
CommitNews(o) ==
    /\ At(o, "news_entry") /\ Classified(job[o])
    /\ items' = items \cup job[o].rows
    /\ candidates' = candidates \cup Extracted(job[o].rows)
    /\ Finish(o)
    /\ UNCHANGED receipts

NewsNext(o) ==
    \/ Free(o) /\ BeginNews(o)
    \/ CommitRaw(o) \/ RawRefused(o) \/ FindExact(o) \/ FindPrior(o) \/ CommitNews(o)

NewsTypeOK ==
    /\ receipts \subseteq Payload
    /\ items \subseteq Item
    /\ candidates \subseteq ItemKeys

\* docs/news-lab.md: changed content at a URI becomes a new revision linked to
\* the prior item.  Whatever other runs commit between the two queries of an
\* entry, a run leaves an item of each entry's very content, and a revision
\* links to an item that is there, of its own URI (classify_duplicate, run).
\* It may be of the very same content, or of a later observation: two runs of
\* one feed overlap.
EveryEntryHasItsItem ==
    /\ \A o \in Operators : At(o, "news_entry") =>
          \A n \in 1..(job[o].next - 1) :
             Covers(items \cup job[o].rows, EntriesOf(job[o].payload)[n])
    /\ \A i \in items : i.revises # NoItem =>
          i.revises \in ItemKeys /\ i.revises.uri = i.key.uri

=============================================================================
