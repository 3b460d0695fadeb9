------------------------- MODULE TelegramConnector -------------------------
(***************************************************************************)
(* telegram/: bounded reads of one public channel.  A run takes its time,  *)
(* reads the latest checkpoint, fetches the newest messages of a window    *)
(* that reaches back of it, turns what changed into posts and edges, and   *)
(* commits posts, checkpoint and manifest at once.  The validation harness *)
(* then derives its candidates from the new posts in a second commit.      *)
(***************************************************************************)
EXTENDS CommandSessions, Sequences, FiniteSets

CONSTANTS
    Texts,          \* what a message may say
    RumorTexts,     \* the texts the live rules take for a rumor
    Limits,         \* the limits a run may be given
    MaxMessages     \* bound on the messages of the channel

ASSUME TelegramAssumption ==
    RumorTexts \subseteq Texts /\ Limits \subseteq Nat \ {0} /\ MaxMessages \in Nat

VARIABLES
    channel,        \* the channel: what its messages say now
    posts,          \* social_posts of the channel, with their receipts
    edges,          \* social_propagation
    checkpoints,    \* telegram_checkpoints
    runs,           \* telegram_runs
    rumors          \* rumor_claims of the live rules

telegramVars == <<channel, posts, edges, checkpoints, runs, rumors>>

MessageId == 1..MaxMessages
Message == [id: MessageId, text: Texts, posted: Time, gone: BOOLEAN, origin: 0..MaxMessages]
PostKey == [id: MessageId, text: Texts, at: Time, deleted: BOOLEAN]
NoPost == [id |-> 0]
Post == [key: PostKey, revises: PostKey \cup {NoPost}]
Edge == [from: PostKey, to: PostKey, relation: {"forwarded_from", "likely_copy_of"}]
\* owed: the messages that the run which left it answers for.
Checkpoint == [last: MessageId, at: Time, owed: SUBSET MessageId]
RunStatus == {"succeeded", "failed"}
Rumor == [origin: PostKey, at: Time]

TelegramInit ==
    /\ channel = <<>>
    /\ posts = {} /\ edges = {} /\ checkpoints = {} /\ runs = {} /\ rumors = {}

\* The channel goes on meanwhile: messages are posted, edited and removed.
ChannelPosts ==
    \E t \in Texts, f \in {0} \cup DOMAIN channel :
        /\ Len(channel) < MaxMessages
        /\ channel' = Append(channel, [id |-> Len(channel) + 1, text |-> t, posted |-> now,
                                       gone |-> FALSE, origin |-> f])
        /\ UNCHANGED <<sessionVars, posts, edges, checkpoints, runs, rumors>>

ChannelChanges ==
    \E i \in DOMAIN channel, t \in Texts, gone \in BOOLEAN :
        /\ ~channel[i].gone /\ (gone \/ t # channel[i].text)
        /\ channel' = [channel EXCEPT ![i].text = t, ![i].gone = gone]
        /\ UNCHANGED <<sessionVars, posts, edges, checkpoints, runs, rumors>>

LatestCheckpoint == {c \in checkpoints : \A d \in checkpoints : d.at <= c.at}

\* run: the time is the command's, taken before the checkpoint is read.  A run asks for
\* at most so many messages, none posted before since (0 where it is no backfill), from
\* the checkpoint on (0 where there is none).
BeginTelegram(o) ==
    \E l \in Limits, s \in 0..now, a \in {0} \cup {c.last : c \in LatestCheckpoint} :
        /\ a = 0 <=> checkpoints = {}
        /\ Begin(o, [pc |-> "fetching", at |-> now, tries |-> 1,
                     asked |-> [limit |-> l, since |-> s, after |-> a]])
        /\ UNCHANGED telegramVars

\* The adapter reads the newest messages above a minimum that lies one limit below
\* the checkpoint, and leaves out of them what is too old.
Window(asked) ==
    LET above == {i \in DOMAIN channel : ~channel[i].gone /\ i > asked.after - asked.limit}
    IN  {i \in above : /\ Cardinality({j \in above : j >= i}) <= asked.limit
                       /\ channel[i].posted >= asked.since}

NewestFirst(S) ==
    [k \in 1..Cardinality(S) |->
        channel[CHOOSE i \in S : Cardinality({j \in S : j > i}) = k - 1]]

\* Of the last limit messages up to the newest of a batch, those that can be read: above
\* the minimum, not too old, and there.
Owed(asked, batch) ==
    {i \in DOMAIN channel :
        /\ batch # <<>> /\ i <= batch[1].id /\ i > batch[1].id - asked.limit
        /\ i > asked.after - asked.limit
        /\ channel[i].posted >= asked.since /\ ~channel[i].gone}

\* What is gone does not come back; another client may tell of it.
FetchAnswers(o) ==
    /\ At(o, "fetching")
    /\ \E told \in SUBSET {i \in DOMAIN channel : channel[i].gone} :
          LET batch == NewestFirst(Window(job[o].asked) \cup told)
          IN  Learn(o, [pc |-> "fetched", at |-> job[o].at, batch |-> batch,
                        owed |-> Owed(job[o].asked, batch)])
    /\ UNCHANGED telegramVars

\* A rate limit: the process sleeps, and asks again, twice at most.
RateLimited(o) ==
    /\ At(o, "fetching") /\ job[o].tries < 3
    /\ Learn(o, [job[o] EXCEPT !.tries = @ + 1])
    /\ UNCHANGED telegramVars

\* The third rate limit, or an error of the client, is recorded as a failure.
FetchFails(o) ==
    /\ At(o, "fetching")
    /\ runs' = runs \cup {[at |-> job[o].at, status |-> "failed"]}
    /\ Finish(o)
    /\ UNCHANGED <<channel, posts, edges, checkpoints, rumors>>

\* Variant: the previous post is that of any message.
PreviousOfAny(known, m) ==
    LET of == {p.key : p \in known}
    IN  {k \in of : \A q \in of : q.at <= k.at}

\* The previous post of a message, the one observed last.
Previous(known, m) ==
    LET of == {p.key : p \in {q \in known : q.key.id = m.id}}
    IN  {k \in of : \A q \in of : q.at <= k.at}

\* Variant: only the text is compared.
UnchangedText(known, m) == \E k \in Previous(known, m) : m.gone \/ k.text = m.text

\* A message that says what its previous post says is a duplicate; a removed
\* message keeps the text of its post.
Unchanged(known, m) ==
    \E k \in Previous(known, m) : (m.gone \/ k.text = m.text) /\ k.deleted = m.gone

PostOf(known, m, at) ==
    LET before == Previous(known, m)
        prev == IF before = {} THEN NoPost ELSE CHOOSE k \in before : TRUE
    IN  [key |-> [id |-> m.id, at |-> at, deleted |-> m.gone,
                  text |-> IF m.gone /\ before # {} THEN prev.text ELSE m.text],
         revises |-> prev]

\* Timestamps in the future of the run, or a revision that is not later than
\* what it revises, raise.
Acceptable(known, m, at) ==
    /\ m.posted <= at
    /\ Unchanged(known, m) \/ \A k \in Previous(known, m) : k.at < at

\* The posts known after the first k messages of a batch.
KnownAfter(batch, at) ==
    LET Known[k \in 0..Len(batch)] ==
            IF k = 0 THEN posts
            ELSE IF Unchanged(Known[k - 1], batch[k]) THEN Known[k - 1]
            ELSE Known[k - 1] \cup {PostOf(Known[k - 1], batch[k], at)}
    IN  Known

\* The edges a new post brings: to an earlier post of the same text, to the post
\* it revises, and to the post of its origin.
EdgesOf(known, m, p) ==
    LET Link(k, r) == [from |-> k, to |-> p.key, relation |-> r]
        same == {q.key : q \in {r \in known : r.key # p.key /\ r.key.text = p.key.text
                                               /\ r.key.at <= p.key.at}}
        first == {k \in same : \A q \in same : k.at <= q.at}
        origins == {k \in {q.key : q \in known} : k.id = m.origin}
    IN  {Link(k, "likely_copy_of") :
            k \in IF p.revises = NoPost /\ m.origin = 0 /\ first # {}
                  THEN {CHOOSE k \in first : TRUE} ELSE {}}
        \cup {Link(p.revises, IF m.origin # 0 THEN "forwarded_from" ELSE "likely_copy_of") :
                 x \in IF p.revises # NoPost /\ ~m.gone THEN {1} ELSE {}}
        \cup {Link(k, "forwarded_from") :
                 k \in {k \in origins : m.origin # 0 /\ k # p.key
                                          /\ \A q \in origins : q.at <= k.at}}

\* The loop over the messages: all of its queries, and the rows it adds.
Normalize(o) ==
    LET batch == job[o].batch
        Known == KnownAfter(batch, job[o].at)
        new == Known[Len(batch)] \ posts
        NewEdges(k) == UNION {EdgesOf(Known[k - 1], batch[k], p) : p \in Known[k] \ Known[k - 1]}
    IN  /\ At(o, "fetched")
        /\ \A k \in DOMAIN batch : Acceptable(Known[k - 1], batch[k], job[o].at)
        /\ Learn(o, [pc |-> "collected", at |-> job[o].at, owed |-> job[o].owed,
                     batch |-> batch, new |-> new,
                     edges |-> UNION {NewEdges(k) : k \in DOMAIN batch}])
        /\ UNCHANGED telegramVars

\* The exception leaves run: everything is rolled back, the manifest too.
NormalizeRaises(o) ==
    LET batch == job[o].batch
        Known == KnownAfter(batch, job[o].at)
    IN  /\ At(o, "fetched")
        /\ \E k \in DOMAIN batch : ~Acceptable(Known[k - 1], batch[k], job[o].at)
        /\ Learn(o, [pc |-> "raised"])
        /\ UNCHANGED telegramVars

\* A row with the same content was committed meanwhile: a post, or the checkpoint.
Taken(j) ==
    \/ j.new \cap posts # {}
    \/ j.batch # <<>> /\ \E c \in checkpoints : c.last = j.batch[1].id /\ c.at = j.at

\* The commit: posts, edges, the checkpoint and the manifest.
CommitTelegram(o) ==
    LET j == job[o]
    IN  /\ At(o, "collected") /\ ~Taken(j)
        /\ posts' = posts \cup j.new
        /\ edges' = edges \cup j.edges
        /\ checkpoints' = checkpoints \cup
               (IF j.batch = <<>> THEN {}
                ELSE {[last |-> j.batch[1].id, at |-> j.at, owed |-> j.owed]})
        /\ runs' = runs \cup {[at |-> j.at, status |-> "succeeded"]}
        /\ Learn(o, [pc |-> "validating", new |-> {p.key : p \in j.new}])
        /\ UNCHANGED <<channel, rumors>>

CommitRefused(o) ==
    /\ At(o, "collected") /\ Taken(job[o])
    /\ Learn(o, [pc |-> "raised"])
    /\ UNCHANGED telegramVars

RumorOf(k) == [origin |-> k, at |-> k.at]

\* The live harness: unreviewed candidates of the new posts it can still see.
DeriveCandidates(o) ==
    /\ At(o, "validating")
    /\ LET visible == {k \in job[o].new : \A p \in posts : p.revises # k}
       IN  rumors' = rumors \cup {RumorOf(k) : k \in {q \in visible : q.text \in RumorTexts}}
    /\ Finish(o)
    /\ UNCHANGED <<channel, posts, edges, checkpoints, runs>>

\* The command ends: after a run of its own, or with the exception.
EndTelegram(o) ==
    /\ At(o, "validating") \/ At(o, "raised")
    /\ Finish(o)
    /\ UNCHANGED telegramVars

TelegramNext(o) ==
    \/ Free(o) /\ BeginTelegram(o)
    \/ FetchAnswers(o) \/ RateLimited(o) \/ FetchFails(o) \/ Normalize(o)
    \/ NormalizeRaises(o) \/ CommitTelegram(o) \/ CommitRefused(o)
    \/ DeriveCandidates(o) \/ EndTelegram(o)

TelegramTypeOK ==
    /\ channel \in Seq(Message)
    /\ posts \subseteq Post /\ edges \subseteq Edge
    /\ checkpoints \subseteq Checkpoint
    /\ runs \subseteq [at: Time, status: RunStatus]
    /\ rumors \subseteq Rumor

\* client.py: a bounded recent window is read again, so that a run resumes without an
\* unbounded crawl.  Whatever runs race, fail or die, of the last limit messages that a
\* checkpoint has passed, those that its run could read (above its own minimum, not too
\* old for it, and there when it asked) are in the posts.
CheckpointCoversWindow ==
    \A c \in checkpoints : \A i \in c.owed : \E p \in posts : p.key.id = i

\* The newest post of a message says what the message says.
SaysWhat(m, known) ==
    LET of == {p.key : p \in {q \in known : q.key.id = m.id}}
    IN  \E p \in of : /\ \A q \in of : q.at <= p.at
                      /\ p.deleted = m.gone
                      /\ m.gone \/ p.text = m.text

\* docs/telegram-connector.md: edits and observed deletions append records.  Once
\* a batch is normalized, the newest post of each of its messages says what the
\* message says, however often it was edited to and fro.
NewestPostIsCurrent ==
    [][\A o \in Operators : At(o, "fetched") /\ job'[o].pc = "collected" =>
          \A k \in DOMAIN job[o].batch :
              SaysWhat(job[o].batch[k], posts \cup job'[o].new)]_<<sessionVars, telegramVars>>

=============================================================================
