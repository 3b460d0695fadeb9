----------------------------- MODULE EvidenceProofs -----------------------------
(***************************************************************************)
(* Safety of how evidence is collected, related and read: the statuses of  *)
(* government actions, the items of the news, the reputations of fused     *)
(* claims, the versions that a reader of a cutoff is shown, the vintages   *)
(* of the archive, the posts of a channel, and the traces of the graph;    *)
(* last, the types of everything these components keep.                    *)
(***************************************************************************)
EXTENDS EvidenceDesk, CommandSessionsProofs, FiniteSetTheorems

\* The processes of any part begin idle.
LEMMA DeskStarts ==
    ASSUME Init
    PROVE  SessionsOK /\ \A o \in Operators : job[o] = Idle
<1>1. /\ SessionsInit(MaxCommands - CommandsOf[part])
      /\ MaxCommands - CommandsOf[part] \in Int
      /\ MaxCommands - CommandsOf[part] <= MaxCommands
  BY DeskAssumption, SessionsAssumption DEF Init
<1>2. QED
  BY <1>1, SessionsStart

-----------------------------------------------------------------------------
(* Statuses of government actions.                                         *)

\* A transition along the graph, with its evidence and the transition it goes on from.
Reached(t) ==
    /\ t.from \in DOMAIN Follow /\ t.to \in Follow[t.from]
    /\ t.notice \in DOMAIN notices /\ notices[t.notice] <= t.at
    /\ t.from # "none" => \E u \in transitions : u.action = t.action /\ u.to = t.from /\ u.at <= t.at

\* A version of an action, after the one that it supersedes.
Versioned(a) ==
    a.supersedes # 0 => \E b \in actions : b.id = a.supersedes /\ a.version = b.version + 1

GovernmentRows ==
    /\ \A t \in transitions : Reached(t)
    /\ \A a \in actions : Versioned(a) /\ \E t \in transitions : t.action = a.id /\ t.at = a.at

GovernmentJob(j) ==
    /\ j.pc = "policy_action" =>
          Versioned(j.row) /\ Reached(j.first) /\ j.first.action = j.row.id /\ j.first.at = j.row.at
    /\ j.pc = "policy_transition" => Reached(j.row)

GovernmentInv ==
    /\ part = "government" => SessionsOK /\ \A o \in Operators : GovernmentJob(job[o])
    /\ GovernmentRows

LEMMA GovernmentPart ==
    ASSUME [Next]_vars
    PROVE  /\ part' = part
           /\ part # "government" => UNCHANGED governmentVars
           /\ part = "government" =>
                 \/ \E o \in Operators : GovernmentNext(o)
                 \/ NoticeArrives /\ UNCHANGED sessionVars
                 \/ (\E o \in Operators : Dies(o)) /\ UNCHANGED governmentVars
                 \/ Tick /\ UNCHANGED governmentVars
                 \/ UNCHANGED <<sessionVars, governmentVars>>
BY DEF Next, vars, Telegram, Collects, Interprets, Arrival, Outside, collectedVars, interpretedVars

\* Nothing that was recorded goes away.
GovernmentGrows ==
    /\ actions \subseteq actions' /\ transitions \subseteq transitions'
    /\ \A n \in DOMAIN notices : n \in DOMAIN notices' /\ notices'[n] = notices[n]

LEMMA ReachedStays ==
    ASSUME GovernmentGrows, NEW t, Reached(t)
    PROVE  Reached(t)'
BY DEF GovernmentGrows, Reached

LEMMA VersionedStays ==
    ASSUME GovernmentGrows, NEW a, Versioned(a)
    PROVE  Versioned(a)'
BY DEF GovernmentGrows, Versioned

LEMMA GovernmentJobStays ==
    ASSUME GovernmentGrows, NEW j, GovernmentJob(j)
    PROVE  GovernmentJob(j)'
<1>1. PICK row, first : row = j.row /\ first = j.first
  OBVIOUS
<1>2. j.pc = "policy_action" => Versioned(row) /\ Reached(first) /\ first.action = row.id /\ first.at = row.at
  BY <1>1 DEF GovernmentJob
<1>3. j.pc = "policy_action" => Versioned(row)' /\ Reached(first)'
  BY <1>2, ReachedStays, VersionedStays
<1>4. j.pc = "policy_transition" => Reached(row)'
  BY <1>1, ReachedStays DEF GovernmentJob
<1>5. QED
  BY <1>1, <1>2, <1>3, <1>4 DEF GovernmentJob

\* What a step may add.
GovernmentAdds ==
    /\ \A t \in transitions' : t \in transitions \/ Reached(t)
    /\ \A a \in actions' : \/ a \in actions
                           \/ Versioned(a) /\ \E t \in transitions' : t.action = a.id /\ t.at = a.at

LEMMA GovernmentStep ==
    ASSUME GovernmentInv, part = "government", part' = part, SessionsOK', GovernmentGrows, GovernmentAdds,
           NEW o \in Operators, NEW j, GovernmentJob(j), job'[o] = j,
           \A q \in Operators : q # o => job'[q] = job[q]
    PROVE  GovernmentInv'
<1>1. \A q \in Operators : GovernmentJob(job[q])'
  <2> TAKE q \in Operators
  <2>1. PICK k : k = job'[q] /\ GovernmentJob(k)
    BY DEF GovernmentInv
  <2>2. GovernmentJob(k)'
    BY <2>1, GovernmentJobStays
  <2>3. QED
    BY <2>1, <2>2
<1>2. \A t \in transitions' : Reached(t)'
  BY ReachedStays DEF GovernmentInv, GovernmentRows, GovernmentAdds
<1>3. \A a \in actions' : Versioned(a)' /\ \E t \in transitions' : t.action = a.id /\ t.at = a.at
  <2> TAKE a \in actions'
  <2>1. Versioned(a) /\ \E t \in transitions' : t.action = a.id /\ t.at = a.at
    BY DEF GovernmentInv, GovernmentRows, GovernmentAdds, GovernmentGrows
  <2>2. QED
    BY <2>1, VersionedStays
<1>4. QED
  BY <1>1, <1>2, <1>3 DEF GovernmentInv, GovernmentRows

\* A step that leaves every row as it was, and what the process then knows.
LEMMA GovernmentLearns ==
    ASSUME GovernmentInv, part = "government", part' = part, SessionsOK', UNCHANGED governmentVars,
           NEW o \in Operators, NEW j, GovernmentJob(j), job'[o] = j,
           \A q \in Operators : q # o => job'[q] = job[q]
    PROVE  GovernmentInv'
<1>1. GovernmentGrows /\ GovernmentAdds
  BY DEF GovernmentGrows, GovernmentAdds, governmentVars
<1>2. QED
  BY <1>1, GovernmentStep

LEMMA IdleGovernmentJob == GovernmentJob(Idle)
BY DEF GovernmentJob, Idle

LEMMA GovernmentEnds ==
    ASSUME GovernmentInv, part = "government", part' = part, NEW o \in Operators, Finish(o),
           GovernmentGrows, GovernmentAdds
    PROVE  GovernmentInv'
BY IdleGovernmentJob, OneFinishes, GovernmentStep DEF GovernmentInv

LEMMA GovernmentBegins ==
    ASSUME GovernmentInv, part = "government", part' = part, UNCHANGED governmentVars,
           NEW o \in Operators, NEW j, GovernmentJob(j), Begin(o, j)
    PROVE  GovernmentInv'
BY OneBegins, GovernmentLearns DEF GovernmentInv

LEMMA AddActionKeeps ==
    ASSUME GovernmentInv, part = "government", part' = part, NEW o \in Operators, AddAction(o)
    PROVE  GovernmentInv'
<1>1. PICK status, notice, at, prior, id, version :
          /\ status \in Follow["none"] /\ prior \in {0} \cup {a.id : a \in actions}
          /\ Supported(notice, at)
          /\ version = IF prior = 0 THEN 1 ELSE (CHOOSE a \in actions : a.id = prior).version + 1
          /\ Begin(o, [pc |-> "policy_action",
                       row |-> [id |-> id, status |-> status, at |-> at, notice |-> notice,
                                version |-> version, supersedes |-> prior],
                       first |-> TransitionRow(id, "none", status, at, notice)])
  BY DEF AddAction
<1>2. PICK row, first : /\ row = [id |-> id, status |-> status, at |-> at, notice |-> notice,
                                  version |-> version, supersedes |-> prior]
                        /\ first = TransitionRow(id, "none", status, at, notice)
  OBVIOUS
<1>3. prior # 0 => \E a \in actions : a.id = prior /\ version = a.version + 1
  BY <1>1
<1>4. Versioned(row)
  BY <1>2, <1>3 DEF Versioned
<1>5. Reached(first) /\ first.action = row.id /\ first.at = row.at
  BY <1>1, <1>2 DEF Reached, TransitionRow, Supported, Follow
<1>6. PICK j : j = [pc |-> "policy_action", row |-> row, first |-> first]
  OBVIOUS
<1>7. GovernmentJob(j) /\ Begin(o, j)
  BY <1>1, <1>2, <1>4, <1>5, <1>6 DEF GovernmentJob
<1>8. QED
  BY <1>7, GovernmentBegins DEF AddAction

LEMMA AddTransitionKeeps ==
    ASSUME GovernmentInv, part = "government", part' = part, NEW o \in Operators, AddTransition(o)
    PROVE  GovernmentInv'
<1>1. PICK a \in actions, notice \in Notices, at \in 0..now :
          /\ Supported(notice, at)
          /\ \E from \in CurrentStatus(a.id, at) : \E to \in Follow[from] :
                Begin(o, [pc |-> "policy_transition", row |-> TransitionRow(a.id, from, to, at, notice)])
  BY DEF AddTransition
<1>2. PICK from \in CurrentStatus(a.id, at) : \E to \in Follow[from] :
          Begin(o, [pc |-> "policy_transition", row |-> TransitionRow(a.id, from, to, at, notice)])
  BY <1>1
<1>3. PICK to \in Follow[from] :
          Begin(o, [pc |-> "policy_transition", row |-> TransitionRow(a.id, from, to, at, notice)])
  BY <1>2
<1>4. from = "none" \/ \E u \in transitions : u.action = a.id /\ u.to = from /\ u.at <= at
  BY <1>2 DEF CurrentStatus, LatestOf
<1>5. from \in DOMAIN Follow
  BY <1>4 DEF GovernmentInv, GovernmentRows, Reached, Follow
<1>6. PICK row : row = TransitionRow(a.id, from, to, at, notice)
  OBVIOUS
<1>7. Reached(row)
  BY <1>1, <1>3, <1>4, <1>5, <1>6 DEF Reached, TransitionRow, Supported
<1>8. PICK j : j = [pc |-> "policy_transition", row |-> row]
  OBVIOUS
<1>9. GovernmentJob(j) /\ Begin(o, j)
  BY <1>3, <1>6, <1>7, <1>8 DEF GovernmentJob
<1>10. QED
  BY <1>9, GovernmentBegins DEF AddTransition

LEMMA GovernmentNextKeeps ==
    ASSUME GovernmentInv, part = "government", part' = part, NEW o \in Operators, GovernmentNext(o)
    PROVE  GovernmentInv'
<1>1. GovernmentJob(job[o])
  BY DEF GovernmentInv
<1>2. CASE ExtractPending(o)
  <2>1. Begin(o, [pc |-> "policy_extract", rows |-> DOMAIN notices \ policies]) /\ UNCHANGED governmentVars
    BY <1>2 DEF ExtractPending
  <2>2. PICK j : j = [pc |-> "policy_extract", rows |-> DOMAIN notices \ policies]
    OBVIOUS
  <2>3. GovernmentJob(j)
    BY <2>2 DEF GovernmentJob
  <2>4. QED
    BY <2>1, <2>2, <2>3, GovernmentBegins
<1>3. CASE CommitAction(o)
  <2>1. /\ Versioned(job[o].row) /\ Reached(job[o].first)
        /\ job[o].first.action = job[o].row.id /\ job[o].first.at = job[o].row.at
    BY <1>1, <1>3 DEF CommitAction, At, GovernmentJob
  <2>2. Finish(o) /\ GovernmentGrows /\ GovernmentAdds
    BY <1>3, <2>1 DEF CommitAction, GovernmentGrows, GovernmentAdds
  <2>3. QED
    BY <2>2, GovernmentEnds
<1>4. CASE CommitTransition(o)
  <2>1. Reached(job[o].row)
    BY <1>1, <1>4 DEF CommitTransition, At, GovernmentJob
  <2>2. Finish(o) /\ GovernmentGrows /\ GovernmentAdds
    BY <1>4, <2>1 DEF CommitTransition, GovernmentGrows, GovernmentAdds
  <2>3. QED
    BY <2>2, GovernmentEnds
<1>5. CASE CommitPending(o)
  <2>1. Finish(o) /\ GovernmentGrows /\ GovernmentAdds
    BY <1>5 DEF CommitPending, GovernmentGrows, GovernmentAdds
  <2>2. QED
    BY <2>1, GovernmentEnds
<1>6. QED
  BY <1>2, <1>3, <1>4, <1>5, AddActionKeeps, AddTransitionKeeps DEF GovernmentNext

LEMMA GovernmentStarts == Init => GovernmentInv
<1> SUFFICES ASSUME Init PROVE GovernmentInv
  OBVIOUS
<1>1. GovernmentRows
  BY DEF Init, GovernmentInit, GovernmentRows
<1>2. QED
  BY <1>1, DeskStarts, IdleGovernmentJob DEF GovernmentInv

LEMMA GovernmentKept == GovernmentInv /\ [Next]_vars => GovernmentInv'
<1> SUFFICES ASSUME GovernmentInv, [Next]_vars PROVE GovernmentInv'
  OBVIOUS
<1>1. part' = part
  BY GovernmentPart
<1>2. ASSUME UNCHANGED governmentVars PROVE GovernmentRows' /\ GovernmentGrows
  BY <1>2 DEF GovernmentInv, GovernmentRows, Reached, Versioned, GovernmentGrows, governmentVars
<1>3. ASSUME GovernmentGrows, GovernmentAdds, UNCHANGED job, SessionsOK', part = "government" PROVE GovernmentInv'
  <2>1. CASE Operators = {}
    <3>1. \A t \in transitions' : Reached(t)'
      BY <1>3, ReachedStays DEF GovernmentInv, GovernmentRows, GovernmentAdds
    <3>2. \A a \in actions' : Versioned(a) /\ \E t \in transitions' : t.action = a.id /\ t.at = a.at
      BY <1>3 DEF GovernmentInv, GovernmentRows, GovernmentAdds, GovernmentGrows
    <3>3. QED
      BY <1>3, <2>1, <3>1, <3>2, VersionedStays DEF GovernmentInv, GovernmentRows
  <2>2. ASSUME NEW o \in Operators PROVE GovernmentInv'
    <3>1. PICK j : j = job[o]
      OBVIOUS
    <3>2. GovernmentJob(j) /\ job'[o] = j
      BY <1>3, <3>1 DEF GovernmentInv
    <3>3. QED
      BY <1>1, <1>3, <3>2, GovernmentStep
  <2>3. QED
    BY <2>1, <2>2
<1>4. CASE part # "government"
  BY <1>1, <1>2, <1>4, GovernmentPart DEF GovernmentInv
<1>5. CASE part = "government"
  <2>1. ASSUME NEW o \in Operators, Dies(o), UNCHANGED governmentVars PROVE GovernmentInv'
    BY <1>1, <1>5, <2>1, IdleGovernmentJob, OneFinishes, GovernmentLearns DEF Dies, GovernmentInv
  <2>2. ASSUME Tick \/ UNCHANGED sessionVars, UNCHANGED governmentVars PROVE GovernmentInv'
    <3>1. SessionsOK' /\ job' = job
      BY <1>5, <2>2, ClockTicks, NothingHappens DEF GovernmentInv
    <3>2. GovernmentGrows /\ GovernmentAdds
      BY <2>2 DEF GovernmentGrows, GovernmentAdds, governmentVars
    <3>3. QED
      BY <1>3, <1>5, <3>1, <3>2
  <2>3. ASSUME NoticeArrives, UNCHANGED sessionVars PROVE GovernmentInv'
    <3>1. SessionsOK' /\ job' = job
      BY <1>5, <2>3, NothingHappens DEF GovernmentInv
    <3>2. GovernmentGrows /\ GovernmentAdds
      BY <2>3 DEF NoticeArrives, GovernmentGrows, GovernmentAdds
    <3>3. QED
      BY <1>3, <1>5, <3>1, <3>2
  <2>4. QED
    BY <1>1, <1>5, <2>1, <2>2, <2>3, GovernmentNextKeeps, GovernmentPart
<1>6. QED
  BY <1>4, <1>5

\* Inductive: a process still to commit has checked its transition against rows that
\* stay, so that what other callers append in between takes nothing from it.
THEOREM GovernmentInductive == Spec => []GovernmentInv
BY GovernmentStarts, GovernmentKept, PTL DEF Spec

\* No status is its own successor, so a transition goes on from another one.
LEMMA NoStatusFollowsItself == \A s \in DOMAIN Follow : s \notin Follow[s]
BY DEF Follow

\* Late, out of order or at once: a status was reached along the graph from a status
\* that another transition had entered, with evidence, and every action of a cutoff has
\* a status and the version it supersedes (add_action, transition, current_status).
THEOREM StatusesAreAlwaysReached == Spec => []StatusesAreReached
<1>1. ASSUME GovernmentInv PROVE StatusesAreReached
  <2>1. ASSUME NEW t \in transitions
        PROVE  /\ t.to \in Follow[t.from] /\ notices[t.notice] <= t.at
               /\ t.from # "none" =>
                     \E u \in transitions \ {t} : u.action = t.action /\ u.to = t.from /\ u.at <= t.at
    <3>1. Reached(t)
      BY <1>1 DEF GovernmentInv, GovernmentRows
    <3>2. t.to # t.from
      BY <3>1, NoStatusFollowsItself DEF Reached
    <3>3. QED
      BY <3>1, <3>2 DEF Reached
  <2>2. ASSUME NEW cutoff \in Time, NEW a \in ActionsVisibleAt(cutoff)
        PROVE  /\ \E t \in transitions : t.action = a.id /\ t.at <= cutoff
               /\ a.supersedes # 0 =>
                     \E b \in actions : b.id = a.supersedes /\ a.version = b.version + 1
    BY <1>1, <2>2 DEF ActionsVisibleAt, GovernmentInv, GovernmentRows, Versioned
  <2>3. QED
    BY <2>1, <2>2 DEF StatusesAreReached
<1>2. QED
  BY <1>1, GovernmentInductive, PTL

-----------------------------------------------------------------------------
(* A run of the news or of the connector and a report of events are known  *)
(* by where their process stands; those of other parts never stand there.  *)

Awaited == {"news_entry", "geo_report", "fetched"}
Elsewhere(j, pc) == "pc" \in DOMAIN j /\ j.pc # pc
MovesElsewhere(o, pc) == \E j : Elsewhere(j, pc) /\ job' = [job EXCEPT ![o] = j]

LEMMA TellsElsewhere ==
    ASSUME NEW pc, NEW o, NEW j, Begin(o, j) \/ Learn(o, j), Elsewhere(j, pc)
    PROVE  MovesElsewhere(o, pc)
BY DEF Begin, Learn, MovesElsewhere

LEMMA IdleElsewhere == \A pc \in Awaited : Elsewhere(Idle, pc)
BY DEF Elsewhere, Idle, Awaited

LEMMA EndsElsewhere ==
    ASSUME NEW pc \in Awaited, NEW o, Finish(o)
    PROVE  MovesElsewhere(o, pc)
BY IdleElsewhere, TellsElsewhere DEF Finish

LEMMA ProceedsElsewhere ==
    ASSUME NEW pc, NEW o, Elsewhere(job[o], pc), NEW at, at # pc, Proceed(o, at)
    PROVE  MovesElsewhere(o, pc)
<1>1. PICK k : k = job[o]
  OBVIOUS
<1>2. "pc" \in DOMAIN k
  BY <1>1 DEF Elsewhere
<1>3. [k EXCEPT !.pc = at].pc = at
  BY <1>2
<1>4. DOMAIN [k EXCEPT !.pc = at] = DOMAIN k
  OBVIOUS
<1>5. PICK l : l = [k EXCEPT !.pc = at]
  OBVIOUS
<1>6. Elsewhere(l, pc)
  BY <1>2, <1>3, <1>4, <1>5 DEF Elsewhere
<1>7. Learn(o, l)
  BY <1>1, <1>5 DEF Proceed
<1>8. QED
  BY <1>6, <1>7, TellsElsewhere

LEMMA TelegramMovesElsewhere ==
    ASSUME NEW pc \in Awaited, pc # "fetched", NEW o \in Operators, Elsewhere(job[o], pc), TelegramNext(o)
    PROVE  MovesElsewhere(o, pc)
<1>1. CASE BeginTelegram(o)
  BY <1>1, TellsElsewhere DEF BeginTelegram, Elsewhere, Awaited
<1>2. CASE FetchAnswers(o)
  <2>1. PICK at, batch, owed : Learn(o, [pc |-> "fetched", at |-> at, batch |-> batch, owed |-> owed])
    BY <1>2 DEF FetchAnswers
  <2>2. PICK j : j = [pc |-> "fetched", at |-> at, batch |-> batch, owed |-> owed]
    OBVIOUS
  <2>3. Elsewhere(j, pc)
    BY <2>2 DEF Elsewhere, Awaited
  <2>4. QED
    BY <2>1, <2>2, <2>3, TellsElsewhere
<1>3. CASE RateLimited(o)
  BY <1>3, TellsElsewhere DEF RateLimited, Elsewhere, Awaited
<1>4. CASE FetchFails(o)
  BY <1>4, EndsElsewhere DEF FetchFails, Elsewhere, Awaited
<1>5. CASE Normalize(o)
  <2>1. PICK at, owed, batch, new, links : Learn(o, [pc |-> "collected", at |-> at, owed |-> owed, batch |-> batch, new |-> new, edges |-> links])
    BY <1>5 DEF Normalize
  <2>2. PICK j : j = [pc |-> "collected", at |-> at, owed |-> owed, batch |-> batch, new |-> new, edges |-> links]
    OBVIOUS
  <2>3. Elsewhere(j, pc)
    BY <2>2 DEF Elsewhere, Awaited
  <2>4. QED
    BY <2>1, <2>2, <2>3, TellsElsewhere
<1>6. CASE NormalizeRaises(o)
  BY <1>6, TellsElsewhere DEF NormalizeRaises, Elsewhere, Awaited
<1>7. CASE CommitTelegram(o)
  <2>1. PICK keys : Learn(o, [pc |-> "validating", new |-> keys])
    BY <1>7 DEF CommitTelegram
  <2>2. PICK j : j = [pc |-> "validating", new |-> keys]
    OBVIOUS
  <2>3. Elsewhere(j, pc)
    BY <2>2 DEF Elsewhere, Awaited
  <2>4. QED
    BY <2>1, <2>2, <2>3, TellsElsewhere
<1>8. CASE CommitRefused(o)
  BY <1>8, TellsElsewhere DEF CommitRefused, Elsewhere, Awaited
<1>9. CASE DeriveCandidates(o)
  BY <1>9, EndsElsewhere DEF DeriveCandidates, Elsewhere, Awaited
<1>10. CASE EndTelegram(o)
  BY <1>10, EndsElsewhere DEF EndTelegram, Elsewhere, Awaited
<1>11. QED
  BY <1>1, <1>2, <1>3, <1>4, <1>5, <1>6, <1>7, <1>8, <1>9, <1>10 DEF TelegramNext

LEMMA ArchiveMovesElsewhere ==
    ASSUME NEW pc \in Awaited, NEW o \in Operators, Elsewhere(job[o], pc), ArchiveNext(o)
    PROVE  MovesElsewhere(o, pc)
<1>1. CASE BeginArchive(o)
  BY <1>1, TellsElsewhere DEF BeginArchive, Elsewhere, Awaited
<1>2. CASE ScheduleSkipped(o)
  BY <1>2, TellsElsewhere DEF ScheduleSkipped, Elsewhere, Awaited
<1>3. CASE BeginGap(o)
  BY <1>3, TellsElsewhere DEF BeginGap, Elsewhere, Awaited
<1>4. CASE AdapterAnswers(o)
  <2>1. PICK n, list : Learn(o, [pc |-> "archive_put", counts |-> NoneCounted, snapshots |-> n, todo |-> list])
    BY <1>4 DEF AdapterAnswers
  <2>2. PICK j : j = [pc |-> "archive_put", counts |-> NoneCounted, snapshots |-> n, todo |-> list]
    OBVIOUS
  <2>3. Elsewhere(j, pc)
    BY <2>2 DEF Elsewhere, Awaited
  <2>4. QED
    BY <2>1, <2>2, <2>3, TellsElsewhere
<1>5. CASE PutPayload(o)
  BY <1>5, ProceedsElsewhere DEF PutPayload, Elsewhere, Awaited
<1>6. CASE CommitPayload(o)
  <2>1. PICK k, j : k = job[o] /\ Learn(o, j) /\ j = [k EXCEPT !.pc = "archive_put", !.todo = Tail(@), !.counts.inserted = @ + 1]
    BY <1>6 DEF CommitPayload
  <2>2. "pc" \in DOMAIN k
    BY <2>1 DEF Elsewhere
  <2>3. Elsewhere(j, pc)
    BY <2>1, <2>2 DEF Elsewhere, Awaited
  <2>4. QED
    BY <2>1, <2>3, TellsElsewhere
<1>7. CASE FindDuplicate(o)
  <2>1. PICK k, j : k = job[o] /\ Learn(o, j) /\ j = [k EXCEPT !.pc = "archive_put", !.todo = Tail(@), !.counts.duplicates = @ + 1]
    BY <1>7 DEF FindDuplicate
  <2>2. "pc" \in DOMAIN k
    BY <2>1 DEF Elsewhere
  <2>3. Elsewhere(j, pc)
    BY <2>1, <2>2 DEF Elsewhere, Awaited
  <2>4. QED
    BY <2>1, <2>3, TellsElsewhere
<1>8. CASE ArchiveFails(o)
  BY <1>8, TellsElsewhere DEF ArchiveFails, Elsewhere, Awaited
<1>9. CASE ArchiveEnds(o)
  <2>1. PICK n, counted : Learn(o, [pc |-> "archive_record", status |-> "succeeded", snapshots |-> n, counts |-> counted])
    BY <1>9 DEF ArchiveEnds
  <2>2. PICK j : j = [pc |-> "archive_record", status |-> "succeeded", snapshots |-> n, counts |-> counted]
    OBVIOUS
  <2>3. Elsewhere(j, pc)
    BY <2>2 DEF Elsewhere, Awaited
  <2>4. QED
    BY <2>1, <2>2, <2>3, TellsElsewhere
<1>10. CASE ArchiveRaises(o)
  BY <1>10, EndsElsewhere DEF ArchiveRaises, Elsewhere, Awaited
<1>11. CASE RecordArchiveRun(o)
  BY <1>11, EndsElsewhere DEF RecordArchiveRun, Elsewhere, Awaited
<1>12. CASE RecordGap(o)
  BY <1>12, EndsElsewhere DEF RecordGap, Elsewhere, Awaited
<1>13. QED
  BY <1>1, <1>2, <1>3, <1>4, <1>5, <1>6, <1>7, <1>8, <1>9, <1>10, <1>11, <1>12 DEF ArchiveNext

LEMMA GraphMovesElsewhere ==
    ASSUME NEW pc \in Awaited, NEW o \in Operators, Elsewhere(job[o], pc), GraphNext(o)
    PROVE  MovesElsewhere(o, pc)
<1>1. CASE BeginSeed(o)
  BY <1>1, TellsElsewhere DEF BeginSeed, Elsewhere, Awaited
<1>2. CASE BeginRelation(o)
  BY <1>2, TellsElsewhere DEF BeginRelation, Elsewhere, Awaited
<1>3. CASE CommitSeed(o)
  BY <1>3, EndsElsewhere DEF CommitSeed, Elsewhere, Awaited
<1>4. CASE CommitRelation(o)
  BY <1>4, EndsElsewhere DEF CommitRelation, Elsewhere, Awaited
<1>5. QED
  BY <1>1, <1>2, <1>3, <1>4 DEF GraphNext

LEMMA FusionMovesElsewhere ==
    ASSUME NEW pc \in Awaited, NEW o \in Operators, Elsewhere(job[o], pc), FusionNext(o)
    PROVE  MovesElsewhere(o, pc)
<1>1. CASE AddClaim(o)
  BY <1>1, TellsElsewhere DEF AddClaim, Adds, Elsewhere, Awaited
<1>2. CASE AddLineage(o)
  BY <1>2, TellsElsewhere DEF AddLineage, Adds, Elsewhere, Awaited
<1>3. CASE AddCorroboration(o)
  BY <1>3, TellsElsewhere DEF AddCorroboration, Adds, Elsewhere, Awaited
<1>4. CASE AddResolution(o)
  BY <1>4, TellsElsewhere DEF AddResolution, Adds, Elsewhere, Awaited
<1>5. CASE AddDispute(o)
  BY <1>5, TellsElsewhere DEF AddDispute, Adds, Elsewhere, Awaited
<1>6. CASE AddScore(o)
  BY <1>6, TellsElsewhere DEF AddScore, Adds, Elsewhere, Awaited
<1>7. CASE BeginReputation(o)
  BY <1>7, TellsElsewhere DEF BeginReputation, Elsewhere, Awaited
<1>8. CASE CalculateReputation(o)
  <2>1. PICK r : Learn(o, [pc |-> "fusion_insert", table |-> "reputations", row |-> r])
    BY <1>8 DEF CalculateReputation
  <2>2. PICK j : j = [pc |-> "fusion_insert", table |-> "reputations", row |-> r]
    OBVIOUS
  <2>3. Elsewhere(j, pc)
    BY <2>2 DEF Elsewhere, Awaited
  <2>4. QED
    BY <2>1, <2>2, <2>3, TellsElsewhere
<1>9. CASE CommitFusion(o)
  BY <1>9, EndsElsewhere DEF CommitFusion, Elsewhere, Awaited
<1>10. QED
  BY <1>1, <1>2, <1>3, <1>4, <1>5, <1>6, <1>7, <1>8, <1>9 DEF FusionNext

LEMMA SocialMovesElsewhere ==
    ASSUME NEW pc \in Awaited, NEW o \in Operators, Elsewhere(job[o], pc), SocialNext(o)
    PROVE  MovesElsewhere(o, pc)
<1>1. CASE AddSource(o)
  BY <1>1, TellsElsewhere DEF AddSource, AddsSocial, Elsewhere, Awaited
<1>2. CASE AddPost(o)
  BY <1>2, TellsElsewhere DEF AddPost, AddsSocial, Elsewhere, Awaited
<1>3. CASE AddRumor(o)
  BY <1>3, TellsElsewhere DEF AddRumor, AddsSocial, Elsewhere, Awaited
<1>4. CASE AddNarrative(o)
  BY <1>4, TellsElsewhere DEF AddNarrative, AddsSocial, Elsewhere, Awaited
<1>5. CASE AddEdge(o)
  BY <1>5, TellsElsewhere DEF AddEdge, AddsSocial, Elsewhere, Awaited
<1>6. CASE AddCluster(o)
  BY <1>6, TellsElsewhere DEF AddCluster, AddsSocial, Elsewhere, Awaited
<1>7. CASE AddStanding(o)
  BY <1>7, TellsElsewhere DEF AddStanding, AddsSocial, Elsewhere, Awaited
<1>8. CASE CommitSocial(o)
  BY <1>8, EndsElsewhere DEF CommitSocial, Elsewhere, Awaited
<1>9. CASE SocialRefused(o)
  BY <1>9, EndsElsewhere DEF SocialRefused, Elsewhere, Awaited
<1>10. QED
  BY <1>1, <1>2, <1>3, <1>4, <1>5, <1>6, <1>7, <1>8, <1>9 DEF SocialNext

LEMMA GovernmentMovesElsewhere ==
    ASSUME NEW pc \in Awaited, NEW o \in Operators, Elsewhere(job[o], pc), GovernmentNext(o)
    PROVE  MovesElsewhere(o, pc)
<1>1. CASE AddAction(o)
  BY <1>1, TellsElsewhere DEF AddAction, Elsewhere, Awaited
<1>2. CASE AddTransition(o)
  BY <1>2, TellsElsewhere DEF AddTransition, Elsewhere, Awaited
<1>3. CASE ExtractPending(o)
  BY <1>3, TellsElsewhere DEF ExtractPending, Elsewhere, Awaited
<1>4. CASE CommitAction(o)
  BY <1>4, EndsElsewhere DEF CommitAction, Elsewhere, Awaited
<1>5. CASE CommitTransition(o)
  BY <1>5, EndsElsewhere DEF CommitTransition, Elsewhere, Awaited
<1>6. CASE CommitPending(o)
  BY <1>6, EndsElsewhere DEF CommitPending, Elsewhere, Awaited
<1>7. QED
  BY <1>1, <1>2, <1>3, <1>4, <1>5, <1>6 DEF GovernmentNext

LEMMA NewsMovesElsewhere ==
    ASSUME NEW pc \in Awaited, pc # "news_entry", NEW o \in Operators, Elsewhere(job[o], pc), NewsNext(o)
    PROVE  MovesElsewhere(o, pc)
<1>1. CASE BeginNews(o)
  BY <1>1, TellsElsewhere DEF BeginNews, Elsewhere, Awaited
<1>2. CASE CommitRaw(o) \/ FindExact(o) \/ FindPrior(o)
  <2>1. PICK j : Learn(o, j) /\ ("pc" \in DOMAIN j /\ j.pc \in {"news_entry", "news_prior"})
    <3>1. CASE CommitRaw(o)
      BY <3>1 DEF CommitRaw
    <3>2. PICK k : k = job[o]
      OBVIOUS
    <3>3. "pc" \in DOMAIN k
      BY <3>2 DEF Elsewhere
    <3>4. CASE FindExact(o)
      <4>1. PICK l, m : l = [k EXCEPT !.next = @ + 1] /\ m = [k EXCEPT !.pc = "news_prior"]
        OBVIOUS
      <4>2. k.pc = "news_entry" /\ (Learn(o, l) \/ Learn(o, m))
        BY <3>2, <3>4, <4>1 DEF FindExact, At, Proceed
      <4>3. "pc" \in DOMAIN l /\ l.pc = "news_entry" /\ "pc" \in DOMAIN m /\ m.pc = "news_prior"
        BY <3>3, <4>1, <4>2
      <4>4. QED
        BY <4>2, <4>3
    <3>5. CASE FindPrior(o)
      <4>1. PICK prior : Learn(o, [k EXCEPT !.pc = "news_entry", !.next = @ + 1,
                                            !.rows = @ \cup {NewItem(k, prior)}])
        BY <3>2, <3>5 DEF FindPrior
      <4>2. PICK l : l = [k EXCEPT !.pc = "news_entry", !.next = @ + 1, !.rows = @ \cup {NewItem(k, prior)}]
        OBVIOUS
      <4>3. "pc" \in DOMAIN l /\ l.pc = "news_entry"
        BY <3>3, <4>2
      <4>4. QED
        BY <4>1, <4>2, <4>3
    <3>6. QED
      BY <1>2, <3>1, <3>4, <3>5
  <2>2. Elsewhere(j, pc)
    BY <2>1 DEF Elsewhere, Awaited
  <2>3. QED
    BY <2>1, <2>2, TellsElsewhere
<1>3. CASE RawRefused(o)
  BY <1>3, EndsElsewhere DEF RawRefused, Elsewhere, Awaited
<1>4. CASE CommitNews(o)
  BY <1>4, EndsElsewhere DEF CommitNews, Elsewhere, Awaited
<1>5. QED
  BY <1>1, <1>2, <1>3, <1>4 DEF NewsNext

LEMMA GeopoliticalMovesElsewhere ==
    ASSUME NEW pc \in Awaited, pc # "geo_report", NEW o \in Operators, Elsewhere(job[o], pc), GeopoliticalNext(o)
    PROVE  MovesElsewhere(o, pc)
<1>1. CASE ExtractCandidate(o)
  BY <1>1, TellsElsewhere DEF ExtractCandidate, AddsGeo, Elsewhere, Awaited
<1>2. CASE ReviewCandidate(o)
  BY <1>2, TellsElsewhere DEF ReviewCandidate, AddsGeo, Elsewhere, Awaited
<1>3. CASE AddEvent(o)
  BY <1>3, TellsElsewhere DEF AddEvent, AddsGeo, Elsewhere, Awaited
<1>4. CASE AddPath(o)
  BY <1>4, TellsElsewhere DEF AddPath, AddsGeo, Elsewhere, Awaited
<1>5. CASE AddResponse(o)
  BY <1>5, TellsElsewhere DEF AddResponse, AddsGeo, Elsewhere, Awaited
<1>6. CASE BeginReport(o)
  BY <1>6, TellsElsewhere DEF BeginReport, Elsewhere, Awaited
<1>7. CASE CommitGeopolitical(o)
  BY <1>7, EndsElsewhere DEF CommitGeopolitical, Elsewhere, Awaited
<1>8. CASE ReadPaths(o)
  BY <1>8, TellsElsewhere DEF ReadPaths, Elsewhere, Awaited
<1>9. CASE ReadResponses(o)
  BY <1>9, TellsElsewhere DEF ReadResponses, Elsewhere, Awaited
<1>10. CASE PrintReport(o)
  BY <1>10, EndsElsewhere DEF PrintReport, Elsewhere, Awaited
<1>11. QED
  BY <1>1, <1>2, <1>3, <1>4, <1>5, <1>6, <1>7, <1>8, <1>9, <1>10 DEF GeopoliticalNext

\* A step of a part whose processes never stand at pc.
LEMMA OthersMove ==
    ASSUME [Next]_vars, NEW pc \in Awaited, \A o \in Operators : Elsewhere(job[o], pc),
           pc = "news_entry" => part # "news", pc = "geo_report" => part # "geopolitical",
           pc = "fetched" => part # "telegram"
    PROVE  (\E o \in Operators : MovesElsewhere(o, pc)) \/ UNCHANGED job
<1>1. \/ \E o \in Operators : \/ ArchiveNext(o) \/ GraphNext(o) \/ FusionNext(o)
                              \/ SocialNext(o) \/ GovernmentNext(o) \/ Finish(o)
                              \/ part = "news" /\ NewsNext(o)
                              \/ part = "geopolitical" /\ GeopoliticalNext(o)
                              \/ part = "telegram" /\ TelegramNext(o)
      \/ UNCHANGED job
  BY DEF Next, vars, Telegram, Collects, Interprets, Arrival, Outside, Dies, Tick, sessionVars, ChannelPosts,
     ChannelChanges
<1>2. /\ part = "news" => pc # "news_entry"
      /\ part = "geopolitical" => pc # "geo_report"
      /\ part = "telegram" => pc # "fetched"
  OBVIOUS
<1>3. QED
  BY <1>1, <1>2, TelegramMovesElsewhere, ArchiveMovesElsewhere, GraphMovesElsewhere, FusionMovesElsewhere,
     SocialMovesElsewhere, GovernmentMovesElsewhere, NewsMovesElsewhere, GeopoliticalMovesElsewhere, EndsElsewhere

\* Whatever the other parts do, nobody stands at pc there.
AllElsewhere(pc) == job = [o \in Operators |-> job[o]] /\ \A o \in Operators : Elsewhere(job[o], pc)

LEMMA ElsewhereStays ==
    ASSUME [Next]_vars, NEW pc \in Awaited, AllElsewhere(pc),
           pc = "news_entry" => part # "news", pc = "geo_report" => part # "geopolitical",
           pc = "fetched" => part # "telegram"
    PROVE  AllElsewhere(pc)'
<1>1. CASE UNCHANGED job
  BY <1>1 DEF AllElsewhere
<1>2. CASE \E o \in Operators : MovesElsewhere(o, pc)
  BY <1>2 DEF AllElsewhere, MovesElsewhere
<1>3. QED
  BY <1>1, <1>2, OthersMove DEF AllElsewhere

-----------------------------------------------------------------------------
(* Items of the news.                                                      *)

\* A revision is of an item of the set, of the same URI.
Revised(i, set) == i.revises # NoItem => i.revises \in KeysOf(set) /\ i.revises.uri = i.key.uri

\* What a run has classified: each entry before the next is there or among its rows.
NewsBatch(payload, next, rows) ==
    /\ rows \subseteq Item /\ \A r \in rows : Revised(r, items \cup rows)
    /\ \A n \in 1..(next - 1) : Covers(items \cup rows, EntriesOf(payload)[n])

NewsRows == NewsTypeOK /\ \A i \in items : Revised(i, items)

Classifying(j, payload, at, next, rows) ==
    /\ j = [pc |-> j.pc, payload |-> payload, at |-> at, next |-> next, rows |-> rows]
    /\ payload \in Payload /\ at \in Time /\ next \in Nat \ {0}
    /\ j.pc = "news_prior" => next <= Len(EntriesOf(payload))
    /\ NewsBatch(payload, next, rows)

NewsJob(j) ==
    /\ j.pc = "news_raw" =>
          \E payload \in Payload, at \in Time, known \in BOOLEAN :
             j = [pc |-> "news_raw", payload |-> payload, at |-> at, known |-> known]
    /\ j.pc \in {"news_entry", "news_prior"} =>
          \E payload, at, next, rows : Classifying(j, payload, at, next, rows)

NewsInv ==
    /\ part = "news" => SessionsOK /\ \A o \in Operators : NewsJob(job[o])
    /\ part # "news" => AllElsewhere("news_entry")
    /\ NewsRows

LEMMA NewsPart ==
    ASSUME [Next]_vars
    PROVE  /\ part' = part
           /\ part # "news" => UNCHANGED newsVars
           /\ part = "news" =>
                 \/ \E o \in Operators : NewsNext(o)
                 \/ (\E o \in Operators : Dies(o)) /\ UNCHANGED newsVars
                 \/ Tick /\ UNCHANGED newsVars
                 \/ UNCHANGED <<sessionVars, newsVars>>
BY DEF Next, vars, Telegram, Collects, Interprets, Arrival, Outside, collectedVars, interpretedVars

LEMMA MoreItems ==
    ASSUME NEW set, NEW more, set \subseteq more
    PROVE  /\ \A entry : Covers(set, entry) => Covers(more, entry)
           /\ \A i : Revised(i, set) => Revised(i, more)
<1>1. KeysOf(set) \subseteq KeysOf(more)
  BY DEF KeysOf
<1>2. QED
  BY <1>1 DEF Covers, Revised

LEMMA NewsBatchStays ==
    ASSUME items \subseteq items', NEW payload, NEW next, NEW rows, NewsBatch(payload, next, rows)
    PROVE  NewsBatch(payload, next, rows)'
<1>1. items \cup rows \subseteq items' \cup rows
  OBVIOUS
<1>2. PICK set, more : set = items \cup rows /\ more = items' \cup rows
  OBVIOUS
<1>3. rows \subseteq Item /\ \A r \in rows : Revised(r, more)
  BY <1>1, <1>2, MoreItems DEF NewsBatch
<1>4. \A n \in 1..(next - 1) : Covers(more, EntriesOf(payload)[n])
  BY <1>1, <1>2, MoreItems DEF NewsBatch
<1>5. QED
  BY <1>2, <1>3, <1>4 DEF NewsBatch

LEMMA NewsJobStays ==
    ASSUME items \subseteq items', NEW j, NewsJob(j)
    PROVE  NewsJob(j)'
<1>1. ASSUME NEW payload, NEW at, NEW next, NEW rows, Classifying(j, payload, at, next, rows)
      PROVE  Classifying(j, payload, at, next, rows)'
  BY <1>1, NewsBatchStays DEF Classifying
<1>2. QED
  BY <1>1 DEF NewsJob

\* Items are only added.
LEMMA NewsStep ==
    ASSUME NewsInv, part = "news", part' = part, SessionsOK', items \subseteq items', NewsTypeOK',
           \A i \in items' : i \in items \/ Revised(i, items'),
           NEW o \in Operators, NEW j, NewsJob(j), job'[o] = j,
           \A q \in Operators : q # o => job'[q] = job[q]
    PROVE  NewsInv'
<1>1. \A q \in Operators : NewsJob(job[q])'
  <2> TAKE q \in Operators
  <2>1. PICK k : k = job'[q] /\ NewsJob(k)
    BY DEF NewsInv
  <2>2. NewsJob(k)'
    BY <2>1, NewsJobStays
  <2>3. QED
    BY <2>1, <2>2
<1>2. \A i \in items' : Revised(i, items')
  BY MoreItems DEF NewsInv, NewsRows
<1>3. NewsRows'
  BY <1>2 DEF NewsRows
<1>4. QED
  BY <1>1, <1>3 DEF NewsInv

LEMMA IdleNewsJob == NewsJob(Idle)
BY DEF NewsJob, Idle

\* A step that leaves the items as they were.
LEMMA NewsLearns ==
    ASSUME NewsInv, part = "news", part' = part, UNCHANGED <<items, candidates>>,
           NEW o \in Operators, NEW j, NewsJob(j), Begin(o, j) \/ Learn(o, j),
           receipts' \subseteq Payload
    PROVE  NewsInv'
<1>1. SessionsOK' /\ job'[o] = j /\ \A q \in Operators : q # o => job'[q] = job[q]
  BY OneBegins, OneLearns DEF NewsInv
<1>2. NewsTypeOK'
  BY DEF NewsInv, NewsRows, NewsTypeOK, ItemKeys
<1>3. QED
  BY <1>1, <1>2, NewsStep

\* What a run makes an item of has a URI, a content and a time.
LEMMA EntriesAreTyped ==
    ASSUME NEW payload \in Payload
    PROVE  /\ Len(EntriesOf(payload)) \in Nat
           /\ \A n \in 1..Len(EntriesOf(payload)) :
                 /\ EntriesOf(payload)[n].uri \in Links \cup {Endpoint}
                 /\ EntriesOf(payload)[n].content \in Stories \cup Malformed
<1>1. CASE payload \in Malformed
  <2>1. PICK entry : entry = [uri |-> Endpoint, content |-> payload, published |-> 0]
    OBVIOUS
  <2>2. EntriesOf(payload) = <<entry>> /\ entry.uri = Endpoint /\ entry.content = payload
    BY <1>1, <2>1 DEF EntriesOf
  <2>3. QED
    BY <1>1, <2>2
<1>2. CASE payload \notin Malformed
  <2>1. PICK n \in 1..MaxEntries : payload \in [1..n -> Entry]
    BY <1>2 DEF Payload, Feed
  <2>2. EntriesOf(payload) = payload /\ payload \in Seq(Entry)
    BY <1>2, <2>1, NewsAssumption DEF EntriesOf
  <2>3. Len(payload) \in Nat /\ \A m \in 1..Len(payload) : payload[m] \in Entry
    BY <2>2
  <2>4. \A entry \in Entry : entry.uri \in Links /\ entry.content \in Stories
    BY DEF Entry
  <2>5. QED
    BY <2>2, <2>3, <2>4
<1>3. QED
  BY <1>1, <1>2

LEMMA OneMore ==
    ASSUME NEW next \in Nat \ {0}, NEW then, then = next + 1
    PROVE  then \in Nat \ {0} /\ 1..(then - 1) = 1..(next - 1) \cup {next}
OBVIOUS

LEMMA FindExactKeeps ==
    ASSUME NewsInv, part = "news", part' = part, NEW o \in Operators, FindExact(o)
    PROVE  NewsInv'
<1>1. PICK k : k = job[o] /\ k.pc = "news_entry" /\ NewsJob(k)
  BY DEF NewsInv, FindExact, At
<1>2. PICK payload, at, next, rows : Classifying(k, payload, at, next, rows)
  BY <1>1 DEF NewsJob
<1>3. /\ k = [pc |-> "news_entry", payload |-> payload, at |-> at, next |-> next, rows |-> rows]
      /\ payload \in Payload /\ at \in Time /\ next \in Nat \ {0}
      /\ NewsBatch(payload, next, rows)
  BY <1>1, <1>2 DEF Classifying
<1>4. CASE Reingested(k) /\ Learn(o, [k EXCEPT !.next = @ + 1])
  <2>1. PICK then : then = next + 1
    OBVIOUS
  <2>2. PICK j : j = [pc |-> "news_entry", payload |-> payload, at |-> at, next |-> then, rows |-> rows]
    OBVIOUS
  <2>3. Learn(o, j)
    BY <1>3, <1>4, <2>1, <2>2
  <2>4. then \in Nat \ {0} /\ 1..(then - 1) = 1..(next - 1) \cup {next}
    BY <1>3, <2>1, OneMore
  <2>5. Covers(items \cup rows, EntriesOf(payload)[next])
    BY <1>3, <1>4 DEF Reingested
  <2>6. NewsBatch(payload, then, rows)
    BY <1>3, <2>4, <2>5 DEF NewsBatch
  <2>7. Classifying(j, payload, at, then, rows)
    BY <1>3, <2>2, <2>4, <2>6 DEF Classifying
  <2>8. NewsJob(j)
    BY <2>2, <2>7 DEF NewsJob
  <2>9. QED
    BY <2>3, <2>8, NewsLearns DEF FindExact, newsVars, NewsInv, NewsRows, NewsTypeOK
<1>5. CASE Proceed(o, "news_prior")
  <2>1. PICK j : j = [pc |-> "news_prior", payload |-> payload, at |-> at, next |-> next, rows |-> rows]
    OBVIOUS
  <2>2. Learn(o, j)
    BY <1>1, <1>3, <1>5, <2>1 DEF Proceed
  <2>3. next <= Len(EntriesOf(payload))
    BY <1>1, <1>3, EntriesAreTyped DEF FindExact, Classified
  <2>4. Classifying(j, payload, at, next, rows)
    BY <1>3, <2>1, <2>3 DEF Classifying
  <2>5. NewsJob(j)
    BY <2>1, <2>4 DEF NewsJob
  <2>6. QED
    BY <2>2, <2>5, NewsLearns DEF FindExact, newsVars, NewsInv, NewsRows, NewsTypeOK
<1>6. QED
  BY <1>1, <1>4, <1>5 DEF FindExact

\* Whatever was found, the new item is of the entry and revises what is there.
LEMMA FindPriorKeeps ==
    ASSUME NewsInv, part = "news", part' = part, NEW o \in Operators, FindPrior(o)
    PROVE  NewsInv'
<1>1. PICK k : k = job[o] /\ k.pc = "news_prior" /\ NewsJob(k)
  BY DEF NewsInv, FindPrior, At
<1>2. PICK payload, at, next, rows : Classifying(k, payload, at, next, rows)
  BY <1>1 DEF NewsJob
<1>3. /\ k = [pc |-> "news_prior", payload |-> payload, at |-> at, next |-> next, rows |-> rows]
      /\ payload \in Payload /\ at \in Time /\ next \in Nat \ {0} /\ next <= Len(EntriesOf(payload))
      /\ NewsBatch(payload, next, rows)
  BY <1>1, <1>2 DEF Classifying
<1>4. PICK prior : /\ prior = NoItem \/ prior \in PriorItems(k)
                   /\ Learn(o, [k EXCEPT !.pc = "news_entry", !.next = @ + 1,
                                         !.rows = @ \cup {NewItem(k, prior)}])
  BY <1>1 DEF FindPrior
<1>5. PICK entry, late : entry = EntriesOf(payload)[next] /\ late = Quarantined(k)
  OBVIOUS
<1>6. PICK key : key = [uri |-> entry.uri, content |-> entry.content, at |-> at, quarantined |-> late]
  OBVIOUS
<1>7. PICK row : row = NewItem(k, prior)
  OBVIOUS
<1>8. row = [key |-> key, revises |-> prior]
  BY <1>3, <1>5, <1>6, <1>7 DEF NewItem
<1>9. key \in ItemKey
  <2>1. late \in BOOLEAN
    BY <1>5 DEF Quarantined
  <2>2. entry.uri \in Links \cup {Endpoint} /\ entry.content \in Stories \cup Malformed
    BY <1>3, <1>5, EntriesAreTyped
  <2>3. QED
    BY <1>3, <1>6, <2>1, <2>2 DEF ItemKey
<1>10. prior = NoItem \/ (prior \in KeysOf(items \cup rows) /\ prior.uri = entry.uri)
  BY <1>3, <1>4, <1>5 DEF PriorItems, Found
<1>11. KeysOf(items \cup rows) \subseteq ItemKey
  BY <1>3 DEF NewsInv, NewsRows, NewsTypeOK, NewsBatch, Item, KeysOf
<1>12. PICK all : all = rows \cup {row}
  OBVIOUS
<1>13. all \subseteq Item
  <2>1. prior \in ItemKey \cup {NoItem}
    BY <1>10, <1>11
  <2>2. row \in Item
    BY <1>8, <1>9, <2>1 DEF Item
  <2>3. QED
    BY <1>3, <1>12, <2>2 DEF NewsBatch
<1>14. PICK set, more : set = items \cup rows /\ more = items \cup all
  OBVIOUS
<1>15. set \subseteq more /\ row \in more
  BY <1>12, <1>14
<1>16. \A r \in all : Revised(r, more)
  <2>1. \A r \in rows : Revised(r, more)
    BY <1>3, <1>14, <1>15, MoreItems DEF NewsBatch
  <2>2. KeysOf(set) \subseteq KeysOf(more)
    BY <1>15 DEF KeysOf
  <2>3. row.key.uri = entry.uri /\ row.revises = prior
    BY <1>6, <1>8
  <2>4. Revised(row, more)
    BY <1>10, <1>14, <2>2, <2>3 DEF Revised
  <2>5. QED
    BY <1>12, <2>1, <2>4
<1>17. \A n \in 1..(next - 1) \cup {next} : Covers(more, EntriesOf(payload)[n])
  <2>1. \A n \in 1..(next - 1) : Covers(more, EntriesOf(payload)[n])
    BY <1>3, <1>14, <1>15, MoreItems DEF NewsBatch
  <2>2. row.key.uri = entry.uri /\ row.key.content = entry.content
    BY <1>6, <1>8
  <2>3. Covers(more, entry)
    BY <1>15, <2>2 DEF Covers, KeysOf
  <2>4. QED
    BY <1>3, <1>5, <2>1, <2>3
<1>18. PICK then : then = next + 1
  OBVIOUS
<1>19. then \in Nat \ {0} /\ 1..(then - 1) = 1..(next - 1) \cup {next}
  BY <1>3, <1>18, OneMore
<1>20. PICK j : j = [pc |-> "news_entry", payload |-> payload, at |-> at, next |-> then, rows |-> all]
  OBVIOUS
<1>21. Learn(o, j)
  <2>1. k.next + 1 = then /\ k.rows \cup {row} = all
    BY <1>3, <1>12, <1>18
  <2>2. PICK l : l = [k EXCEPT !.pc = "news_entry", !.next = then, !.rows = all]
    OBVIOUS
  <2>3. Learn(o, l)
    BY <1>4, <1>7, <2>1, <2>2
  <2>4. k = [pc |-> "news_prior", payload |-> payload, at |-> at, next |-> next, rows |-> rows]
    BY <1>3
  <2>5. l = [pc |-> "news_entry", payload |-> payload, at |-> at, next |-> then, rows |-> all]
    BY <2>2, <2>4
  <2>6. QED
    BY <1>20, <2>3, <2>5
<1>22. NewsJob(j)
  <2>1. NewsBatch(payload, then, all)
    BY <1>13, <1>14, <1>16, <1>17, <1>19 DEF NewsBatch
  <2>2. Classifying(j, payload, at, then, all)
    BY <1>3, <1>19, <1>20, <2>1 DEF Classifying
  <2>3. QED
    BY <1>20, <2>2 DEF NewsJob
<1>23. QED
  BY <1>21, <1>22, NewsLearns DEF FindPrior, newsVars, NewsInv, NewsRows, NewsTypeOK

LEMMA CommitNewsKeeps ==
    ASSUME NewsInv, part = "news", part' = part, NEW o \in Operators, CommitNews(o)
    PROVE  NewsInv'
<1>1. PICK k : k = job[o] /\ k.pc = "news_entry" /\ NewsJob(k)
  BY DEF NewsInv, CommitNews, At
<1>2. PICK payload, at, next, rows : Classifying(k, payload, at, next, rows)
  BY <1>1 DEF NewsJob
<1>3. k.rows = rows /\ rows \subseteq Item /\ \A r \in rows : Revised(r, items \cup rows)
  <2>1. k = [pc |-> k.pc, payload |-> payload, at |-> at, next |-> next, rows |-> rows]
    BY <1>2 DEF Classifying
  <2>2. NewsBatch(payload, next, rows)
    BY <1>2 DEF Classifying
  <2>3. k.rows = rows
    BY <2>1
  <2>4. QED
    BY <2>2, <2>3 DEF NewsBatch
<1>4. /\ items' = items \cup rows /\ receipts' = receipts /\ Finish(o)
      /\ candidates' = candidates \cup Extracted(rows)
  BY <1>1, <1>3 DEF CommitNews
<1>5. NewsTypeOK'
  <2>1. items' \subseteq Item /\ receipts' \subseteq Payload
    BY <1>3, <1>4 DEF NewsInv, NewsRows, NewsTypeOK
  <2>2. Extracted(rows) \subseteq KeysOf(items')
    BY <1>4 DEF Extracted, KeysOf
  <2>3. candidates \subseteq KeysOf(items')
    BY <1>4 DEF NewsInv, NewsRows, NewsTypeOK, ItemKeys, KeysOf
  <2>4. QED
    BY <1>4, <2>1, <2>2, <2>3 DEF NewsTypeOK, ItemKeys
<1>6. QED
  BY <1>3, <1>4, <1>5, IdleNewsJob, OneFinishes, NewsStep DEF NewsInv

LEMMA NewsNextKeeps ==
    ASSUME NewsInv, part = "news", part' = part, NEW o \in Operators, NewsNext(o)
    PROVE  NewsInv'
<1>1. NewsTypeOK /\ receipts \subseteq Payload /\ now \in Time
  BY DEF NewsInv, NewsRows, NewsTypeOK, SessionsOK
<1>2. CASE BeginNews(o)
  <2>1. PICK payload \in Payload :
            /\ Begin(o, [pc |-> "news_raw", payload |-> payload, at |-> now, known |-> payload \in receipts])
            /\ UNCHANGED newsVars
    BY <1>2 DEF BeginNews
  <2>2. PICK known : known = (payload \in receipts)
    OBVIOUS
  <2>3. PICK j : j = [pc |-> "news_raw", payload |-> payload, at |-> now, known |-> known]
    OBVIOUS
  <2>4. known \in BOOLEAN
    BY <2>2
  <2>5. NewsJob(j) /\ Begin(o, j)
    BY <1>1, <2>1, <2>2, <2>3, <2>4 DEF NewsJob
  <2>6. QED
    BY <1>1, <2>1, <2>5, NewsLearns DEF newsVars
<1>3. CASE CommitRaw(o)
  <2>1. PICK k : k = job[o]
    OBVIOUS
  <2>2. PICK payload \in Payload, at \in Time :
            \E known \in BOOLEAN : k = [pc |-> "news_raw", payload |-> payload, at |-> at, known |-> known]
    BY <1>3, <2>1 DEF NewsInv, NewsJob, CommitRaw, At
  <2>3. PICK known \in BOOLEAN : k = [pc |-> "news_raw", payload |-> payload, at |-> at, known |-> known]
    BY <2>2
  <2>4. PICK j : j = [pc |-> "news_entry", payload |-> payload, at |-> at, next |-> 1, rows |-> {}]
    OBVIOUS
  <2>5. Learn(o, j) /\ receipts' = receipts \cup {payload} /\ UNCHANGED <<items, candidates>>
    BY <1>3, <2>1, <2>3, <2>4 DEF CommitRaw
  <2>6. NewsBatch(payload, 1, {})
    BY DEF NewsBatch
  <2>7. Classifying(j, payload, at, 1, {})
    BY <2>2, <2>4, <2>6 DEF Classifying
  <2>8. NewsJob(j)
    BY <2>4, <2>7 DEF NewsJob
  <2>9. QED
    BY <1>1, <2>2, <2>5, <2>8, NewsLearns
<1>4. CASE RawRefused(o)
  BY <1>1, <1>4, IdleNewsJob, NewsLearns DEF RawRefused, Finish, newsVars
<1>5. QED
  BY <1>2, <1>3, <1>4, FindExactKeeps, FindPriorKeeps, CommitNewsKeeps DEF NewsNext

LEMMA NewsStarts == Init => NewsInv
<1> SUFFICES ASSUME Init PROVE NewsInv
  OBVIOUS
<1>1. NewsRows
  BY DEF Init, NewsInit, NewsRows, NewsTypeOK, ItemKeys, KeysOf
<1>2. Elsewhere(Idle, "news_entry")
  BY IdleElsewhere DEF Awaited
<1>3. QED
  BY <1>1, <1>2, DeskStarts, IdleNewsJob DEF NewsInv, AllElsewhere, SessionsOK

LEMMA NewsKept == NewsInv /\ [Next]_vars => NewsInv'
<1> SUFFICES ASSUME NewsInv, [Next]_vars PROVE NewsInv'
  OBVIOUS
<1>1. part' = part
  BY NewsPart
<1>2. CASE part # "news"
  <2>1. UNCHANGED newsVars /\ NewsRows'
    BY <1>2, NewsPart DEF NewsInv, NewsRows, NewsTypeOK, ItemKeys, Revised, newsVars
  <2>2. AllElsewhere("news_entry")'
    <3>1. "news_entry" \in Awaited /\ "news_entry" \notin {"geo_report", "fetched"}
      BY DEF Awaited
    <3>2. QED
      BY <1>2, <3>1, ElsewhereStays DEF NewsInv
  <2>3. QED
    BY <1>1, <1>2, <2>1, <2>2 DEF NewsInv
<1>3. CASE part = "news"
  <2>1. ASSUME NEW o \in Operators, Dies(o), UNCHANGED newsVars PROVE NewsInv'
    BY <1>1, <1>3, <2>1, IdleNewsJob, NewsLearns DEF Dies, Finish, newsVars, NewsInv, NewsRows, NewsTypeOK
  <2>2. ASSUME Tick \/ UNCHANGED sessionVars, UNCHANGED newsVars PROVE NewsInv'
    <3>1. SessionsOK' /\ job' = job
      BY <1>3, <2>2, ClockTicks, NothingHappens DEF NewsInv
    <3>2. NewsRows'
      BY <2>2 DEF NewsInv, NewsRows, NewsTypeOK, ItemKeys, Revised, newsVars
    <3>3. \A j : NewsJob(j) => NewsJob(j)'
      BY <2>2, NewsJobStays DEF newsVars
    <3>4. QED
      BY <1>1, <1>3, <3>1, <3>2, <3>3 DEF NewsInv
  <2>3. QED
    BY <1>1, <1>3, <2>1, <2>2, NewsNextKeeps, NewsPart
<1>4. QED
  BY <1>2, <1>3

\* Inductive: a run still to commit has an item for each entry, there or among its rows,
\* since no item is ever removed, whatever other runs commit of the same feed.
THEOREM NewsInductive == Spec => []NewsInv
BY NewsStarts, NewsKept, PTL DEF Spec

\* Receipts, items and candidates are of their types, and a candidate is of an item.
THEOREM NewsTypes == Spec => []NewsTypeOK
<1>1. NewsInv => NewsTypeOK
  BY DEF NewsInv, NewsRows
<1>2. QED
  BY <1>1, NewsInductive, PTL

\* Whatever other runs commit between the queries of a run, each entry it has classified
\* has an item of its very content, and a revision is of an item that is there, of its own
\* URI (classify_duplicate, run).
THEOREM EveryEntryAlwaysHasItsItem == Spec => []EveryEntryHasItsItem
<1>1. ASSUME NewsInv PROVE EveryEntryHasItsItem
  <2>1. ASSUME NEW o \in Operators, At(o, "news_entry")
        PROVE  \A n \in 1..(job[o].next - 1) :
                  Covers(items \cup job[o].rows, EntriesOf(job[o].payload)[n])
    <3>1. part = "news"
      BY <1>1, <2>1 DEF NewsInv, AllElsewhere, Elsewhere, At
    <3>2. PICK k : k = job[o] /\ k.pc = "news_entry" /\ NewsJob(k)
      BY <1>1, <2>1, <3>1 DEF NewsInv, At
    <3>3. PICK payload, at, next, rows : Classifying(k, payload, at, next, rows)
      BY <3>2 DEF NewsJob
    <3>4. /\ k = [pc |-> k.pc, payload |-> payload, at |-> at, next |-> next, rows |-> rows]
          /\ NewsBatch(payload, next, rows)
      BY <3>3 DEF Classifying
    <3>5. k.next = next /\ k.rows = rows /\ k.payload = payload
      BY <3>4
    <3>6. QED
      BY <3>2, <3>4, <3>5 DEF NewsBatch
  <2>2. \A i \in items : Revised(i, items)
    BY <1>1 DEF NewsInv, NewsRows
  <2>3. QED
    BY <2>1, <2>2 DEF EveryEntryHasItsItem, Revised, ItemKeys
<1>2. QED
  BY <1>1, NewsInductive, PTL

-----------------------------------------------------------------------------
(* Lines of revisions: a row, what it revises, and so on.                  *)

\* By n revisions from one row of a set to another.
Walk(w, n, row, p, rows) ==
    /\ w \in [0..n -> rows] /\ w[0] = row /\ w[n] = p
    /\ \A m \in 1..n : w[m - 1].revises = w[m].id

\* The function that Line defines by recursion is given by the walks.
LEMMA LineIsWalks ==
    ASSUME NEW rows, NEW row \in rows
    PROVE  Line(row, rows) =
              UNION {{p \in rows : \E w : Walk(w, n, row, p, rows)} : n \in 0..Cardinality(rows)}
<1> DEFINE next(n, f) == IF n = 0 THEN {row} ELSE {p \in rows : \E r \in f[n - 1] : r.revises = p.id}
           reach == [n \in Nat |-> {p \in rows : \E w : Walk(w, n, row, p, rows)}]
           up == CHOOSE f : f = [n \in Nat |-> next(n, f)]
<1>1. {p \in rows : \E w : Walk(w, 0, row, p, rows)} = {row}
  <2>1. Walk([m \in 0..0 |-> row], 0, row, row, rows)
    BY DEF Walk
  <2>2. ASSUME NEW p \in rows, NEW w, Walk(w, 0, row, p, rows) PROVE p = row
    BY <2>2 DEF Walk
  <2>3. QED
    BY <2>1, <2>2
<1>2. ASSUME NEW n \in Nat \ {0}, NEW p \in rows
      PROVE  (\E w : Walk(w, n, row, p, rows)) <=>
                \E r \in rows : r.revises = p.id /\ \E w : Walk(w, n - 1, row, r, rows)
  <2>1. ASSUME NEW w, Walk(w, n, row, p, rows)
        PROVE  \E r \in rows : r.revises = p.id /\ \E v : Walk(v, n - 1, row, r, rows)
    <3>1. PICK v : v = [m \in 0..(n - 1) |-> w[m]]
      OBVIOUS
    <3>2. w[n - 1] \in rows /\ w[n - 1].revises = p.id
      BY <2>1 DEF Walk
    <3>3. Walk(v, n - 1, row, w[n - 1], rows)
      BY <2>1, <3>1 DEF Walk
    <3>4. QED
      BY <3>2, <3>3
  <2>2. ASSUME NEW r \in rows, r.revises = p.id, NEW v, Walk(v, n - 1, row, r, rows)
        PROVE  \E w : Walk(w, n, row, p, rows)
    <3>1. PICK w : w = [m \in 0..n |-> IF m = n THEN p ELSE v[m]]
      OBVIOUS
    <3>2. w \in [0..n -> rows] /\ w[0] = row /\ w[n] = p
      BY <2>2, <3>1 DEF Walk
    <3>3. ASSUME NEW m \in 1..n PROVE w[m - 1].revises = w[m].id
      BY <2>2, <3>1 DEF Walk
    <3>4. QED
      BY <3>2, <3>3 DEF Walk
  <2>3. QED
    BY <2>1, <2>2
<1>3. reach = [n \in Nat |-> next(n, reach)]
  <2> SUFFICES ASSUME NEW n \in Nat PROVE reach[n] = next(n, reach)
    BY Zenon
  <2>1. CASE n = 0
    BY <1>1, <2>1
  <2>2. CASE n # 0
    <3>1. reach[n - 1] = {r \in rows : \E w : Walk(w, n - 1, row, r, rows)}
      BY <2>2
    <3>2. ASSUME NEW p \in rows
          PROVE  (\E w : Walk(w, n, row, p, rows)) <=> \E r \in reach[n - 1] : r.revises = p.id
      BY <1>2, <2>2, <3>1
    <3>3. QED
      BY <2>2, <3>2
  <2>3. QED
    BY <2>1, <2>2
<1>4. up = [n \in Nat |-> next(n, up)]
  <2> HIDE DEF next, reach
  <2>1. QED
    BY <1>3
<1>5. Line(row, rows) = UNION {up[n] : n \in 0..Cardinality(rows)}
  BY DEF Line
<1>6. ASSUME NEW n \in Nat PROVE up[n] = reach[n]
  <2> HIDE DEF up, reach
  <2> DEFINE bad == {m \in Nat : up[m] # reach[m]}
  <2>1. \A m \in Nat : up[m] = next(m, up) /\ reach[m] = next(m, reach)
    <3> HIDE DEF next
    <3>1. QED
      BY <1>3, <1>4
  <2>2. ASSUME bad # {} PROVE FALSE
    <3>1. PICK m \in bad : \A k \in bad : m <= k
      <4> HIDE DEF bad
      <4>1. bad \subseteq Nat
        BY DEF bad
      <4>2. QED
        BY <2>2, <4>1, LeastNatural
    <3>2. CASE m = 0
      BY <2>1, <3>1, <3>2
    <3>3. CASE m # 0
      <4>1. m - 1 \in Nat /\ m - 1 \notin bad
        BY <3>1, <3>3
      <4>2. up[m - 1] = reach[m - 1]
        BY <4>1
      <4>3. next(m, up) = next(m, reach)
        BY <3>3, <4>2
      <4>4. QED
        BY <2>1, <3>1, <4>3
    <3>4. QED
      BY <3>2, <3>3
  <2>3. QED
    BY <2>2
<1>7. ASSUME NEW n \in 0..Cardinality(rows)
      PROVE  n \in Nat /\ up[n] = {p \in rows : \E w : Walk(w, n, row, p, rows)}
  <2>1. n \in Nat
    OBVIOUS
  <2>2. QED
    BY <1>6, <2>1
<1> HIDE DEF up
<1>8. QED
  BY <1>5, <1>7

\* Rows that are observed after what they revise.
Chain(rows) ==
    /\ IsFiniteSet(rows)
    /\ \A r \in rows : r.at \in Nat
    /\ \A r, p \in rows : r.revises = p.id => p.at < r.at

\* The times of a walk descend.
LEMMA WalkDescends ==
    ASSUME NEW rows, Chain(rows), NEW n \in Nat, NEW row, NEW p, NEW w, Walk(w, n, row, p, rows),
           NEW k \in 0..n, NEW m \in (k + 1)..n
    PROVE  w[m].at < w[k].at
<1> DEFINE bad == {i \in (k + 1)..n : ~(w[i].at < w[k].at)}
<1>1. \A i \in 0..n : w[i] \in rows /\ w[i].at \in Nat
  BY DEF Walk, Chain
<1>2. \A i \in 1..n : w[i].at < w[i - 1].at
  BY <1>1 DEF Walk, Chain
<1>3. ASSUME bad # {} PROVE FALSE
  <2>1. PICK i \in bad : \A l \in bad : i <= l
    <3> HIDE DEF bad
    <3>1. bad \subseteq Nat
      BY DEF bad
    <3>2. QED
      BY <1>3, <3>1, LeastNatural
  <2>2. i \in 1..n /\ w[i].at < w[i - 1].at
    BY <1>2
  <2>3. CASE i = k + 1
    BY <2>1, <2>2, <2>3
  <2>4. CASE i # k + 1
    <3>1. i - 1 \in (k + 1)..n /\ i - 1 \notin bad
      BY <2>1, <2>4
    <3>2. w[i - 1].at < w[k].at
      BY <3>1
    <3>3. i \in 0..n /\ i - 1 \in 0..n /\ k \in 0..n
      BY <2>2
    <3>4. w[i].at < w[k].at
      BY <1>1, <2>2, <3>2, <3>3
    <3>5. QED
      BY <2>1, <3>4
  <2>5. QED
    BY <2>3, <2>4
<1>4. QED
  BY <1>3

\* A row of a line: the first one, or revised by one of the line that is no later.
LEMMA LineDescends ==
    ASSUME NEW rows, Chain(rows), NEW row \in rows, NEW p \in Line(row, rows)
    PROVE  /\ p \in rows /\ p.at <= row.at
           /\ p # row => \E r \in rows : r.revises = p.id /\ r.at <= row.at
<1>1. PICK n \in 0..Cardinality(rows) : p \in rows /\ \E w : Walk(w, n, row, p, rows)
  BY LineIsWalks
<1>2. PICK w : Walk(w, n, row, p, rows)
  BY <1>1
<1>3. n \in Nat /\ p.at \in Nat /\ row.at \in Nat
  BY <1>1 DEF Chain
<1>4. CASE n = 0
  BY <1>1, <1>2, <1>3, <1>4 DEF Walk
<1>5. CASE n # 0
  <2>1. p.at < row.at
    <3>1. w[n].at < w[0].at
      BY <1>2, <1>3, <1>5, WalkDescends
    <3>2. QED
      BY <1>2, <3>1 DEF Walk
  <2>2. w[n - 1] \in rows /\ w[n - 1].revises = p.id
    BY <1>2, <1>3, <1>5 DEF Walk
  <2>3. w[n - 1].at <= row.at
    <3>1. CASE n - 1 = 0
      BY <1>2, <1>3, <3>1 DEF Walk
    <3>2. CASE n - 1 # 0
      <4>1. w[n - 1].at < w[0].at
        BY <1>2, <1>3, <1>5, <3>2, WalkDescends
      <4>2. w[n - 1].at \in Nat
        BY <2>2 DEF Chain
      <4>3. QED
        BY <1>2, <1>3, <4>1, <4>2 DEF Walk
    <3>3. QED
      BY <3>1, <3>2
  <2>4. QED
    BY <1>1, <1>3, <2>1, <2>2, <2>3
<1>6. QED
  BY <1>4, <1>5

LEMMA LineBegins ==
    ASSUME NEW rows, IsFiniteSet(rows), NEW row \in rows
    PROVE  row \in Line(row, rows)
<1>1. Cardinality(rows) \in Nat
  BY FS_CardinalityType
<1>2. Walk([m \in 0..0 |-> row], 0, row, row, rows)
  BY DEF Walk
<1>3. 0 \in 0..Cardinality(rows) /\ row \in {p \in rows : \E w : Walk(w, 0, row, p, rows)}
  BY <1>1, <1>2
<1>4. QED
  BY <1>3, LineIsWalks

\* A walk meets no row twice, so that a line has room for one more revision.
LEMMA LineGoesOn ==
    ASSUME NEW rows, Chain(rows), NEW row \in rows, NEW r \in Line(row, rows),
           NEW p \in rows, r.revises = p.id
    PROVE  p \in Line(row, rows)
<1>1. PICK n \in 0..Cardinality(rows) : \E v : Walk(v, n, row, r, rows)
  BY LineIsWalks
<1>2. PICK v : Walk(v, n, row, r, rows)
  BY <1>1
<1>3. PICK w : w = [m \in 0..(n + 1) |-> IF m = n + 1 THEN p ELSE v[m]]
  OBVIOUS
<1>4. Walk(w, n + 1, row, p, rows)
  <2>1. w \in [0..(n + 1) -> rows] /\ w[0] = row /\ w[n + 1] = p
    BY <1>2, <1>3 DEF Walk
  <2>2. ASSUME NEW m \in 1..(n + 1) PROVE w[m - 1].revises = w[m].id
    BY <1>2, <1>3 DEF Walk
  <2>3. QED
    BY <2>1, <2>2 DEF Walk
<1>5. n + 1 \in 0..Cardinality(rows)
  <2>1. w \in [0..(n + 1) -> rows]
    BY <1>4 DEF Walk
  <2>2. ASSUME NEW i \in 0..(n + 1), NEW k \in 0..(n + 1), i < k PROVE w[i] # w[k]
    <3>1. w[k].at < w[i].at
      BY <1>4, <2>2, WalkDescends
    <3>2. w[i] \in rows /\ w[i].at \in Nat
      BY <2>1 DEF Chain
    <3>3. QED
      BY <3>1, <3>2
  <2>3. w \in Injection(0..(n + 1), rows)
    <3>1. \A i, k \in 0..(n + 1) : w[i] = w[k] => i = k
      BY <2>2
    <3>2. QED
      BY <2>1, <3>1 DEF Injection, IsInjective
  <2>4. Cardinality(0..(n + 1)) <= Cardinality(rows)
    BY <2>3, FS_Injection DEF Chain
  <2>5. Cardinality(0..(n + 1)) = n + 2
    <3>1. n \in Nat /\ 0 \in Int /\ n + 1 \in Int /\ ~(0 > n + 1) /\ (n + 1) - 0 + 1 = n + 2
      OBVIOUS
    <3>2. QED
      BY <3>1, FS_Interval
  <2>6. Cardinality(rows) \in Nat
    BY FS_CardinalityType DEF Chain
  <2>7. QED
    BY <2>4, <2>5, <2>6
<1>6. p \in {q \in rows : \E u : Walk(u, n + 1, row, q, rows)}
  BY <1>4
<1>7. QED
  BY <1>5, <1>6, LineIsWalks

\* A set that has a row and all that its rows revise has the line of that row.
LEMMA LineStaysIn ==
    ASSUME NEW rows, NEW row \in rows, NEW kin, row \in kin,
           \A r \in kin, p \in rows : r.revises = p.id => p \in kin
    PROVE  Line(row, rows) \subseteq kin
<1> SUFFICES ASSUME NEW n \in 0..Cardinality(rows), NEW p, NEW w, Walk(w, n, row, p, rows) PROVE p \in kin
  BY LineIsWalks
<1> DEFINE bad == {m \in 0..n : w[m] \notin kin}
<1>1. n \in Nat /\ w[0] = row /\ w[n] = p
  BY DEF Walk
<1>2. ASSUME bad # {} PROVE FALSE
  <2>1. PICK m \in bad : \A k \in bad : m <= k
    <3> HIDE DEF bad
    <3>1. bad \subseteq Nat
      BY DEF bad
    <3>2. QED
      BY <1>2, <3>1, LeastNatural
  <2>2. m # 0
    BY <1>1, <2>1
  <2>3. m \in 1..n /\ m - 1 \in 0..n /\ m - 1 \notin bad
    BY <2>1, <2>2
  <2>4. w[m - 1] \in kin /\ w[m] \in rows /\ w[m - 1].revises = w[m].id
    BY <2>1, <2>3 DEF Walk
  <2>5. QED
    BY <2>1, <2>4
<1>3. QED
  BY <1>1, <1>2

\* No current row is in the line of another one.
LEMMA CurrentStandsAlone ==
    ASSUME NEW rows, Chain(rows), NEW cutoff \in Nat
    PROVE  StandAlone(CurrentAt(rows, cutoff), rows)
<1>1. ASSUME NEW row \in CurrentAt(rows, cutoff) PROVE Line(row, rows) \cap CurrentAt(rows, cutoff) = {row}
  <2>1. row \in rows /\ row.at <= cutoff /\ row.at \in Nat
    BY DEF CurrentAt, Chain
  <2>2. row \in Line(row, rows)
    BY <2>1, LineBegins DEF Chain
  <2>3. ASSUME NEW p \in Line(row, rows), p \in CurrentAt(rows, cutoff), p # row PROVE FALSE
    <3>1. PICK r \in rows : r.revises = p.id /\ r.at <= row.at
      BY <2>1, <2>3, LineDescends
    <3>2. r.at <= cutoff
      BY <2>1, <3>1 DEF Chain
    <3>3. QED
      BY <2>3, <3>1, <3>2 DEF CurrentAt
  <2>4. QED
    BY <2>2, <2>3
<1>2. QED
  BY <1>1 DEF StandAlone

\* Whatever was observed by a cutoff is in the line of a row that is current then.
LEMMA CurrentLinesCover ==
    ASSUME NEW rows, Chain(rows), NEW cutoff \in Nat
    PROVE  {e \in rows : e.at <= cutoff} = UNION {Line(s, rows) : s \in CurrentAt(rows, cutoff)}
<1> DEFINE covered == UNION {Line(s, rows) : s \in CurrentAt(rows, cutoff)}
           left == {e.at : e \in {d \in rows : d.at <= cutoff /\ d \notin covered}}
<1>1. ASSUME NEW s \in CurrentAt(rows, cutoff), NEW e \in Line(s, rows) PROVE e \in rows /\ e.at <= cutoff
  <2>1. s \in rows /\ s.at <= cutoff /\ s.at \in Nat
    BY DEF CurrentAt, Chain
  <2>2. e \in rows /\ e.at <= s.at /\ e.at \in Nat
    BY <2>1, LineDescends DEF Chain
  <2>3. QED
    BY <2>1, <2>2
<1>2. ASSUME left # {} PROVE FALSE
  <2>1. left \subseteq Nat /\ \A x \in left : x <= cutoff
    BY DEF Chain
  <2>2. PICK x \in left : \A y \in left : y <= x
    <3> HIDE DEF left
    <3>1. QED
      BY <1>2, <2>1, GreatestNatural
  <2>3. PICK e \in rows : e.at = x /\ e.at <= cutoff /\ e \notin covered
    BY <2>2
  <2>4. CASE e \in CurrentAt(rows, cutoff)
    <3>1. e \in Line(e, rows)
      BY LineBegins DEF Chain
    <3>2. QED
      BY <2>3, <2>4, <3>1
  <2>5. CASE e \notin CurrentAt(rows, cutoff)
    <3>1. PICK s \in rows : s.at <= cutoff /\ s.revises = e.id
      BY <2>3, <2>5 DEF CurrentAt
    <3>2. e.at < s.at /\ s.at \in Nat /\ e.at \in Nat
      BY <3>1 DEF Chain
    <3>3. s \in covered
      BY <2>2, <2>3, <3>1, <3>2
    <3>4. PICK t \in CurrentAt(rows, cutoff) : s \in Line(t, rows)
      BY <3>3
    <3>5. t \in rows
      BY DEF CurrentAt
    <3>6. e \in Line(t, rows)
      BY <3>1, <3>4, <3>5, LineGoesOn
    <3>7. QED
      BY <2>3, <3>4, <3>6
  <2>6. QED
    BY <2>4, <2>5
<1>3. QED
  BY <1>1, <1>2

-----------------------------------------------------------------------------
(* Rows that are numbered by the commands: an id belongs to one row, which *)
(* is in its table or with the process that will insert it.                *)

Pending(j, pc, table) == j.pc = pc /\ j.table = table

Given(id) == id \in Nat \ {0} /\ id <= started

Numbered(rows, pc, table) ==
    /\ \A r \in rows : Given(r.id)
    /\ \A r, s \in rows : r.id = s.id => r = s
    /\ \A o \in Operators : Pending(job[o], pc, table) =>
          Given(job[o].row.id) /\ \A r \in rows : r.id # job[o].row.id
    /\ \A o, q \in Operators : o # q /\ Pending(job[o], pc, table) /\ Pending(job[q], pc, table) =>
          job[o].row.id # job[q].row.id

LEMMA NumberedBegins ==
    ASSUME NEW rows, NEW pc, NEW table, SessionsOK, started \in Nat, Numbered(rows, pc, table),
           NEW o \in Operators, NEW j, Begin(o, j), Pending(j, pc, table) => j.row.id = started + 1
    PROVE  Numbered(rows, pc, table)'
<1>1. started' = started + 1 /\ job'[o] = j /\ \A q \in Operators : q # o => job'[q] = job[q]
  BY OneBegins
<1>2. \A id : Given(id) => Given(id)' /\ id # started + 1
  BY <1>1 DEF Given
<1>3. Pending(j, pc, table) => Given(j.row.id)'
  BY <1>1 DEF Given
<1>4. \A q \in Operators : Pending(job'[q], pc, table) =>
          Given(job[q].row.id)' /\ \A r \in rows : r.id # job'[q].row.id
  <2> SUFFICES ASSUME NEW q \in Operators, Pending(job'[q], pc, table)
               PROVE  Given(job[q].row.id)' /\ \A r \in rows : r.id # job'[q].row.id
    OBVIOUS
  <2>1. CASE q = o
    BY <1>1, <1>2, <1>3, <2>1 DEF Numbered, Given
  <2>2. CASE q # o
    BY <1>1, <1>2, <2>2 DEF Numbered, Given
  <2>3. QED
    BY <2>1, <2>2
<1>5. \A p, q \in Operators : p # q /\ Pending(job'[p], pc, table) /\ Pending(job'[q], pc, table) =>
          job'[p].row.id # job'[q].row.id
  <2> SUFFICES ASSUME NEW p \in Operators, NEW q \in Operators, p # q,
                      Pending(job'[p], pc, table), Pending(job'[q], pc, table)
               PROVE  job'[p].row.id # job'[q].row.id
    OBVIOUS
  <2>1. p # o => Given(job'[p].row.id)
    BY <1>1 DEF Numbered
  <2>2. q # o => Given(job'[q].row.id)
    BY <1>1 DEF Numbered
  <2>3. QED
    BY <1>1, <1>2, <2>1, <2>2 DEF Numbered
<1>6. QED
  BY <1>2, <1>4, <1>5 DEF Numbered, Pending, Given

LEMMA NumberedLearns ==
    ASSUME NEW rows, NEW pc, NEW table, SessionsOK, Numbered(rows, pc, table),
           NEW o \in Operators, NEW j, Learn(o, j), ~Pending(j, pc, table)
    PROVE  Numbered(rows, pc, table)'
<1>1. started' = started /\ job'[o] = j /\ \A q \in Operators : q # o => job'[q] = job[q]
  BY OneLearns
<1>2. QED
  BY <1>1 DEF Numbered, Pending, Given

LEMMA NumberedCommits ==
    ASSUME NEW rows, NEW pc, NEW table, SessionsOK, Numbered(rows, pc, table), pc # "idle",
           NEW o \in Operators, Finish(o), Pending(job[o], pc, table),
           NEW more, more = rows \cup {job[o].row}
    PROVE  Numbered(more, pc, table)'
<1>1. started' = started /\ job'[o] = Idle /\ \A q \in Operators : q # o => job'[q] = job[q]
  BY OneFinishes
<1>2. ~Pending(Idle, pc, table)
  BY DEF Pending, Idle
<1>3. \A r \in more : Given(r.id)'
  BY <1>1 DEF Numbered, Given
<1>4. \A r, s \in more : r.id = s.id => r = s
  BY DEF Numbered
<1>5. \A q \in Operators : Pending(job'[q], pc, table) =>
          q # o /\ job'[q] = job[q] /\ Given(job[q].row.id)' /\ \A r \in more : r.id # job'[q].row.id
  <2> SUFFICES ASSUME NEW q \in Operators, Pending(job'[q], pc, table)
               PROVE  q # o /\ job'[q] = job[q] /\ Given(job[q].row.id)' /\ \A r \in more : r.id # job'[q].row.id
    OBVIOUS
  <2>1. q # o /\ job'[q] = job[q]
    BY <1>1, <1>2
  <2>2. Given(job[q].row.id)'
    BY <1>1, <2>1 DEF Numbered, Given
  <2>3. \A r \in more : r.id # job'[q].row.id
    BY <2>1 DEF Numbered
  <2>4. QED
    BY <2>1, <2>2, <2>3
<1>6. QED
  BY <1>3, <1>4, <1>5 DEF Numbered, Pending, Given

LEMMA NumberedRests ==
    ASSUME NEW rows, NEW pc, NEW table, Numbered(rows, pc, table), UNCHANGED <<started, job>>
    PROVE  Numbered(rows, pc, table)'
BY DEF Numbered, Pending, Given

\* The row of a process comes into its table, and no other table changes.
LEMMA NumberedInserts ==
    ASSUME NEW rows, NEW pc, NEW table, SessionsOK, Numbered(rows, pc, table), pc # "idle",
           NEW o \in Operators, Finish(o), At(o, pc),
           NEW more, more = IF job[o].table = table THEN rows \cup {job[o].row} ELSE rows
    PROVE  Numbered(more, pc, table)'
<1>1. CASE job[o].table = table
  BY <1>1, NumberedCommits DEF Pending, At
<1>2. CASE job[o].table # table
  <2>1. ~Pending(Idle, pc, table)
    BY DEF Pending, Idle
  <2>2. QED
    BY <1>2, <2>1, NumberedLearns DEF Finish
<1>3. QED
  BY <1>1, <1>2

\* When the processes begin nothing is numbered.
LEMMA NumberedStarts ==
    ASSUME Init
    PROVE  started \in Nat /\ \A pc, table : pc # "idle" => Numbered({}, pc, table)
<1>1. started = MaxCommands - CommandsOf[part] /\ started \in Nat
  BY DeskAssumption, SessionsAssumption DEF Init, SessionsInit
<1>2. \A o \in Operators : job[o].pc = "idle"
  <2>1. \A o \in Operators : job[o] = Idle
    BY DeskStarts
  <2>2. Idle.pc = "idle"
    BY DEF Idle
  <2>3. QED
    BY <2>1, <2>2
<1>3. QED
  BY <1>1, <1>2 DEF Numbered, Pending

-----------------------------------------------------------------------------
(* Reputations of the sources of fused claims.                             *)

\* Ids of claims of a source that were observed by a cutoff.
CountedOf(ids, source, cutoff) ==
    \A i \in ids : \E c \in claims : c.id = i /\ c.source = source /\ c.at <= cutoff

Resolved(ids, outcome, cutoff) ==
    \A i \in ids : \E r \in resolutions : r.claim = i /\ r.outcome = outcome /\ r.at <= cutoff

Fair(s) ==
    /\ CountedOf(s.counted, s.source, s.cutoff)
    /\ s.confirmed \cup s.contradicted \cup s.unresolved \cup s.copies \subseteq s.counted
    /\ s.confirmed \cap s.contradicted = {}
    /\ (s.confirmed \cup s.contradicted) \cap s.unresolved = {}
    /\ Resolved(s.confirmed, "confirmed", s.cutoff)
    /\ Resolved(s.contradicted, "contradicted", s.cutoff)

FusionJob(j) ==
    /\ j.pc = "fusion_reputation" => CountedOf(j.counted, j.source, j.cutoff)
    /\ Pending(j, "fusion_insert", "reputations") => Fair(j.row)

FusionInv ==
    /\ part = "fusion" =>
          /\ SessionsOK /\ started \in Nat
          /\ Numbered(claims, "fusion_insert", "claims")
          /\ \A o \in Operators : FusionJob(job[o])
          /\ \A s \in reputations : Fair(s)
    /\ part # "fusion" => reputations = {}

LEMMA FusionPart ==
    ASSUME [Next]_vars
    PROVE  /\ part' = part
           /\ part # "fusion" => UNCHANGED fusionVars
           /\ part = "fusion" =>
                 \/ \E o \in Operators : FusionNext(o)
                 \/ (\E o \in Operators : Dies(o)) /\ UNCHANGED fusionVars
                 \/ Tick /\ UNCHANGED fusionVars
                 \/ UNCHANGED <<sessionVars, fusionVars>>
BY DEF Next, vars, Telegram, Collects, Interprets, Arrival, Outside, collectedVars, interpretedVars

LEMMA FairStays ==
    ASSUME claims \subseteq claims', resolutions \subseteq resolutions'
    PROVE  /\ \A s : Fair(s) => Fair(s)'
           /\ \A j : FusionJob(j) => FusionJob(j)'
<1>1. \A ids, source, cutoff : CountedOf(ids, source, cutoff) => CountedOf(ids, source, cutoff)'
  BY DEF CountedOf
<1>2. \A ids, outcome, cutoff : Resolved(ids, outcome, cutoff) => Resolved(ids, outcome, cutoff)'
  BY DEF Resolved
<1>3. ASSUME NEW s, Fair(s) PROVE Fair(s)'
  <2>1. PICK counted, source, cutoff, confirmed, contradicted :
            /\ counted = s.counted /\ source = s.source /\ cutoff = s.cutoff
            /\ confirmed = s.confirmed /\ contradicted = s.contradicted
    OBVIOUS
  <2>2. /\ CountedOf(counted, source, cutoff)'
        /\ Resolved(confirmed, "confirmed", cutoff)' /\ Resolved(contradicted, "contradicted", cutoff)'
    BY <1>1, <1>2, <1>3, <2>1 DEF Fair
  <2>3. QED
    BY <1>3, <2>1, <2>2 DEF Fair
<1>4. ASSUME NEW j, FusionJob(j) PROVE FusionJob(j)'
  <2>1. PICK row, counted, source, cutoff :
            row = j.row /\ counted = j.counted /\ source = j.source /\ cutoff = j.cutoff
    OBVIOUS
  <2>2. /\ j.pc = "fusion_reputation" => CountedOf(counted, source, cutoff)'
        /\ Pending(j, "fusion_insert", "reputations") => Fair(row)'
    BY <1>1, <1>3, <1>4, <2>1 DEF FusionJob
  <2>3. QED
    BY <2>1, <2>2 DEF FusionJob, Pending
<1>5. QED
  BY <1>3, <1>4

LEMMA FusionStep ==
    ASSUME FusionInv, part = "fusion", part' = part, SessionsOK', started' \in Nat,
           claims \subseteq claims', resolutions \subseteq resolutions',
           Numbered(claims, "fusion_insert", "claims")',
           \A s \in reputations' : s \in reputations \/ Fair(s),
           NEW o \in Operators, NEW j, FusionJob(j), job'[o] = j,
           \A q \in Operators : q # o => job'[q] = job[q]
    PROVE  FusionInv'
<1>1. \A q \in Operators : FusionJob(job[q])'
  <2> TAKE q \in Operators
  <2>1. PICK k : k = job'[q] /\ FusionJob(k)
    BY DEF FusionInv
  <2>2. FusionJob(k)'
    BY <2>1, FairStays
  <2>3. QED
    BY <2>1, <2>2
<1>2. \A s \in reputations' : Fair(s)'
  BY FairStays DEF FusionInv
<1>3. QED
  BY <1>1, <1>2 DEF FusionInv

LEMMA IdleFusionJob == FusionJob(Idle) /\ \A pc, table : pc # "idle" => ~Pending(Idle, pc, table)
BY DEF FusionJob, Pending, Idle

LEMMA FusionBegins ==
    ASSUME FusionInv, part = "fusion", part' = part, UNCHANGED fusionVars,
           NEW o \in Operators, NEW j, FusionJob(j), Begin(o, j),
           Pending(j, "fusion_insert", "claims") => j.row.id = started + 1
    PROVE  FusionInv'
<1>1. SessionsOK' /\ started' \in Nat /\ job'[o] = j /\ \A q \in Operators : q # o => job'[q] = job[q]
  BY OneBegins DEF FusionInv
<1>2. PICK rows : rows = claims
  OBVIOUS
<1>3. Numbered(rows, "fusion_insert", "claims")'
  BY <1>2, NumberedBegins DEF FusionInv
<1>4. Numbered(claims, "fusion_insert", "claims")'
  BY <1>2, <1>3 DEF fusionVars
<1>5. QED
  BY <1>1, <1>4, FusionStep DEF fusionVars

LEMMA FusionLearns ==
    ASSUME FusionInv, part = "fusion", part' = part, UNCHANGED fusionVars,
           NEW o \in Operators, NEW j, FusionJob(j), Learn(o, j),
           ~Pending(j, "fusion_insert", "claims")
    PROVE  FusionInv'
<1>1. SessionsOK' /\ started' \in Nat /\ job'[o] = j /\ \A q \in Operators : q # o => job'[q] = job[q]
  BY OneLearns DEF FusionInv
<1>2. PICK rows : rows = claims
  OBVIOUS
<1>3. Numbered(rows, "fusion_insert", "claims")'
  BY <1>2, NumberedLearns DEF FusionInv
<1>4. Numbered(claims, "fusion_insert", "claims")'
  BY <1>2, <1>3 DEF fusionVars
<1>5. QED
  BY <1>1, <1>4, FusionStep DEF fusionVars

\* What is to be inserted, but a reputation.
LEMMA AddsKeeps ==
    ASSUME FusionInv, part = "fusion", part' = part, NEW o \in Operators, NEW table, NEW row,
           Adds(o, table, row), table # "reputations", table = "claims" => row.id = started + 1
    PROVE  FusionInv'
<1>1. PICK j : j = [pc |-> "fusion_insert", table |-> table, row |-> row]
  OBVIOUS
<1>2. Begin(o, j) /\ UNCHANGED fusionVars
  BY <1>1 DEF Adds
<1>3. FusionJob(j) /\ (Pending(j, "fusion_insert", "claims") => j.row.id = started + 1)
  BY <1>1 DEF FusionJob, Pending
<1>4. QED
  BY <1>2, <1>3, FusionBegins

LEMMA BeginReputationKeeps ==
    ASSUME FusionInv, part = "fusion", part' = part, NEW o \in Operators, BeginReputation(o)
    PROVE  FusionInv'
<1>1. PICK source \in ClaimSources, cutoff \in 0..now :
          /\ Begin(o, [pc |-> "fusion_reputation", source |-> source, cutoff |-> cutoff,
                       counted |-> {c.id : c \in {d \in ClaimsVisibleAt(cutoff) :
                                        d.source = source /\ cutoff - ReputationWindow <= d.at}}])
          /\ UNCHANGED fusionVars
  BY DEF BeginReputation
<1>2. PICK ids : ids = {c.id : c \in {d \in ClaimsVisibleAt(cutoff) :
                           d.source = source /\ cutoff - ReputationWindow <= d.at}}
  OBVIOUS
<1>3. CountedOf(ids, source, cutoff)
  BY <1>2 DEF CountedOf, ClaimsVisibleAt, CurrentAt
<1>4. PICK j : j = [pc |-> "fusion_reputation", source |-> source, cutoff |-> cutoff, counted |-> ids]
  OBVIOUS
<1>5. FusionJob(j) /\ ~Pending(j, "fusion_insert", "claims")
  BY <1>3, <1>4 DEF FusionJob, Pending
<1>6. Begin(o, j)
  BY <1>1, <1>2, <1>4
<1>7. QED
  BY <1>1, <1>5, <1>6, FusionBegins

LEMMA CalculateReputationKeeps ==
    ASSUME FusionInv, part = "fusion", part' = part, NEW o \in Operators, CalculateReputation(o)
    PROVE  FusionInv'
<1> DEFINE counted == job[o].counted
           cutoff == job[o].cutoff
           With(last, outcome) == {c \in counted : last[c] = outcome}
           copies == {c \in counted : \E e \in LineageOf(c, cutoff) : e.copy /\ e.to = c}
           row(last) == [source |-> job[o].source, cutoff |-> cutoff, counted |-> counted,
                         confirmed |-> With(last, "confirmed"),
                         contradicted |-> With(last, "contradicted"),
                         unresolved |-> With(last, "unresolved"), copies |-> copies]
<1>1. /\ CountedOf(counted, job[o].source, cutoff)
      /\ UNCHANGED fusionVars
  BY DEF FusionInv, FusionJob, CalculateReputation, At
<1>2. PICK last \in [counted -> Outcomes] :
          /\ \A c \in counted : \/ \E r \in LatestResolutions(c, cutoff) : last[c] = r.outcome
                                \/ LatestResolutions(c, cutoff) = {} /\ last[c] = "unresolved"
          /\ Learn(o, [pc |-> "fusion_insert", table |-> "reputations", row |-> row(last)])
  BY DEF CalculateReputation
<1>3. \A outcome : outcome # "unresolved" => Resolved(With(last, outcome), outcome, cutoff)
  BY <1>2 DEF Resolved, LatestResolutions, ResolutionsVisibleAt
<1>4. PICK s, j : s = row(last) /\ j = [pc |-> "fusion_insert", table |-> "reputations", row |-> s]
  OBVIOUS
<1>5. Fair(s)
  <2>1. /\ s.source = job[o].source /\ s.cutoff = cutoff /\ s.counted = counted
        /\ s.confirmed = With(last, "confirmed") /\ s.contradicted = With(last, "contradicted")
        /\ s.unresolved = With(last, "unresolved") /\ s.copies = copies
    BY <1>4
  <2>2. With(last, "confirmed") \cup With(last, "contradicted") \cup With(last, "unresolved") \cup copies \subseteq counted
    OBVIOUS
  <2>3. /\ With(last, "confirmed") \cap With(last, "contradicted") = {}
        /\ (With(last, "confirmed") \cup With(last, "contradicted")) \cap With(last, "unresolved") = {}
    OBVIOUS
  <2>4. /\ Resolved(With(last, "confirmed"), "confirmed", cutoff)
        /\ Resolved(With(last, "contradicted"), "contradicted", cutoff)
    BY <1>3
  <2> HIDE DEF counted, cutoff, With, copies, row
  <2>5. QED
    BY <1>1, <2>1, <2>2, <2>3, <2>4 DEF Fair
<1> HIDE DEF row
<1>6. FusionJob(j) /\ ~Pending(j, "fusion_insert", "claims")
  BY <1>4, <1>5 DEF FusionJob, Pending
<1>7. Learn(o, j)
  BY <1>2, <1>4
<1>8. QED
  BY <1>1, <1>6, <1>7, FusionLearns

LEMMA CommitFusionKeeps ==
    ASSUME FusionInv, part = "fusion", part' = part, NEW o \in Operators, CommitFusion(o)
    PROVE  FusionInv'
<1>1. SessionsOK' /\ started' \in Nat /\ job'[o] = Idle /\ \A q \in Operators : q # o => job'[q] = job[q]
  BY OneFinishes DEF FusionInv, CommitFusion
<1>2. claims \subseteq claims' /\ resolutions \subseteq resolutions'
  BY DEF CommitFusion, Into
<1>3. Numbered(claims, "fusion_insert", "claims")'
  <2>1. PICK rows, more : rows = claims /\ more = claims'
    OBVIOUS
  <2>2. Numbered(more, "fusion_insert", "claims")'
    BY <2>1, NumberedInserts DEF CommitFusion, Into, FusionInv
  <2>3. QED
    BY <2>1, <2>2
<1>4. \A s \in reputations' : s \in reputations \/ Fair(s)
  BY DEF CommitFusion, Into, FusionInv, FusionJob, Pending, At
<1>5. QED
  BY <1>1, <1>2, <1>3, <1>4, IdleFusionJob, FusionStep

LEMMA FusionNextKeeps ==
    ASSUME FusionInv, part = "fusion", part' = part, NEW o \in Operators, FusionNext(o)
    PROVE  FusionInv'
<1>1. CASE AddClaim(o)
  <2>1. PICK row : row.id = started + 1 /\ Adds(o, "claims", row)
    BY <1>1 DEF AddClaim
  <2>2. QED
    BY <2>1, AddsKeeps
<1>2. CASE AddLineage(o)
  BY <1>2, AddsKeeps DEF AddLineage
<1>3. CASE AddCorroboration(o)
  BY <1>3, AddsKeeps DEF AddCorroboration
<1>4. CASE AddResolution(o)
  BY <1>4, AddsKeeps DEF AddResolution
<1>5. CASE AddDispute(o)
  BY <1>5, AddsKeeps DEF AddDispute
<1>6. CASE AddScore(o)
  BY <1>6, AddsKeeps DEF AddScore
<1>7. QED
  BY <1>1, <1>2, <1>3, <1>4, <1>5, <1>6, BeginReputationKeeps, CalculateReputationKeeps, CommitFusionKeeps
     DEF FusionNext

LEMMA FusionStarts == Init => FusionInv
<1> SUFFICES ASSUME Init PROVE FusionInv
  OBVIOUS
<1>1. claims = {} /\ reputations = {}
  BY DEF Init, FusionInit
<1>2. QED
  BY <1>1, DeskStarts, NumberedStarts, IdleFusionJob DEF FusionInv

LEMMA FusionKept == FusionInv /\ [Next]_vars => FusionInv'
<1> SUFFICES ASSUME FusionInv, [Next]_vars PROVE FusionInv'
  OBVIOUS
<1>1. part' = part
  BY FusionPart
<1>2. CASE part # "fusion"
  BY <1>1, <1>2, FusionPart DEF FusionInv, fusionVars
<1>3. CASE part = "fusion"
  <2>1. ASSUME NEW o \in Operators, Dies(o), UNCHANGED fusionVars PROVE FusionInv'
    BY <1>1, <1>3, <2>1, IdleFusionJob, FusionLearns DEF Dies, Finish
  <2>2. ASSUME Tick \/ UNCHANGED sessionVars, UNCHANGED fusionVars PROVE FusionInv'
    <3>1. SessionsOK' /\ UNCHANGED <<started, job>>
      BY <1>3, <2>2, ClockTicks, NothingHappens DEF FusionInv, Tick, sessionVars
    <3>2. PICK rows : rows = claims
      OBVIOUS
    <3>3. Numbered(rows, "fusion_insert", "claims")'
      BY <1>3, <3>1, <3>2, NumberedRests DEF FusionInv
    <3>4. Numbered(claims, "fusion_insert", "claims")'
      BY <2>2, <3>2, <3>3 DEF fusionVars
    <3>5. (\A o \in Operators : FusionJob(job[o])') /\ \A s \in reputations' : Fair(s)'
      <4>1. claims' = claims /\ resolutions' = resolutions /\ reputations' = reputations
        BY <2>2 DEF fusionVars
      <4>2. \A o \in Operators : FusionJob(job[o])'
        <5> TAKE o \in Operators
        <5>1. PICK k : k = job[o] /\ FusionJob(k)
          BY <1>3 DEF FusionInv
        <5>2. FusionJob(k)'
          BY <4>1, <5>1, FairStays
        <5>3. QED
          BY <3>1, <5>1, <5>2
      <4>3. QED
        BY <1>3, <4>1, <4>2, FairStays DEF FusionInv
    <3>6. QED
      BY <1>1, <1>3, <3>1, <3>4, <3>5 DEF FusionInv
  <2>3. QED
    BY <1>1, <1>3, <2>1, <2>2, FusionNextKeeps, FusionPart
<1>4. QED
  BY <1>2, <1>3

\* Inductive: an id names one claim for good, so that a snapshot which is stored late
\* still counts the claims that were selected for it.
THEOREM FusionInductive == Spec => []FusionInv
BY FusionStarts, FusionKept, PTL DEF Spec

\* Whatever is recorded late, out of order or meanwhile, a snapshot counts claims of its
\* source and its cutoff, each with one fate that was on record then (calculate_reputation).
THEOREM ReputationsAlwaysKeepToTheirCutoff == Spec => []ReputationsKeepToTheirCutoff
<1>1. ASSUME FusionInv PROVE ReputationsKeepToTheirCutoff
  <2>1. ASSUME NEW s \in reputations
        PROVE  Fair(s) /\ \A c \in claims : c.id \in s.counted => c.source = s.source /\ c.at <= s.cutoff
    <3>1. part = "fusion" /\ Fair(s)
      BY <1>1 DEF FusionInv
    <3>2. QED
      BY <1>1, <3>1 DEF FusionInv, Fair, CountedOf, Numbered
  <2>2. QED
    BY <2>1 DEF ReputationsKeepToTheirCutoff, Fair, Resolved
<1>2. QED
  BY <1>1, FusionInductive, PTL

-----------------------------------------------------------------------------
(* Versions of posts and rumors.                                           *)

\* A row revises nothing, or a row that is there and was observed before it.
Linked(r, rows) ==
    r.at \in Nat /\ (r.revises # 0 => \E p \in rows : p.id = r.revises /\ p.at < r.at)

LEMMA NumberedChain ==
    ASSUME NEW rows, NEW pc, NEW table, Numbered(rows, pc, table), IsFiniteSet(rows),
           \A r \in rows : Linked(r, rows)
    PROVE  Chain(rows)
BY DEF Numbered, Given, Linked, Chain

\* What a row revises is of the same post.
SamePost(r, rows) ==
    r.revises # 0 => \E p \in rows : p.id = r.revises /\ p.native = r.native

SocialJob(j) ==
    /\ Pending(j, "social_insert", "posts") => Linked(j.row, socialPosts) /\ SamePost(j.row, socialPosts)
    /\ Pending(j, "social_insert", "rumors") => Linked(j.row, rumorClaims)

SocialRows ==
    /\ IsFiniteSet(socialPosts) /\ IsFiniteSet(rumorClaims)
    /\ \A p \in socialPosts : Linked(p, socialPosts) /\ SamePost(p, socialPosts)
    /\ \A r \in rumorClaims : Linked(r, rumorClaims)
    /\ \A s, t \in socialSources : s.native = t.native => s = t

SocialInv ==
    /\ part = "social" =>
          /\ SessionsOK /\ started \in Nat
          /\ Numbered(socialPosts, "social_insert", "posts")
          /\ Numbered(rumorClaims, "social_insert", "rumors")
          /\ \A o \in Operators : SocialJob(job[o])
          /\ SocialRows
    /\ part # "social" => socialPosts = {} /\ rumorClaims = {} /\ socialSources = {}

LEMMA SocialPart ==
    ASSUME [Next]_vars
    PROVE  /\ part' = part
           /\ part # "social" => UNCHANGED socialVars
           /\ part = "social" =>
                 \/ \E o \in Operators : SocialNext(o)
                 \/ (\E o \in Operators : Dies(o)) /\ UNCHANGED socialVars
                 \/ Tick /\ UNCHANGED socialVars
                 \/ UNCHANGED <<sessionVars, socialVars>>
BY DEF Next, vars, Telegram, Collects, Interprets, Arrival, Outside, collectedVars, interpretedVars

LEMMA SocialJobStays ==
    ASSUME socialPosts \subseteq socialPosts', rumorClaims \subseteq rumorClaims', NEW j, SocialJob(j)
    PROVE  SocialJob(j)'
BY DEF SocialJob, Pending, Linked, SamePost

\* Posts and rumors are only added, and each knows what it revises.
LEMMA SocialStep ==
    ASSUME SocialInv, part = "social", part' = part, SessionsOK', started' \in Nat,
           socialPosts \subseteq socialPosts', rumorClaims \subseteq rumorClaims',
           Numbered(socialPosts, "social_insert", "posts")', Numbered(rumorClaims, "social_insert", "rumors")',
           SocialRows',
           NEW o \in Operators, NEW j, SocialJob(j), job'[o] = j,
           \A q \in Operators : q # o => job'[q] = job[q]
    PROVE  SocialInv'
<1>1. \A q \in Operators : SocialJob(job[q])'
  <2> TAKE q \in Operators
  <2>1. PICK k : k = job'[q] /\ SocialJob(k)
    BY DEF SocialInv
  <2>2. SocialJob(k)'
    BY <2>1, SocialJobStays
  <2>3. QED
    BY <2>1, <2>2
<1>2. QED
  BY <1>1 DEF SocialInv

LEMMA IdleSocialJob == SocialJob(Idle)
BY DEF SocialJob, Pending, Idle

\* A step that leaves every row as it was, and what the process then knows.
LEMMA SocialLearns ==
    ASSUME SocialInv, part = "social", part' = part, UNCHANGED socialVars,
           NEW o \in Operators, NEW j, SocialJob(j),
           \/ /\ Begin(o, j)
              /\ Pending(j, "social_insert", "posts") \/ Pending(j, "social_insert", "rumors") =>
                    j.row.id = started + 1
           \/ Learn(o, j) /\ j.pc # "social_insert"
    PROVE  SocialInv'
<1>1. SessionsOK' /\ started' \in Nat /\ job'[o] = j /\ \A q \in Operators : q # o => job'[q] = job[q]
  BY OneBegins, OneLearns DEF SocialInv
<1>2. PICK old, rumored : old = socialPosts /\ rumored = rumorClaims
  OBVIOUS
<1>3. Numbered(old, "social_insert", "posts")' /\ Numbered(rumored, "social_insert", "rumors")'
  <2>1. /\ Numbered(old, "social_insert", "posts") /\ Numbered(rumored, "social_insert", "rumors")
        /\ SessionsOK /\ started \in Nat
    BY <1>2 DEF SocialInv
  <2>2. CASE Begin(o, j)
    BY <2>1, <2>2, NumberedBegins DEF Begin, Learn, Pending
  <2>3. CASE Learn(o, j) /\ j.pc # "social_insert"
    BY <2>1, <2>3, NumberedLearns DEF Pending
  <2>4. QED
    BY <2>2, <2>3
<1>4. Numbered(socialPosts, "social_insert", "posts")' /\ Numbered(rumorClaims, "social_insert", "rumors")'
  BY <1>2, <1>3 DEF socialVars
<1>5. SocialRows'
  BY DEF SocialInv, SocialRows, Linked, SamePost, socialVars
<1>6. QED
  BY <1>1, <1>4, <1>5, SocialStep DEF socialVars

\* What is to be inserted.
LEMMA AddsSocialKeeps ==
    ASSUME SocialInv, part = "social", part' = part, NEW o \in Operators, NEW table, NEW row,
           AddsSocial(o, table, row), table \in {"posts", "rumors"} => row.id = started + 1,
           table = "posts" => Linked(row, socialPosts) /\ SamePost(row, socialPosts),
           table = "rumors" => Linked(row, rumorClaims)
    PROVE  SocialInv'
<1>1. PICK j : j = [pc |-> "social_insert", table |-> table, row |-> row]
  OBVIOUS
<1>2. Begin(o, j) /\ UNCHANGED socialVars
  BY <1>1 DEF AddsSocial
<1>3. /\ SocialJob(j)
      /\ Pending(j, "social_insert", "posts") \/ Pending(j, "social_insert", "rumors") => j.row.id = started + 1
  BY <1>1 DEF SocialJob, Pending
<1>4. QED
  BY <1>2, <1>3, SocialLearns

LEMMA AddPostKeeps ==
    ASSUME SocialInv, part = "social", part' = part, NEW o \in Operators, AddPost(o)
    PROVE  SocialInv'
<1>1. PICK s \in socialSources, native \in NativePosts, at \in 0..now, prior \in {0} \cup {p.id : p \in socialPosts} :
          LET row == [id |-> started + 1, source |-> s.id, native |-> native, at |-> at, revises |-> prior]
          IN  Edit(row) /\ AddsSocial(o, "posts", row)
  BY DEF AddPost
<1>2. PICK row : /\ row = [id |-> started + 1, source |-> s.id, native |-> native, at |-> at, revises |-> prior]
                 /\ Edit(row) /\ AddsSocial(o, "posts", row)
  BY <1>1
<1>3. now \in Nat
  BY SessionsAssumption DEF SocialInv, SessionsOK, Time
<1>4. row.id = started + 1 /\ row.at \in Nat
  BY <1>2, <1>3
<1>5. Linked(row, socialPosts) /\ SamePost(row, socialPosts)
  BY <1>2, <1>4 DEF Edit, Linked, SamePost
<1>6. QED
  BY <1>2, <1>4, <1>5, AddsSocialKeeps

LEMMA AddRumorKeeps ==
    ASSUME SocialInv, part = "social", part' = part, NEW o \in Operators, AddRumor(o)
    PROVE  SocialInv'
<1>1. PICK at \in 0..now, prior \in {0} \cup {r.id : r \in rumorClaims}, version \in SocialId :
          LET row == [id |-> started + 1, at |-> at, version |-> version, revises |-> prior]
          IN  Follows(row, rumorClaims) /\ AddsSocial(o, "rumors", row)
  BY DEF AddRumor
<1>2. PICK row : /\ row = [id |-> started + 1, at |-> at, version |-> version, revises |-> prior]
                 /\ Follows(row, rumorClaims) /\ AddsSocial(o, "rumors", row)
  BY <1>1
<1>3. now \in Nat
  BY SessionsAssumption DEF SocialInv, SessionsOK, Time
<1>4. row.id = started + 1 /\ row.at \in Nat
  BY <1>2, <1>3
<1>5. Linked(row, rumorClaims)
  BY <1>2, <1>4 DEF Follows, Linked
<1>6. QED
  BY <1>2, <1>4, <1>5, AddsSocialKeeps

LEMMA CommitSocialKeeps ==
    ASSUME SocialInv, part = "social", part' = part, NEW o \in Operators, CommitSocial(o)
    PROVE  SocialInv'
<1>1. SessionsOK' /\ started' \in Nat /\ job'[o] = Idle /\ \A q \in Operators : q # o => job'[q] = job[q]
  BY OneFinishes DEF SocialInv, CommitSocial
<1>2. PICK k : k = job[o]
  OBVIOUS
<1>3. /\ k.pc = "social_insert" /\ SocialJob(k)
      /\ socialPosts' = IF k.table = "posts" THEN socialPosts \cup {k.row} ELSE socialPosts
      /\ rumorClaims' = IF k.table = "rumors" THEN rumorClaims \cup {k.row} ELSE rumorClaims
      /\ socialSources' = IF k.table = "sources" THEN socialSources \cup {k.row} ELSE socialSources
      /\ k.table = "sources" => \A s \in socialSources : s.native # k.row.native
      /\ Finish(o)
  BY <1>2 DEF CommitSocial, SocialInv, Stores, At, SourceTaken
<1>4. Numbered(socialPosts, "social_insert", "posts")' /\ Numbered(rumorClaims, "social_insert", "rumors")'
  <2>1. PICK old, new, rumored, more :
            old = socialPosts /\ new = socialPosts' /\ rumored = rumorClaims /\ more = rumorClaims'
    OBVIOUS
  <2>2. /\ Numbered(old, "social_insert", "posts") /\ Numbered(rumored, "social_insert", "rumors") /\ SessionsOK
        /\ At(o, "social_insert")
    BY <1>2, <1>3, <2>1 DEF SocialInv, At
  <2>3. Numbered(new, "social_insert", "posts")' /\ Numbered(more, "social_insert", "rumors")'
    BY <1>2, <1>3, <2>1, <2>2, NumberedInserts
  <2>4. QED
    BY <2>1, <2>3
<1>5. SocialRows'
  <2>1. IsFiniteSet(socialPosts)' /\ IsFiniteSet(rumorClaims)'
    BY <1>3, FS_AddElement DEF SocialInv, SocialRows
  <2>2. \A p \in socialPosts' : Linked(p, socialPosts)' /\ SamePost(p, socialPosts)'
    BY <1>3 DEF SocialInv, SocialRows, SocialJob, Pending, Linked, SamePost
  <2>3. \A r \in rumorClaims' : Linked(r, rumorClaims)'
    BY <1>3 DEF SocialInv, SocialRows, SocialJob, Pending, Linked
  <2>4. \A s, t \in socialSources' : s.native = t.native => s = t
    BY <1>3 DEF SocialInv, SocialRows
  <2>5. QED
    BY <2>1, <2>2, <2>3, <2>4 DEF SocialRows
<1>6. QED
  BY <1>1, <1>3, <1>4, <1>5, IdleSocialJob, SocialStep

LEMMA SocialNextKeeps ==
    ASSUME SocialInv, part = "social", part' = part, NEW o \in Operators, SocialNext(o)
    PROVE  SocialInv'
<1>1. CASE AddSource(o)
  BY <1>1, AddsSocialKeeps DEF AddSource
<1>2. CASE AddNarrative(o)
  BY <1>2, AddsSocialKeeps DEF AddNarrative
<1>3. CASE AddEdge(o)
  BY <1>3, AddsSocialKeeps DEF AddEdge
<1>4. CASE AddCluster(o)
  BY <1>4, AddsSocialKeeps DEF AddCluster
<1>5. CASE AddStanding(o)
  BY <1>5, AddsSocialKeeps DEF AddStanding
<1>6. CASE SocialRefused(o)
  BY <1>6, IdleSocialJob, SocialLearns DEF SocialRefused, Finish, Idle
<1>7. QED
  BY <1>1, <1>2, <1>3, <1>4, <1>5, <1>6, AddPostKeeps, AddRumorKeeps, CommitSocialKeeps DEF SocialNext

LEMMA SocialStarts == Init => SocialInv
<1> SUFFICES ASSUME Init PROVE SocialInv
  OBVIOUS
<1>1. socialPosts = {} /\ rumorClaims = {} /\ socialSources = {}
  BY DEF Init, SocialInit
<1>2. SocialRows
  BY <1>1, FS_EmptySet DEF SocialRows
<1>3. QED
  BY <1>1, <1>2, DeskStarts, NumberedStarts, IdleSocialJob DEF SocialInv

LEMMA SocialKept == SocialInv /\ [Next]_vars => SocialInv'
<1> SUFFICES ASSUME SocialInv, [Next]_vars PROVE SocialInv'
  OBVIOUS
<1>1. part' = part
  BY SocialPart
<1>2. CASE part # "social"
  BY <1>1, <1>2, SocialPart DEF SocialInv, socialVars
<1>3. CASE part = "social"
  <2>1. ASSUME NEW o \in Operators, Dies(o), UNCHANGED socialVars PROVE SocialInv'
    BY <1>1, <1>3, <2>1, IdleSocialJob, SocialLearns DEF Dies, Finish, Idle
  <2>2. ASSUME Tick \/ UNCHANGED sessionVars, UNCHANGED socialVars PROVE SocialInv'
    <3>1. SessionsOK' /\ UNCHANGED <<started, job>>
      BY <1>3, <2>2, ClockTicks, NothingHappens DEF SocialInv, Tick, sessionVars
    <3>2. PICK old, rumored : old = socialPosts /\ rumored = rumorClaims
      OBVIOUS
    <3>3. Numbered(old, "social_insert", "posts")' /\ Numbered(rumored, "social_insert", "rumors")'
      BY <1>3, <3>1, <3>2, NumberedRests DEF SocialInv
    <3>4. Numbered(socialPosts, "social_insert", "posts")' /\ Numbered(rumorClaims, "social_insert", "rumors")'
      BY <2>2, <3>2, <3>3 DEF socialVars
    <3>5. SocialRows' /\ \A j : SocialJob(j) => SocialJob(j)'
      BY <1>3, <2>2, SocialJobStays DEF SocialInv, SocialRows, Linked, SamePost, socialVars
    <3>6. QED
      BY <1>1, <1>3, <3>1, <3>4, <3>5 DEF SocialInv
  <2>3. QED
    BY <1>1, <1>3, <2>1, <2>2, SocialNextKeeps, SocialPart
<1>4. QED
  BY <1>2, <1>3

\* Inductive: an id names one version for good, and what a version revises is there and
\* was observed before it, whoever appends in between.
THEOREM SocialInductive == Spec => []SocialInv
BY SocialStarts, SocialKept, PTL DEF Spec

\* Whoever appends what, late or out of order, a reader of a cutoff is shown no version
\* beside one that revises it, a post keeps its identity, and an identity has one source
\* (posts_visible_at, rumors_visible_at, add_post).
THEOREM SocialHistoryAlwaysStandsAlone == Spec => []SocialHistoryStandsAlone
<1>1. ASSUME SocialInv PROVE SocialHistoryStandsAlone
  <2>1. Chain(socialPosts) /\ Chain(rumorClaims) /\ \A s, t \in socialSources : s.native = t.native => s = t
    <3>1. CASE part = "social"
      BY <1>1, <3>1, NumberedChain DEF SocialInv, SocialRows
    <3>2. CASE part # "social"
      BY <1>1, <3>2, FS_EmptySet DEF SocialInv, Chain
    <3>3. QED
      BY <3>1, <3>2
  <2>2. ASSUME NEW cutoff \in Time
        PROVE  /\ StandAlone(PostsVisibleAt(cutoff), socialPosts)
               /\ StandAlone(RumorsVisibleAt(cutoff), rumorClaims)
    BY <2>1, CurrentStandsAlone, SessionsAssumption DEF PostsVisibleAt, RumorsVisibleAt, Time
  <2>3. ASSUME NEW p \in socialPosts, NEW q \in Line(p, socialPosts) PROVE q.native = p.native /\ q.at <= p.at
    <3>1. part = "social" /\ Numbered(socialPosts, "social_insert", "posts") /\ SocialRows
      BY <1>1 DEF SocialInv
    <3>2. PICK kin : kin = {r \in socialPosts : r.native = p.native}
      OBVIOUS
    <3>3. ASSUME NEW r \in kin, NEW s \in socialPosts, r.revises = s.id PROVE s \in kin
      BY <3>1, <3>2, <3>3 DEF SocialRows, SamePost, Numbered, Given
    <3>4. Line(p, socialPosts) \subseteq kin
      BY <3>2, <3>3, LineStaysIn
    <3>5. QED
      BY <2>1, <3>2, <3>4, LineDescends
  <2>4. QED
    BY <2>1, <2>2, <2>3 DEF SocialHistoryStandsAlone
<1>2. QED
  BY <1>1, SocialInductive, PTL

-----------------------------------------------------------------------------
(* Reports of geopolitical events.                                         *)

\* Evidence that was there by a time.
Seen(report, at) == report \in DOMAIN reports /\ reports[report] <= at

\* An event, of evidence by its time, and of candidates that were promoted by then.
Supportable(e) ==
    /\ Linked(e, geoEvents)
    /\ \A r \in e.reports : Seen(r, e.at)
    /\ e.reports # {}
    /\ \A c \in e.of : /\ Seen(c.report, c.at)
                       /\ \E r \in reviews : /\ r.candidate = c /\ r.state = "promoted"
                                             /\ c.at <= r.at /\ r.at <= e.at

PathHolds(p, events) == \E e \in events : e.id = p.event /\ e.at <= p.at

Upto(rows, cutoff) == \A r \in rows : r.at <= cutoff

GeoJob(j) ==
    /\ Pending(j, "geo_insert", "candidates") => Seen(j.row.report, j.row.at)
    /\ Pending(j, "geo_insert", "reviews") => j.row.candidate \in eventCandidates /\ j.row.candidate.at <= j.row.at
    /\ Pending(j, "geo_insert", "events") => Supportable(j.row)
    /\ Pending(j, "geo_insert", "paths") => PathHolds(j.row, geoEvents)
    /\ j.pc = "geo_paths" => j.events \subseteq geoEvents /\ Upto(j.events, j.cutoff)
    /\ j.pc \in {"geo_responses", "geo_report"} =>
          /\ Upto(j.events \cup j.paths, j.cutoff)
          /\ \A p \in j.paths : PathHolds(p, j.events)
    /\ j.pc = "geo_report" => Upto(j.responses, j.cutoff)

GeoRows ==
    /\ \A r \in DOMAIN reports : reports[r] \in Nat
    /\ \A c \in eventCandidates : Seen(c.report, c.at)
    /\ \A r \in reviews : r.candidate \in eventCandidates /\ r.candidate.at <= r.at
    /\ IsFiniteSet(geoEvents) /\ \A e \in geoEvents : Supportable(e)
    /\ \A p \in paths : PathHolds(p, geoEvents)

GeoInv ==
    /\ part = "geopolitical" =>
          /\ SessionsOK /\ started \in Nat
          /\ Numbered(geoEvents, "geo_insert", "events")
          /\ \A o \in Operators : GeoJob(job[o])
          /\ GeoRows
    /\ part # "geopolitical" => geoEvents = {} /\ AllElsewhere("geo_report")

LEMMA GeoPart ==
    ASSUME [Next]_vars
    PROVE  /\ part' = part
           /\ part # "geopolitical" => UNCHANGED geopoliticalVars
           /\ part = "geopolitical" =>
                 \/ \E o \in Operators : GeopoliticalNext(o)
                 \/ ReportArrives /\ UNCHANGED sessionVars
                 \/ (\E o \in Operators : Dies(o)) /\ UNCHANGED geopoliticalVars
                 \/ Tick /\ UNCHANGED geopoliticalVars
                 \/ UNCHANGED <<sessionVars, geopoliticalVars>>
BY DEF Next, vars, Telegram, Collects, Interprets, Arrival, Outside, collectedVars, interpretedVars

\* Nothing that was recorded goes away.
GeoGrows ==
    /\ \A r \in DOMAIN reports : r \in DOMAIN reports' /\ reports'[r] = reports[r]
    /\ eventCandidates \subseteq eventCandidates' /\ reviews \subseteq reviews' /\ geoEvents \subseteq geoEvents'

LEMMA SeenStays ==
    ASSUME GeoGrows
    PROVE  /\ \A r, at : Seen(r, at) => Seen(r, at)'
           /\ \A e : Supportable(e) => Supportable(e)'
           /\ \A p : PathHolds(p, geoEvents) => PathHolds(p, geoEvents)'
<1>1. \A r, at : Seen(r, at) => Seen(r, at)'
  BY DEF GeoGrows, Seen
<1>2. ASSUME NEW e, Supportable(e) PROVE Supportable(e)'
  <2>1. PICK cited, of, at : cited = e.reports /\ of = e.of /\ at = e.at
    OBVIOUS
  <2>2. \A r \in cited : Seen(r, at)'
    BY <1>1, <1>2, <2>1 DEF Supportable
  <2>3. \A c \in of : /\ Seen(c.report, c.at)'
                      /\ \E r \in reviews' : r.candidate = c /\ r.state = "promoted" /\ c.at <= r.at /\ r.at <= at
    <3> TAKE c \in of
    <3>1. PICK report, time : report = c.report /\ time = c.at
      OBVIOUS
    <3>2. Seen(report, time)'
      BY <1>1, <1>2, <2>1, <3>1 DEF Supportable
    <3>3. \E r \in reviews' : r.candidate = c /\ r.state = "promoted" /\ c.at <= r.at /\ r.at <= at
      BY <1>2, <2>1 DEF Supportable, GeoGrows
    <3>4. QED
      BY <3>1, <3>2, <3>3
  <2>4. Linked(e, geoEvents)'
    BY <1>2 DEF Supportable, Linked, GeoGrows
  <2>5. QED
    BY <1>2, <2>1, <2>2, <2>3, <2>4 DEF Supportable
<1>3. \A p : PathHolds(p, geoEvents) => PathHolds(p, geoEvents)'
  BY DEF GeoGrows, PathHolds
<1>4. QED
  BY <1>1, <1>2, <1>3

LEMMA GeoJobStays ==
    ASSUME GeoGrows, NEW j, GeoJob(j)
    PROVE  GeoJob(j)'
<1>1. PICK row, report, at : row = j.row /\ report = j.row.report /\ at = j.row.at
  OBVIOUS
<1>2. Pending(j, "geo_insert", "candidates") => Seen(report, at)'
  BY <1>1, SeenStays DEF GeoJob
<1>3. Pending(j, "geo_insert", "events") => Supportable(row)'
  BY <1>1, SeenStays DEF GeoJob
<1>4. Pending(j, "geo_insert", "paths") => PathHolds(row, geoEvents)'
  BY <1>1, SeenStays DEF GeoJob
<1>5. QED
  BY <1>1, <1>2, <1>3, <1>4 DEF GeoJob, Pending, GeoGrows, Upto, PathHolds

\* What a step may add.
GeoAdds ==
    /\ \A r \in DOMAIN reports' : reports'[r] \in Nat
    /\ \A c \in eventCandidates' : c \in eventCandidates \/ Seen(c.report, c.at)
    /\ \A r \in reviews' : r \in reviews \/ (r.candidate \in eventCandidates /\ r.candidate.at <= r.at)
    /\ IsFiniteSet(geoEvents) => IsFiniteSet(geoEvents')
    /\ \A e \in geoEvents' : e \in geoEvents \/ Supportable(e)
    /\ \A p \in paths' : p \in paths \/ PathHolds(p, geoEvents)

LEMMA GeoRowsStay ==
    ASSUME GeoRows, GeoGrows, GeoAdds
    PROVE  GeoRows'
<1>1. \A c \in eventCandidates' : Seen(c.report, c.at)'
  <2> TAKE c \in eventCandidates'
  <2>1. PICK report, at : report = c.report /\ at = c.at
    OBVIOUS
  <2>2. Seen(report, at)'
    BY <2>1, SeenStays DEF GeoRows, GeoAdds
  <2>3. QED
    BY <2>1, <2>2
<1>2. \A e \in geoEvents' : Supportable(e)'
  BY SeenStays DEF GeoRows, GeoAdds
<1>3. \A p \in paths' : PathHolds(p, geoEvents)'
  BY SeenStays DEF GeoRows, GeoAdds
<1>4. \A r \in reviews' : r.candidate \in eventCandidates' /\ r.candidate.at <= r.at
  BY DEF GeoRows, GeoAdds, GeoGrows
<1>5. QED
  BY <1>1, <1>2, <1>3, <1>4 DEF GeoRows, GeoAdds

LEMMA GeoStep ==
    ASSUME GeoInv, part = "geopolitical", part' = part, SessionsOK', started' \in Nat, GeoGrows, GeoAdds,
           Numbered(geoEvents, "geo_insert", "events")',
           NEW o \in Operators, NEW j, GeoJob(j), job'[o] = j,
           \A q \in Operators : q # o => job'[q] = job[q]
    PROVE  GeoInv'
<1>1. \A q \in Operators : GeoJob(job[q])'
  <2> TAKE q \in Operators
  <2>1. PICK k : k = job'[q] /\ GeoJob(k)
    BY DEF GeoInv
  <2>2. GeoJob(k)'
    BY <2>1, GeoJobStays
  <2>3. QED
    BY <2>1, <2>2
<1>2. QED
  BY <1>1, GeoRowsStay DEF GeoInv

LEMMA IdleGeoJob == GeoJob(Idle)
BY DEF GeoJob, Pending, Idle

LEMMA GeoRests ==
    ASSUME GeoInv, part = "geopolitical", UNCHANGED geopoliticalVars
    PROVE  GeoGrows /\ GeoAdds
BY DEF GeoInv, GeoRows, GeoGrows, GeoAdds, geopoliticalVars

\* A step that leaves every row as it was, and what the process then knows.
LEMMA GeoLearns ==
    ASSUME GeoInv, part = "geopolitical", part' = part, UNCHANGED geopoliticalVars,
           NEW o \in Operators, NEW j, GeoJob(j),
           \/ Begin(o, j) /\ (Pending(j, "geo_insert", "events") => j.row.id = started + 1)
           \/ Learn(o, j) /\ j.pc # "geo_insert"
    PROVE  GeoInv'
<1>1. SessionsOK' /\ started' \in Nat /\ job'[o] = j /\ \A q \in Operators : q # o => job'[q] = job[q]
  BY OneBegins, OneLearns DEF GeoInv
<1>2. PICK rows : rows = geoEvents
  OBVIOUS
<1>3. Numbered(rows, "geo_insert", "events")'
  <2>1. Numbered(rows, "geo_insert", "events") /\ SessionsOK /\ started \in Nat
    BY <1>2 DEF GeoInv
  <2>2. CASE Begin(o, j) /\ (Pending(j, "geo_insert", "events") => j.row.id = started + 1)
    BY <2>1, <2>2, NumberedBegins
  <2>3. CASE Learn(o, j) /\ j.pc # "geo_insert"
    BY <2>1, <2>3, NumberedLearns DEF Pending
  <2>4. QED
    BY <2>2, <2>3
<1>4. Numbered(geoEvents, "geo_insert", "events")'
  BY <1>2, <1>3 DEF geopoliticalVars
<1>5. QED
  BY <1>1, <1>4, GeoRests, GeoStep

\* What is to be inserted.
LEMMA AddsGeoKeeps ==
    ASSUME GeoInv, part = "geopolitical", part' = part, NEW o \in Operators, NEW table, NEW row,
           AddsGeo(o, table, row),
           table = "candidates" => Seen(row.report, row.at),
           table = "reviews" => row.candidate \in eventCandidates /\ row.candidate.at <= row.at,
           table = "events" => row.id = started + 1 /\ Supportable(row),
           table = "paths" => PathHolds(row, geoEvents)
    PROVE  GeoInv'
<1>1. PICK j : j = [pc |-> "geo_insert", table |-> table, row |-> row]
  OBVIOUS
<1>2. Begin(o, j) /\ UNCHANGED geopoliticalVars
  BY <1>1 DEF AddsGeo
<1>3. GeoJob(j) /\ (Pending(j, "geo_insert", "events") => j.row.id = started + 1)
  BY <1>1 DEF GeoJob, Pending
<1>4. QED
  BY <1>2, <1>3, GeoLearns

LEMMA ExtractCandidateKeeps ==
    ASSUME GeoInv, part = "geopolitical", part' = part, NEW o \in Operators, ExtractCandidate(o)
    PROVE  GeoInv'
<1>1. PICK r \in Reports, cutoff \in 0..now :
          ReportsVisible({r}, cutoff) /\ AddsGeo(o, "candidates", [report |-> r, at |-> cutoff])
  BY DEF ExtractCandidate
<1>2. PICK row : row = [report |-> r, at |-> cutoff]
  OBVIOUS
<1>3. Seen(row.report, row.at) /\ AddsGeo(o, "candidates", row)
  BY <1>1, <1>2 DEF ReportsVisible, Seen
<1>4. QED
  BY <1>3, AddsGeoKeeps

LEMMA ReviewCandidateKeeps ==
    ASSUME GeoInv, part = "geopolitical", part' = part, NEW o \in Operators, ReviewCandidate(o)
    PROVE  GeoInv'
<1>1. PICK c \in eventCandidates, state \in ReviewStates, at \in 0..now :
          c.at <= at /\ AddsGeo(o, "reviews", [candidate |-> c, state |-> state, at |-> at])
  BY DEF ReviewCandidate
<1>2. PICK row : row = [candidate |-> c, state |-> state, at |-> at]
  OBVIOUS
<1>3. row.candidate \in eventCandidates /\ row.candidate.at <= row.at /\ AddsGeo(o, "reviews", row)
  BY <1>1, <1>2
<1>4. QED
  BY <1>3, AddsGeoKeeps

LEMMA AddEventKeeps ==
    ASSUME GeoInv, part = "geopolitical", part' = part, NEW o \in Operators, AddEvent(o)
    PROVE  GeoInv'
<1>1. PICK type \in EventTypes, cited \in SUBSET Reports, of \in {{}} \cup {{c} : c \in eventCandidates},
           at \in 0..now, prior \in {0} \cup {e.id : e \in geoEvents}, version \in GeoId :
          LET row == [id |-> started + 1, type |-> type, reports |-> cited, of |-> of,
                      at |-> at, version |-> version, revises |-> prior]
          IN  /\ ReportsVisible(cited, at) /\ GeoRevision(row)
              /\ \A c \in of : "promoted" \in ReviewStatesAt(c, at)
              /\ AddsGeo(o, "events", row)
  BY DEF AddEvent
<1>2. PICK row : /\ row = [id |-> started + 1, type |-> type, reports |-> cited, of |-> of,
                           at |-> at, version |-> version, revises |-> prior]
                 /\ ReportsVisible(cited, at) /\ GeoRevision(row)
                 /\ \A c \in of : "promoted" \in ReviewStatesAt(c, at)
                 /\ AddsGeo(o, "events", row)
  BY <1>1
<1>3. now \in Nat /\ GeoRows
  BY SessionsAssumption DEF GeoInv, SessionsOK, Time
<1>4. row.id = started + 1 /\ row.at = at /\ row.reports = cited /\ row.of = of /\ row.revises = prior /\ at \in Nat
  BY <1>2, <1>3
<1>5. Linked(row, geoEvents)
  BY <1>2, <1>4 DEF GeoRevision, Follows, Linked
<1>6. cited # {} /\ \A r \in cited : Seen(r, at)
  BY <1>2 DEF ReportsVisible, Seen
<1>7. ASSUME NEW c \in of
      PROVE  /\ Seen(c.report, c.at)
             /\ \E r \in reviews : r.candidate = c /\ r.state = "promoted" /\ c.at <= r.at /\ r.at <= at
  <2>1. c \in eventCandidates
    OBVIOUS
  <2>2. PICK r \in reviews : r.candidate = c /\ r.at <= at /\ r.state = "promoted"
    BY <1>2 DEF ReviewStatesAt
  <2>3. QED
    BY <1>3, <2>1, <2>2 DEF GeoRows
<1>8. Supportable(row)
  BY <1>4, <1>5, <1>6, <1>7 DEF Supportable
<1>9. QED
  BY <1>2, <1>4, <1>8, AddsGeoKeeps

LEMMA AddPathKeeps ==
    ASSUME GeoInv, part = "geopolitical", part' = part, NEW o \in Operators, AddPath(o)
    PROVE  GeoInv'
<1>1. PICK e \in geoEvents, at \in 0..now, until \in 1..MaxTime + 1 :
          e.at <= at /\ AddsGeo(o, "paths", [event |-> e.id, at |-> at, until |-> until])
  BY DEF AddPath
<1>2. PICK row : row = [event |-> e.id, at |-> at, until |-> until]
  OBVIOUS
<1>3. PathHolds(row, geoEvents) /\ AddsGeo(o, "paths", row)
  BY <1>1, <1>2 DEF PathHolds
<1>4. QED
  BY <1>3, AddsGeoKeeps

LEMMA CommitGeopoliticalKeeps ==
    ASSUME GeoInv, part = "geopolitical", part' = part, NEW o \in Operators, CommitGeopolitical(o)
    PROVE  GeoInv'
<1>1. SessionsOK' /\ started' \in Nat /\ job'[o] = Idle /\ \A q \in Operators : q # o => job'[q] = job[q]
  BY OneFinishes DEF GeoInv, CommitGeopolitical
<1>2. PICK k : k = job[o]
  OBVIOUS
<1>3. /\ k.pc = "geo_insert" /\ GeoJob(k) /\ GeoRows
      /\ eventCandidates' = IF k.table = "candidates" THEN eventCandidates \cup {k.row} ELSE eventCandidates
      /\ reviews' = IF k.table = "reviews" THEN reviews \cup {k.row} ELSE reviews
      /\ geoEvents' = IF k.table = "events" THEN geoEvents \cup {k.row} ELSE geoEvents
      /\ paths' = IF k.table = "paths" THEN paths \cup {k.row} ELSE paths
      /\ reports' = reports /\ Finish(o)
  BY <1>2 DEF CommitGeopolitical, GeoInv, Keeps, At
<1>4. Numbered(geoEvents, "geo_insert", "events")'
  <2>1. PICK rows, more : rows = geoEvents /\ more = geoEvents'
    OBVIOUS
  <2>2. Numbered(rows, "geo_insert", "events") /\ SessionsOK /\ At(o, "geo_insert")
    BY <1>2, <1>3, <2>1 DEF GeoInv, At
  <2>3. Numbered(more, "geo_insert", "events")'
    BY <1>2, <1>3, <2>1, <2>2, NumberedInserts
  <2>4. QED
    BY <2>1, <2>3
<1>5. GeoGrows
  BY <1>3 DEF GeoGrows
<1>6. GeoAdds
  <2>1. IsFiniteSet(geoEvents')
    BY <1>3, FS_AddElement DEF GeoRows
  <2>2. QED
    BY <1>3, <2>1 DEF GeoAdds, GeoRows, GeoJob, Pending
<1>7. QED
  BY <1>1, <1>4, <1>5, <1>6, IdleGeoJob, GeoStep

LEMMA BeginReportKeeps ==
    ASSUME GeoInv, part = "geopolitical", part' = part, NEW o \in Operators, BeginReport(o)
    PROVE  GeoInv'
<1>1. PICK cutoff \in 0..now : Begin(o, [pc |-> "geo_paths", cutoff |-> cutoff, events |-> EventsVisibleAt(cutoff)])
  BY DEF BeginReport
<1>2. PICK events, j : events = EventsVisibleAt(cutoff) /\ j = [pc |-> "geo_paths", cutoff |-> cutoff, events |-> events]
  OBVIOUS
<1>3. events \subseteq geoEvents /\ Upto(events, cutoff)
  BY <1>2 DEF EventsVisibleAt, CurrentAt, Upto
<1>4. GeoJob(j) /\ ~Pending(j, "geo_insert", "events") /\ Begin(o, j)
  BY <1>1, <1>2, <1>3 DEF GeoJob, Pending
<1>5. QED
  BY <1>4, GeoLearns DEF BeginReport

LEMMA ReadPathsKeeps ==
    ASSUME GeoInv, part = "geopolitical", part' = part, NEW o \in Operators, ReadPaths(o)
    PROVE  GeoInv'
<1>1. PICK k : k = job[o]
  OBVIOUS
<1>2. k.events \subseteq geoEvents /\ Upto(k.events, k.cutoff)
  BY <1>1 DEF GeoInv, GeoJob, ReadPaths, At
<1>3. PICK events, cutoff : events = k.events /\ cutoff = k.cutoff
  OBVIOUS
<1>4. PICK read, j : /\ read = PathsVisibleAt(events, cutoff)
                     /\ j = [pc |-> "geo_responses", cutoff |-> cutoff, events |-> events, paths |-> read]
  OBVIOUS
<1>5. ASSUME NEW p \in read PROVE p.at <= cutoff /\ PathHolds(p, events)
  <2>1. p \in paths /\ p.at <= cutoff /\ \E e \in events : p.event = e.id
    BY <1>4 DEF PathsVisibleAt
  <2>2. PICK e \in geoEvents : e.id = p.event /\ e.at <= p.at
    BY <2>1 DEF GeoInv, GeoRows, PathHolds
  <2>3. e \in events
    BY <1>2, <1>3, <2>1, <2>2 DEF GeoInv, Numbered
  <2>4. QED
    BY <2>1, <2>2, <2>3 DEF PathHolds
<1>6. GeoJob(j) /\ j.pc # "geo_insert"
  BY <1>2, <1>3, <1>4, <1>5 DEF GeoJob, Pending, Upto
<1>7. Learn(o, j)
  BY <1>1, <1>3, <1>4 DEF ReadPaths
<1>8. QED
  BY <1>6, <1>7, GeoLearns DEF ReadPaths

LEMMA ReadResponsesKeeps ==
    ASSUME GeoInv, part = "geopolitical", part' = part, NEW o \in Operators, ReadResponses(o)
    PROVE  GeoInv'
<1>1. PICK k : k = job[o]
  OBVIOUS
<1>2. Upto(k.events \cup k.paths, k.cutoff) /\ \A p \in k.paths : PathHolds(p, k.events)
  BY <1>1 DEF GeoInv, GeoJob, ReadResponses, At
<1>3. PICK events, cutoff, read : events = k.events /\ cutoff = k.cutoff /\ read = k.paths
  OBVIOUS
<1>4. PICK answers, j : /\ answers = ResponsesVisibleAt(cutoff)
                        /\ j = [pc |-> "geo_report", cutoff |-> cutoff, events |-> events,
                                paths |-> read, responses |-> answers]
  OBVIOUS
<1>5. Upto(answers, cutoff)
  BY <1>4 DEF ResponsesVisibleAt, Upto
<1>6. GeoJob(j) /\ j.pc # "geo_insert"
  BY <1>2, <1>3, <1>4, <1>5 DEF GeoJob, Pending
<1>7. Learn(o, j)
  BY <1>1, <1>3, <1>4 DEF ReadResponses
<1>8. QED
  BY <1>6, <1>7, GeoLearns DEF ReadResponses

LEMMA GeopoliticalNextKeeps ==
    ASSUME GeoInv, part = "geopolitical", part' = part, NEW o \in Operators, GeopoliticalNext(o)
    PROVE  GeoInv'
<1>1. CASE AddResponse(o)
  BY <1>1, AddsGeoKeeps DEF AddResponse
<1>2. CASE PrintReport(o)
  BY <1>2, IdleGeoJob, GeoLearns DEF PrintReport, Finish, Idle
<1>3. QED
  BY <1>1, <1>2, ExtractCandidateKeeps, ReviewCandidateKeeps, AddEventKeeps, AddPathKeeps, BeginReportKeeps,
     CommitGeopoliticalKeeps, ReadPathsKeeps, ReadResponsesKeeps DEF GeopoliticalNext

LEMMA GeoStarts == Init => GeoInv
<1> SUFFICES ASSUME Init PROVE GeoInv
  OBVIOUS
<1>1. reports = << >> /\ eventCandidates = {} /\ reviews = {} /\ geoEvents = {} /\ paths = {}
  BY DEF Init, GeopoliticalInit
<1>2. GeoRows
  BY <1>1, FS_EmptySet DEF GeoRows
<1>3. Elsewhere(Idle, "geo_report")
  BY IdleElsewhere DEF Awaited
<1>4. QED
  BY <1>1, <1>2, <1>3, DeskStarts, NumberedStarts, IdleGeoJob DEF GeoInv, AllElsewhere, SessionsOK

\* A step in which no process moves.
LEMMA GeoGoesOn ==
    ASSUME GeoInv, part = "geopolitical", part' = part, SessionsOK', UNCHANGED <<started, job, geoEvents>>,
           GeoGrows, GeoAdds
    PROVE  GeoInv'
<1>1. PICK rows : rows = geoEvents
  OBVIOUS
<1>2. Numbered(rows, "geo_insert", "events")'
  BY <1>1, NumberedRests DEF GeoInv
<1>3. Numbered(geoEvents, "geo_insert", "events")'
  BY <1>1, <1>2
<1>4. \A o \in Operators : GeoJob(job[o])'
  <2> TAKE o \in Operators
  <2>1. PICK k : k = job[o] /\ GeoJob(k)
    BY DEF GeoInv
  <2>2. GeoJob(k)'
    BY <2>1, GeoJobStays
  <2>3. QED
    BY <2>1, <2>2
<1>5. QED
  BY <1>3, <1>4, GeoRowsStay DEF GeoInv

LEMMA GeoKept == GeoInv /\ [Next]_vars => GeoInv'
<1> SUFFICES ASSUME GeoInv, [Next]_vars PROVE GeoInv'
  OBVIOUS
<1>1. part' = part
  BY GeoPart
<1>2. CASE part # "geopolitical"
  <2>1. geoEvents' = {}
    BY <1>2, GeoPart DEF GeoInv, geopoliticalVars
  <2>2. AllElsewhere("geo_report")'
    <3>1. "geo_report" \in Awaited /\ "geo_report" \notin {"news_entry", "fetched"}
      BY DEF Awaited
    <3>2. QED
      BY <1>2, <3>1, ElsewhereStays DEF GeoInv
  <2>3. QED
    BY <1>1, <1>2, <2>1, <2>2 DEF GeoInv
<1>3. CASE part = "geopolitical"
  <2>1. ASSUME NEW o \in Operators, Dies(o), UNCHANGED geopoliticalVars PROVE GeoInv'
    BY <1>1, <1>3, <2>1, IdleGeoJob, GeoLearns DEF Dies, Finish, Idle
  <2>2. ASSUME Tick \/ UNCHANGED sessionVars, UNCHANGED geopoliticalVars PROVE GeoInv'
    <3>1. SessionsOK' /\ UNCHANGED <<started, job>>
      BY <1>3, <2>2, ClockTicks, NothingHappens DEF GeoInv, Tick, sessionVars
    <3>2. GeoGrows /\ GeoAdds
      BY <1>3, <2>2, GeoRests
    <3>3. QED
      BY <1>1, <1>3, <2>2, <3>1, <3>2, GeoGoesOn DEF geopoliticalVars
  <2>3. ASSUME ReportArrives, UNCHANGED sessionVars PROVE GeoInv'
    <3>1. SessionsOK' /\ UNCHANGED <<started, job>> /\ now \in Nat
      BY <1>3, <2>3, NothingHappens, SessionsAssumption DEF GeoInv, sessionVars, SessionsOK, Time
    <3>2. GeoGrows /\ GeoAdds /\ geoEvents' = geoEvents
      BY <1>3, <2>3, <3>1 DEF ReportArrives, GeoInv, GeoRows, GeoGrows, GeoAdds
    <3>3. QED
      BY <1>1, <1>3, <3>1, <3>2, GeoGoesOn
  <2>4. QED
    BY <1>1, <1>3, <2>1, <2>2, <2>3, GeopoliticalNextKeeps, GeoPart
<1>4. QED
  BY <1>2, <1>3

\* Inductive: evidence, reviews and events stay, so what supports an event or a path when
\* it is checked still does when it is committed; and a report that has read its events
\* shows paths of those very events, for an id names one event.
THEOREM GeopoliticalInductive == Spec => []GeoInv
BY GeoStarts, GeoKept, PTL DEF Spec

\* Whoever appends what, also between the queries of a report, a report shows the last of
\* what was observed by its cutoff, no event beside a revision of it, paths of those events
\* only, nothing later, and events of promoted candidates (events_visible_at, add_event).
THEOREM ReportsAreAlwaysOfTheirCutoff == Spec => []ReportsAreOfTheirCutoff
<1>1. ASSUME GeoInv PROVE ReportsAreOfTheirCutoff
  <2>1. geoEvents # {} => part = "geopolitical" /\ GeoRows
    BY <1>1 DEF GeoInv
  <2>2. Chain(geoEvents)
    <3>1. CASE part = "geopolitical"
      BY <1>1, <3>1, NumberedChain DEF GeoInv, GeoRows, Supportable
    <3>2. CASE part # "geopolitical"
      BY <1>1, <3>2, FS_EmptySet DEF GeoInv, Chain
    <3>3. QED
      BY <3>1, <3>2
  <2>3. ASSUME NEW cutoff \in Time
        PROVE  /\ StandAlone(EventsVisibleAt(cutoff), geoEvents)
               /\ {e \in geoEvents : e.at <= cutoff} =
                     UNION {Line(s, geoEvents) : s \in EventsVisibleAt(cutoff)}
    <3>1. cutoff \in Nat
      BY SessionsAssumption DEF Time
    <3>2. ASSUME NEW e \in geoEvents, e.at <= cutoff PROVE ReportsVisible(e.reports, cutoff)
      <4>1. e.reports # {} /\ e.at \in Nat /\ \A r \in e.reports : Seen(r, e.at) /\ reports[r] \in Nat
        BY <2>1 DEF GeoRows, Supportable, Linked, Seen
      <4>2. QED
        BY <3>1, <3>2, <4>1 DEF ReportsVisible, Seen
    <3>3. EventsVisibleAt(cutoff) = CurrentAt(geoEvents, cutoff)
      BY <3>2 DEF EventsVisibleAt, CurrentAt
    <3>4. QED
      BY <2>2, <3>1, <3>3, CurrentStandsAlone, CurrentLinesCover
  <2>4. ASSUME NEW e \in geoEvents, NEW c \in e.of
        PROVE  /\ reports[c.report] <= c.at
               /\ \E r \in reviews : r.candidate = c /\ r.state = "promoted" /\ c.at <= r.at /\ r.at <= e.at
    BY <2>1 DEF GeoRows, Supportable, Seen
  <2>5. ASSUME NEW o \in Operators, At(o, "geo_report")
        PROVE  /\ \A p \in job[o].paths : \E e \in job[o].events : e.id = p.event /\ e.at <= p.at
               /\ \A r \in job[o].events \cup job[o].paths \cup job[o].responses : r.at <= job[o].cutoff
    <3>1. part = "geopolitical"
      BY <1>1, <2>5 DEF GeoInv, AllElsewhere, Elsewhere, At
    <3>2. GeoJob(job[o])
      BY <1>1, <3>1 DEF GeoInv
    <3>3. QED
      BY <2>5, <3>2 DEF GeoJob, At, Upto, PathHolds
  <2>6. QED
    BY <2>3, <2>4, <2>5 DEF ReportsAreOfTheirCutoff
<1>2. QED
  BY <1>1, GeopoliticalInductive, PTL

-----------------------------------------------------------------------------
(* Manifests of the archive.  Every vintage is credited to who counted it: *)
(* to the process until it records its manifest, to the run from then on.  *)

OfRun(i) == <<"run", i>>
OfProcess(o) == <<"process", o>>
Share(by, claimant) == {v \in vintages : by[v] = claimant}

Counting == {"archive_put", "archive_commit", "archive_record"}
Owes(j) == IF j.pc \in Counting THEN j.counts.inserted ELSE 0

\* Nobody claims more than it is credited with.
RunsCredited(by) ==
    \A i \in DOMAIN archiveRuns : archiveRuns[i].counts.inserted <= Cardinality(Share(by, OfRun(i)))
ProcessesCredited(by) ==
    \A o \in Operators : Owes(job[o]) <= Cardinality(Share(by, OfProcess(o)))

ArchiveRows ==
    /\ ArchiveTypeOK
    /\ IsFiniteSet(vintages)
    /\ \A v \in vintages :
           /\ v.key.content \in stored
           /\ v.revises # NoVintage => v.revises \in Keys /\ v.revises.at < v.key.at

\* What a process of the archive has established: the bytes are on disk before their row.
ArchiveJob(j) ==
    /\ j.pc \in {"archive_put", "archive_commit"} =>
          /\ j = [pc |-> j.pc, counts |-> j.counts, snapshots |-> j.snapshots, todo |-> j.todo]
          /\ j.counts \in Counts /\ j.snapshots \in Nat /\ j.todo \in Seq(Vintage)
    /\ j.pc = "archive_commit" => j.todo # << >> /\ Head(j.todo).key.content \in stored
    /\ j.pc = "archive_record" => [status |-> j.status, snapshots |-> j.snapshots, counts |-> j.counts] \in ArchiveRun
    /\ j.pc = "gap" => j.row \in Gap

ArchiveInv ==
    /\ part = "archive" =>
          /\ SessionsOK
          /\ \A o \in Operators : ArchiveJob(job[o])
          /\ \E by : RunsCredited(by) /\ ProcessesCredited(by)
    /\ part # "archive" => archiveRuns = << >>
    /\ ArchiveRows

LEMMA ArchivePart ==
    ASSUME [Next]_vars
    PROVE  /\ part' = part
           /\ part # "archive" => UNCHANGED archiveVars
           /\ part = "archive" =>
                 \/ \E o \in Operators : ArchiveNext(o)
                 \/ (\E o \in Operators : Dies(o)) /\ UNCHANGED archiveVars
                 \/ Tick /\ UNCHANGED archiveVars
                 \/ UNCHANGED <<sessionVars, archiveVars>>
BY DEF Next, vars, Telegram, Collects, Interprets, Arrival, Outside, collectedVars, interpretedVars

LEMMA IdleArchiveJob == ArchiveJob(Idle) /\ Owes(Idle) = 0
BY DEF ArchiveJob, Idle, Owes, Counting

LEMMA ShareIsFinite ==
    ASSUME ArchiveRows, NEW by, NEW claimant
    PROVE  IsFiniteSet(Share(by, claimant)) /\ Cardinality(Share(by, claimant)) \in Nat
<1>1. Share(by, claimant) \in SUBSET vintages
  BY DEF Share
<1>2. IsFiniteSet(Share(by, claimant))
  BY <1>1, FS_Subset DEF ArchiveRows
<1>3. QED
  BY <1>2, FS_CardinalityType

\* Bytes are only added to the store, so that what a process found there stays.
LEMMA ArchiveStep ==
    ASSUME ArchiveInv, part = "archive", part' = part, SessionsOK', ArchiveRows', stored \subseteq stored',
           NEW o \in Operators, NEW j, ArchiveJob(j)', job'[o] = j,
           \A q \in Operators : q # o => job'[q] = job[q],
           \E by : RunsCredited(by)' /\ ProcessesCredited(by)'
    PROVE  ArchiveInv'
<1>1. \A q \in Operators : ArchiveJob(job[q])'
  <2> TAKE q \in Operators
  <2>1. CASE q = o
    BY <2>1
  <2>2. CASE q # o
    <3>1. PICK k : k = job[q]
      OBVIOUS
    <3>2. ArchiveJob(k)
      BY <3>1 DEF ArchiveInv
    <3>3. ArchiveJob(k)'
      BY <3>2 DEF ArchiveJob
    <3>4. job'[q] = k
      BY <2>2, <3>1
    <3>5. QED
      BY <3>3, <3>4
  <2>3. QED
    BY <2>1, <2>2
<1>2. QED
  BY <1>1 DEF ArchiveInv

\* A process that claims no more than before leaves every credit as it is.
LEMMA ArchiveLearns ==
    ASSUME ArchiveInv, part = "archive", part' = part, SessionsOK', ArchiveRows', stored \subseteq stored',
           UNCHANGED <<vintages, archiveRuns>>,
           NEW o \in Operators, NEW j, ArchiveJob(j)', job'[o] = j,
           \A q \in Operators : q # o => job'[q] = job[q],
           Owes(j) = 0 \/ Owes(j) = Owes(job[o])
    PROVE  ArchiveInv'
<1>1. PICK by : RunsCredited(by) /\ ProcessesCredited(by)
  BY DEF ArchiveInv
<1>2. RunsCredited(by)'
  BY <1>1 DEF RunsCredited, Share
<1>3. \A claimant : Share(by, claimant)' = Share(by, claimant)
  BY DEF Share
<1>4. ASSUME NEW q \in Operators PROVE Owes(job'[q]) <= Cardinality(Share(by, OfProcess(q)))
  <2>1. Owes(job[q]) <= Cardinality(Share(by, OfProcess(q)))
    BY <1>1 DEF ProcessesCredited
  <2>2. Cardinality(Share(by, OfProcess(q))) \in Nat
    BY ShareIsFinite DEF ArchiveInv
  <2>3. QED
    BY <2>1, <2>2
<1>5. ProcessesCredited(by)'
  BY <1>3, <1>4 DEF ProcessesCredited, OfProcess
<1>6. QED
  BY <1>2, <1>5, ArchiveStep

\* The same for a step that changes no table.
LEMMA ArchiveTells ==
    ASSUME ArchiveInv, part = "archive", part' = part, UNCHANGED archiveVars,
           NEW o \in Operators, NEW j, ArchiveJob(j), Begin(o, j) \/ Learn(o, j),
           Owes(j) = 0 \/ Owes(j) = Owes(job[o])
    PROVE  ArchiveInv'
<1>1. /\ SessionsOK' /\ job'[o] = j
      /\ \A q \in Operators : q # o => job'[q] = job[q]
  BY OneBegins, OneLearns DEF ArchiveInv
<1>2. ArchiveRows' /\ stored \subseteq stored' /\ UNCHANGED <<vintages, archiveRuns>>
  BY DEF ArchiveInv, ArchiveRows, ArchiveTypeOK, archiveVars, Keys
<1>3. ArchiveJob(j)'
  BY DEF ArchiveJob, archiveVars
<1>4. QED
  BY <1>1, <1>2, <1>3, ArchiveLearns

LEMMA ArchiveEndsJob ==
    ASSUME ArchiveInv, part = "archive", part' = part, NEW o \in Operators, Finish(o),
           UNCHANGED <<stored, vintages, archiveRuns>>, archiveGaps' \subseteq Gap
    PROVE  ArchiveInv'
<1>1. /\ SessionsOK' /\ job'[o] = Idle
      /\ \A q \in Operators : q # o => job'[q] = job[q]
  BY OneFinishes DEF ArchiveInv
<1>2. ArchiveRows' /\ stored \subseteq stored'
  BY DEF ArchiveInv, ArchiveRows, ArchiveTypeOK, Keys
<1>3. ArchiveJob(Idle)'
  BY DEF ArchiveJob, Idle
<1>4. QED
  BY <1>1, <1>2, <1>3, IdleArchiveJob, ArchiveLearns

LEMMA AdapterAnswersKeeps ==
    ASSUME ArchiveInv, part = "archive", part' = part, NEW o \in Operators, AdapterAnswers(o)
    PROVE  ArchiveInv'
<1>0. PICK n \in 0..MaxPayloads :
          \E keys \in [1..n -> [uri: Uris, content: Contents, at: {now}, class: Classification]],
             revises \in [1..n -> Keys \cup {NoVintage}] :
             /\ Learn(o, [pc |-> "archive_put", counts |-> NoneCounted, snapshots |-> n,
                          todo |-> [i \in 1..n |-> [key |-> keys[i], revises |-> revises[i]]]])
             /\ UNCHANGED archiveVars
  BY DEF AdapterAnswers
<1>1. PICK keys \in [1..n -> [uri: Uris, content: Contents, at: {now}, class: Classification]],
           revises \in [1..n -> Keys \cup {NoVintage}] :
          /\ Learn(o, [pc |-> "archive_put", counts |-> NoneCounted, snapshots |-> n,
                       todo |-> [i \in 1..n |-> [key |-> keys[i], revises |-> revises[i]]]])
          /\ UNCHANGED archiveVars
  BY <1>0
<1>2. PICK todo : todo = [i \in 1..n |-> [key |-> keys[i], revises |-> revises[i]]]
  OBVIOUS
<1>3. n \in Nat /\ now \in Time /\ Keys \subseteq VintageKey
  BY ArchiveAssumption DEF ArchiveInv, SessionsOK, ArchiveRows, ArchiveTypeOK, Keys, Vintage
<1>4. ASSUME NEW i \in 1..n PROVE todo[i] \in Vintage
  <2>1. keys[i] \in VintageKey
    BY <1>3 DEF VintageKey
  <2>2. revises[i] \in VintageKey \cup {NoVintage}
    BY <1>3
  <2>3. QED
    BY <1>2, <2>1, <2>2 DEF Vintage
<1>5. todo \in Seq(Vintage)
  BY <1>2, <1>3, <1>4
<1>6. PICK j : j = [pc |-> "archive_put", counts |-> NoneCounted, snapshots |-> n, todo |-> todo]
  OBVIOUS
<1>7. ArchiveJob(j) /\ Owes(j) = 0
  BY <1>3, <1>5, <1>6 DEF ArchiveJob, Owes, Counting, NoneCounted, Counts
<1>8. QED
  BY <1>1, <1>2, <1>6, <1>7, ArchiveTells

LEMMA PutPayloadKeeps ==
    ASSUME ArchiveInv, part = "archive", part' = part, NEW o \in Operators, PutPayload(o)
    PROVE  ArchiveInv'
<1>1. PICK counts, snapshots, todo :
          /\ job[o] = [pc |-> "archive_put", counts |-> counts, snapshots |-> snapshots, todo |-> todo]
          /\ counts \in Counts /\ snapshots \in Nat /\ todo \in Seq(Vintage) /\ todo # << >>
  BY DEF PutPayload, At, ArchiveInv, ArchiveJob
<1>2. PICK j : j = [pc |-> "archive_commit", counts |-> counts, snapshots |-> snapshots, todo |-> todo]
  OBVIOUS
<1>3. Learn(o, j)
  BY <1>1, <1>2 DEF PutPayload, Proceed
<1>4. /\ SessionsOK' /\ job'[o] = j
      /\ \A q \in Operators : q # o => job'[q] = job[q]
  BY <1>3, OneLearns DEF ArchiveInv
<1>5. stored' = stored \cup {Head(todo).key.content} /\ UNCHANGED <<vintages, archiveRuns, archiveGaps>>
  BY <1>1 DEF PutPayload
<1>6. Head(todo) \in Vintage
  BY <1>1
<1>7. Head(todo).key.content \in Contents
  BY <1>6 DEF Vintage, VintageKey
<1>8. ArchiveRows'
  BY <1>5, <1>7 DEF ArchiveInv, ArchiveRows, ArchiveTypeOK, Keys
<1>9. ArchiveJob(j)'
  BY <1>1, <1>2, <1>5 DEF ArchiveJob
<1>10. Owes(j) = Owes(job[o])
  BY <1>1, <1>2 DEF Owes, Counting
<1>11. QED
  BY <1>4, <1>5, <1>8, <1>9, <1>10, ArchiveLearns

\* The job of a process that has committed or recognised the head of its payloads.
LEMMA OnePayloadLess ==
    ASSUME NEW o, ArchiveJob(job[o]), At(o, "archive_commit")
    PROVE  \E counts \in Counts, snapshots \in Nat, todo \in Seq(Vintage) :
              /\ job[o] = [pc |-> "archive_commit", counts |-> counts, snapshots |-> snapshots, todo |-> todo]
              /\ Head(todo) \in Vintage /\ Tail(todo) \in Seq(Vintage) /\ Head(todo).key.content \in stored
<1>1. PICK counts, snapshots, todo :
          /\ job[o] = [pc |-> "archive_commit", counts |-> counts, snapshots |-> snapshots, todo |-> todo]
          /\ counts \in Counts /\ snapshots \in Nat /\ todo \in Seq(Vintage) /\ todo # << >>
          /\ Head(todo).key.content \in stored
  BY DEF At, ArchiveJob
<1>2. Head(todo) \in Vintage /\ Tail(todo) \in Seq(Vintage)
  BY <1>1
<1>3. QED
  BY <1>1, <1>2

LEMMA FindDuplicateKeeps ==
    ASSUME ArchiveInv, part = "archive", part' = part, NEW o \in Operators, FindDuplicate(o)
    PROVE  ArchiveInv'
<1>1. PICK counts \in Counts, snapshots \in Nat, todo \in Seq(Vintage) :
          /\ job[o] = [pc |-> "archive_commit", counts |-> counts, snapshots |-> snapshots, todo |-> todo]
          /\ Tail(todo) \in Seq(Vintage)
  BY OnePayloadLess DEF FindDuplicate, ArchiveInv
<1>2. PICK more : more = [counts EXCEPT !.duplicates = @ + 1]
  OBVIOUS
<1>3. more \in Counts /\ more.inserted = counts.inserted
  BY <1>2 DEF Counts
<1>4. PICK j : j = [pc |-> "archive_put", counts |-> more, snapshots |-> snapshots, todo |-> Tail(todo)]
  OBVIOUS
<1>5. [job[o] EXCEPT !.pc = "archive_put", !.todo = Tail(@), !.counts.duplicates = @ + 1] = j
  <2>1. PICK knows : knows = [pc |-> "archive_commit", counts |-> counts, snapshots |-> snapshots, todo |-> todo]
    OBVIOUS
  <2>2. PICK rest, n : rest = Tail(todo) /\ n = counts.duplicates + 1
    OBVIOUS
  <2>3. PICK later : later = [knows EXCEPT !.pc = "archive_put", !.todo = Tail(@)]
    OBVIOUS
  <2>4. later = [pc |-> "archive_put", counts |-> counts, snapshots |-> snapshots, todo |-> rest]
    BY <2>1, <2>2, <2>3
  <2>5. [knows EXCEPT !.pc = "archive_put", !.todo = Tail(@), !.counts.duplicates = @ + 1]
            = [later EXCEPT !.counts.duplicates = n]
    BY <2>1, <2>2, <2>3
  <2>6. [later EXCEPT !.counts.duplicates = n] = [later EXCEPT !.counts = [counts EXCEPT !.duplicates = n]]
    BY <2>4
  <2>7. more = [counts EXCEPT !.duplicates = n]
    BY <1>2, <2>2
  <2>8. [later EXCEPT !.counts = more] = [pc |-> "archive_put", counts |-> more, snapshots |-> snapshots, todo |-> rest]
    BY <2>4
  <2>9. QED
    BY <1>1, <1>4, <2>1, <2>2, <2>5, <2>6, <2>7, <2>8
<1>6. Learn(o, j) /\ UNCHANGED archiveVars
  BY <1>5 DEF FindDuplicate
<1>7. ArchiveJob(j)
  BY <1>1, <1>3, <1>4 DEF ArchiveJob
<1>8. Owes(j) = Owes(job[o])
  BY <1>1, <1>3, <1>4 DEF Owes, Counting
<1>9. QED
  BY <1>6, <1>7, <1>8, ArchiveTells

\* The vintage is credited to the process that committed it.
LEMMA CommitPayloadKeeps ==
    ASSUME ArchiveInv, part = "archive", part' = part, NEW o \in Operators, CommitPayload(o)
    PROVE  ArchiveInv'
<1>1. PICK counts \in Counts, snapshots \in Nat, todo \in Seq(Vintage) :
          /\ job[o] = [pc |-> "archive_commit", counts |-> counts, snapshots |-> snapshots, todo |-> todo]
          /\ Head(todo) \in Vintage /\ Tail(todo) \in Seq(Vintage) /\ Head(todo).key.content \in stored
  BY OnePayloadLess DEF CommitPayload, ArchiveInv
<1>2. PICK v : v = Head(todo)
  OBVIOUS
<1>3. /\ v \notin vintages /\ ChainHolds(v) /\ vintages' = vintages \cup {v}
      /\ UNCHANGED <<stored, archiveRuns, archiveGaps>>
      /\ Learn(o, [job[o] EXCEPT !.pc = "archive_put", !.todo = Tail(@), !.counts.inserted = @ + 1])
  BY <1>1, <1>2 DEF CommitPayload
<1>4. PICK more : more = [counts EXCEPT !.inserted = @ + 1]
  OBVIOUS
<1>5. more \in Counts /\ more.inserted = counts.inserted + 1 /\ counts.inserted \in Nat
  BY <1>4 DEF Counts
<1>6. PICK j : j = [pc |-> "archive_put", counts |-> more, snapshots |-> snapshots, todo |-> Tail(todo)]
  OBVIOUS
<1>7. [job[o] EXCEPT !.pc = "archive_put", !.todo = Tail(@), !.counts.inserted = @ + 1] = j
  <2>1. PICK knows : knows = [pc |-> "archive_commit", counts |-> counts, snapshots |-> snapshots, todo |-> todo]
    OBVIOUS
  <2>2. PICK rest, n : rest = Tail(todo) /\ n = counts.inserted + 1
    OBVIOUS
  <2>3. PICK later : later = [knows EXCEPT !.pc = "archive_put", !.todo = Tail(@)]
    OBVIOUS
  <2>4. later = [pc |-> "archive_put", counts |-> counts, snapshots |-> snapshots, todo |-> rest]
    BY <2>1, <2>2, <2>3
  <2>5. [knows EXCEPT !.pc = "archive_put", !.todo = Tail(@), !.counts.inserted = @ + 1]
            = [later EXCEPT !.counts.inserted = n]
    BY <2>1, <2>2, <2>3
  <2>6. [later EXCEPT !.counts.inserted = n] = [later EXCEPT !.counts = [counts EXCEPT !.inserted = n]]
    BY <2>4
  <2>7. more = [counts EXCEPT !.inserted = n]
    BY <1>4, <2>2
  <2>8. [later EXCEPT !.counts = more] = [pc |-> "archive_put", counts |-> more, snapshots |-> snapshots, todo |-> rest]
    BY <2>4
  <2>9. QED
    BY <1>1, <1>6, <2>1, <2>2, <2>5, <2>6, <2>7, <2>8
<1>8. /\ SessionsOK' /\ job'[o] = j
      /\ \A q \in Operators : q # o => job'[q] = job[q]
  BY <1>3, <1>7, OneLearns DEF ArchiveInv
<1>9. ArchiveRows'
  <2>1. IsFiniteSet(vintages')
    BY <1>3, FS_AddElement DEF ArchiveInv, ArchiveRows
  <2>2. Keys \subseteq Keys'
    BY <1>3 DEF Keys
  <2>3. v.revises # NoVintage => v.revises \in Keys /\ v.revises.at < v.key.at
    BY <1>3 DEF ChainHolds
  <2>4. QED
    BY <1>1, <1>2, <1>3, <2>1, <2>2, <2>3 DEF ArchiveInv, ArchiveRows, ArchiveTypeOK
<1>10. ArchiveJob(j)'
  BY <1>1, <1>5, <1>6 DEF ArchiveJob
<1>11. PICK by : RunsCredited(by) /\ ProcessesCredited(by)
  BY DEF ArchiveInv
<1>12. PICK with : with = [w \in vintages' |-> IF w = v THEN OfProcess(o) ELSE by[w]]
  OBVIOUS
<1>13. ASSUME NEW claimant
       PROVE  Share(with, claimant)' = Share(by, claimant) \cup (IF claimant = OfProcess(o) THEN {v} ELSE {})
  BY <1>3, <1>12 DEF Share
<1>14. \A claimant : /\ IsFiniteSet(Share(by, claimant)) /\ Cardinality(Share(by, claimant)) \in Nat
                     /\ v \notin Share(by, claimant)
  BY <1>3, ShareIsFinite DEF ArchiveInv, Share
<1>15. Cardinality(Share(with, OfProcess(o))') = Cardinality(Share(by, OfProcess(o))) + 1
  <2>1. Share(with, OfProcess(o))' = Share(by, OfProcess(o)) \cup {v}
    BY <1>13 DEF OfProcess
  <2>2. QED
    BY <1>14, <2>1, FS_AddElement
<1>16. \A claimant : claimant # OfProcess(o) => Share(with, claimant)' = Share(by, claimant)
  BY <1>13
<1>17. RunsCredited(with)'
  <2>1. \A i : OfRun(i) # OfProcess(o)
    BY DEF OfRun, OfProcess
  <2>2. ASSUME NEW i \in DOMAIN archiveRuns
        PROVE  archiveRuns[i].counts.inserted <= Cardinality(Share(with, OfRun(i))')
    BY <1>11, <1>16, <2>1 DEF RunsCredited
  <2>3. QED
    BY <1>3, <2>2 DEF RunsCredited, OfRun
<1>18. ProcessesCredited(with)'
  <2>1. Owes(j) <= Cardinality(Share(with, OfProcess(o))')
    <3>1. Owes(job[o]) <= Cardinality(Share(by, OfProcess(o)))
      BY <1>11 DEF ProcessesCredited
    <3>2. Owes(job[o]) = counts.inserted /\ Owes(j) = counts.inserted + 1
      BY <1>1, <1>5, <1>6 DEF Owes, Counting
    <3>3. QED
      BY <1>5, <1>14, <1>15, <3>1, <3>2
  <2>2. ASSUME NEW q \in Operators, q # o
        PROVE  Owes(job'[q]) <= Cardinality(Share(with, OfProcess(q))')
    <3>1. OfProcess(q) # OfProcess(o)
      BY <2>2 DEF OfProcess
    <3>2. QED
      BY <1>8, <1>11, <1>16, <2>2, <3>1 DEF ProcessesCredited
  <2>3. QED
    BY <1>8, <2>1, <2>2 DEF ProcessesCredited, OfProcess
<1>19. QED
  BY <1>3, <1>8, <1>9, <1>10, <1>17, <1>18, ArchiveStep

LEMMA ArchiveStopsKeeps ==
    ASSUME ArchiveInv, part = "archive", part' = part, NEW o \in Operators, ArchiveFails(o) \/ ArchiveEnds(o)
    PROVE  ArchiveInv'
<1>1. job[o].pc \in {"archive_put", "archive_commit"} => job[o].counts \in Counts /\ job[o].snapshots \in Nat
  BY DEF ArchiveInv, ArchiveJob
<1>2. CASE ArchiveFails(o)
  <2>1. PICK counts : counts = IF At(o, "archive_fetch") THEN NoneCounted ELSE job[o].counts
    OBVIOUS
  <2>2. /\ counts \in Counts
        /\ counts.inserted = 0 \/ counts.inserted = Owes(job[o])
    BY <1>1, <1>2, <2>1 DEF ArchiveFails, At, NoneCounted, Counts, Owes, Counting
  <2>3. PICK j : j = [pc |-> "archive_record", status |-> "failed", snapshots |-> 0, counts |-> counts]
    OBVIOUS
  <2>4. Learn(o, j) /\ UNCHANGED archiveVars
    BY <1>2, <2>1, <2>3 DEF ArchiveFails
  <2>5. ArchiveJob(j) /\ Owes(j) = counts.inserted
    BY <2>2, <2>3 DEF ArchiveJob, ArchiveRun, Owes, Counting
  <2>6. QED
    BY <2>2, <2>4, <2>5, ArchiveTells
<1>3. CASE ArchiveEnds(o)
  <2>1. PICK counts, snapshots : counts = job[o].counts /\ snapshots = job[o].snapshots
    OBVIOUS
  <2>2. counts \in Counts /\ snapshots \in Nat /\ counts.inserted = Owes(job[o])
    BY <1>1, <1>3, <2>1 DEF ArchiveEnds, At, Owes, Counting
  <2>3. PICK j : j = [pc |-> "archive_record", status |-> "succeeded", snapshots |-> snapshots, counts |-> counts]
    OBVIOUS
  <2>4. Learn(o, j) /\ UNCHANGED archiveVars
    BY <1>3, <2>1, <2>3 DEF ArchiveEnds
  <2>5. ArchiveJob(j) /\ Owes(j) = counts.inserted
    BY <2>2, <2>3 DEF ArchiveJob, ArchiveRun, Owes, Counting
  <2>6. QED
    BY <2>2, <2>4, <2>5, ArchiveTells
<1>4. QED
  BY <1>2, <1>3

\* What the process counted is credited to the run that it records.
LEMMA RecordArchiveRunKeeps ==
    ASSUME ArchiveInv, part = "archive", part' = part, NEW o \in Operators, RecordArchiveRun(o)
    PROVE  ArchiveInv'
<1>1. PICK run : run = [status |-> job[o].status, snapshots |-> job[o].snapshots, counts |-> job[o].counts]
  OBVIOUS
<1>2. /\ run \in ArchiveRun /\ run.counts.inserted = Owes(job[o])
      /\ archiveRuns \in Seq(ArchiveRun) /\ archiveRuns' = Append(archiveRuns, run)
      /\ Finish(o) /\ UNCHANGED <<stored, vintages, archiveGaps>>
  BY <1>1 DEF RecordArchiveRun, At, ArchiveInv, ArchiveJob, ArchiveRows, ArchiveTypeOK, Owes, Counting
<1>3. /\ SessionsOK' /\ job'[o] = Idle
      /\ \A q \in Operators : q # o => job'[q] = job[q]
  BY <1>2, OneFinishes DEF ArchiveInv
<1>4. /\ archiveRuns' \in Seq(ArchiveRun) /\ DOMAIN archiveRuns' = DOMAIN archiveRuns \cup {Len(archiveRuns) + 1}
      /\ Len(archiveRuns) + 1 \notin DOMAIN archiveRuns
      /\ archiveRuns'[Len(archiveRuns) + 1] = run
      /\ \A i \in DOMAIN archiveRuns : archiveRuns'[i] = archiveRuns[i]
  BY <1>2
<1>5. ArchiveRows'
  BY <1>2, <1>4 DEF ArchiveInv, ArchiveRows, ArchiveTypeOK, Keys
<1>6. PICK by : RunsCredited(by) /\ ProcessesCredited(by)
  BY DEF ArchiveInv
<1>7. PICK last : last = Len(archiveRuns) + 1
  OBVIOUS
<1>8. PICK with : with = [w \in vintages |-> IF by[w] = OfProcess(o) THEN OfRun(last) ELSE by[w]]
  OBVIOUS
<1>9. \A claimant : claimant # OfProcess(o) /\ claimant # OfRun(last) =>
          Share(with, claimant)' = Share(by, claimant)
  BY <1>2, <1>8 DEF Share
<1>10. Share(by, OfProcess(o)) \subseteq Share(with, OfRun(last))'
  BY <1>2, <1>8 DEF Share, OfRun
<1>11. \A claimant : Cardinality(Share(by, claimant)) \in Nat
  BY ShareIsFinite DEF ArchiveInv
<1>12. \A claimant : IsFiniteSet(Share(with, claimant)') /\ Cardinality(Share(with, claimant)') \in Nat
  <2> TAKE claimant
  <2>1. IsFiniteSet(vintages) /\ Share(with, claimant)' \in SUBSET vintages
    BY <1>2 DEF Share, ArchiveInv, ArchiveRows
  <2>2. IsFiniteSet(Share(with, claimant)')
    BY <2>1, FS_Subset
  <2>3. QED
    BY <2>2, FS_CardinalityType
<1>13. RunsCredited(with)'
  <2>1. run.counts.inserted <= Cardinality(Share(with, OfRun(last))')
    <3>1. run.counts.inserted <= Cardinality(Share(by, OfProcess(o)))
      BY <1>2, <1>6 DEF ProcessesCredited
    <3>2. Cardinality(Share(by, OfProcess(o))) <= Cardinality(Share(with, OfRun(last))')
      BY <1>10, <1>12, FS_Subset
    <3>3. run.counts.inserted \in Nat
      BY <1>2 DEF ArchiveRun, Counts
    <3>4. QED
      BY <1>11, <1>12, <3>1, <3>2, <3>3
  <2>2. ASSUME NEW i \in DOMAIN archiveRuns
        PROVE  archiveRuns[i].counts.inserted <= Cardinality(Share(with, OfRun(i))')
    <3>1. OfRun(i) # OfRun(last) /\ OfRun(i) # OfProcess(o)
      BY <1>4, <1>7 DEF OfRun, OfProcess
    <3>2. QED
      BY <1>6, <1>9, <3>1 DEF RunsCredited
  <2>3. ASSUME NEW i \in DOMAIN archiveRuns'
        PROVE  archiveRuns'[i].counts.inserted <= Cardinality(Share(with, OfRun(i))')
    BY <1>4, <1>7, <2>1, <2>2
  <2>4. QED
    BY <2>3 DEF RunsCredited, OfRun
<1>14. ProcessesCredited(with)'
  <2>1. ASSUME NEW q \in Operators PROVE Owes(job'[q]) <= Cardinality(Share(with, OfProcess(q))')
    <3>1. CASE q = o
      BY <1>3, <1>12, <3>1, IdleArchiveJob
    <3>2. CASE q # o
      <4>1. OfProcess(q) # OfProcess(o) /\ OfProcess(q) # OfRun(last)
        BY <3>2 DEF OfRun, OfProcess
      <4>2. QED
        BY <1>3, <1>6, <1>9, <3>2, <4>1 DEF ProcessesCredited
    <3>3. QED
      BY <3>1, <3>2
  <2>2. QED
    BY <2>1 DEF ProcessesCredited, OfProcess
<1>15. ArchiveJob(Idle)'
  BY DEF ArchiveJob, Idle
<1>16. QED
  BY <1>2, <1>3, <1>5, <1>13, <1>14, <1>15, ArchiveStep

LEMMA ArchiveNextKeeps ==
    ASSUME ArchiveInv, part = "archive", part' = part, NEW o \in Operators, ArchiveNext(o)
    PROVE  ArchiveInv'
<1>1. CASE BeginArchive(o)
  <2>1. PICK j : j = [pc |-> "archive_fetch"]
    OBVIOUS
  <2>2. ArchiveJob(j) /\ Owes(j) = 0
    BY <2>1 DEF ArchiveJob, Owes, Counting
  <2>3. QED
    BY <1>1, <2>1, <2>2, ArchiveTells DEF BeginArchive
<1>2. CASE ScheduleSkipped(o)
  <2>1. PICK j : j = [pc |-> "archive_record", status |-> "skipped", snapshots |-> 0, counts |-> NoneCounted]
    OBVIOUS
  <2>2. ArchiveJob(j) /\ Owes(j) = 0
    BY <2>1 DEF ArchiveJob, ArchiveRun, Counts, NoneCounted, Owes, Counting
  <2>3. QED
    BY <1>2, <2>1, <2>2, ArchiveTells DEF ScheduleSkipped
<1>3. CASE BeginGap(o)
  <2>1. PICK t \in Time : Begin(o, [pc |-> "gap", row |-> [expected |-> t, detected |-> now]]) /\ UNCHANGED archiveVars
    BY <1>3 DEF BeginGap
  <2>2. PICK row : row = [expected |-> t, detected |-> now]
    OBVIOUS
  <2>3. row \in Gap
    BY <2>2 DEF Gap, ArchiveInv, SessionsOK
  <2>4. PICK j : j = [pc |-> "gap", row |-> row]
    OBVIOUS
  <2>5. ArchiveJob(j) /\ Owes(j) = 0
    BY <2>3, <2>4 DEF ArchiveJob, Owes, Counting
  <2>6. QED
    BY <2>1, <2>2, <2>4, <2>5, ArchiveTells
<1>4. CASE ArchiveRaises(o)
  BY <1>4, ArchiveEndsJob DEF ArchiveRaises, archiveVars, ArchiveInv, ArchiveRows, ArchiveTypeOK
<1>5. CASE RecordGap(o)
  <2>1. job[o].row \in Gap
    BY <1>5 DEF RecordGap, At, ArchiveInv, ArchiveJob
  <2>2. archiveGaps' \subseteq Gap
    BY <1>5, <2>1 DEF RecordGap, ArchiveInv, ArchiveRows, ArchiveTypeOK
  <2>3. QED
    BY <1>5, <2>2, ArchiveEndsJob DEF RecordGap
<1>6. QED
  BY <1>1, <1>2, <1>3, <1>4, <1>5, AdapterAnswersKeeps, PutPayloadKeeps, CommitPayloadKeeps,
     FindDuplicateKeeps, ArchiveStopsKeeps, RecordArchiveRunKeeps DEF ArchiveNext

LEMMA ArchiveStarts == Init => ArchiveInv
<1> SUFFICES ASSUME Init PROVE ArchiveInv
  OBVIOUS
<1>1. ArchiveInit
  BY DEF Init
<1>2. ArchiveRows /\ archiveRuns = << >>
  BY <1>1, FS_EmptySet DEF ArchiveInit, ArchiveRows, ArchiveTypeOK
<1>3. \A by : RunsCredited(by)
  BY <1>2 DEF RunsCredited
<1>4. \A by : ProcessesCredited(by)
  <2> SUFFICES ASSUME NEW by, NEW o \in Operators PROVE Owes(job[o]) <= Cardinality(Share(by, OfProcess(o)))
    BY DEF ProcessesCredited
  <2>1. Cardinality(Share(by, OfProcess(o))) \in Nat
    BY <1>2, ShareIsFinite
  <2>2. QED
    BY <2>1, DeskStarts, IdleArchiveJob
<1>5. QED
  BY <1>2, <1>3, <1>4, DeskStarts, IdleArchiveJob DEF ArchiveInv

LEMMA ArchiveKept == ArchiveInv /\ [Next]_vars => ArchiveInv'
<1> SUFFICES ASSUME ArchiveInv, [Next]_vars PROVE ArchiveInv'
  OBVIOUS
<1>1. part' = part
  BY ArchivePart
<1>2. ASSUME UNCHANGED archiveVars PROVE ArchiveRows'
  BY <1>2 DEF ArchiveInv, ArchiveRows, ArchiveTypeOK, Keys, archiveVars
<1>3. CASE part # "archive"
  BY <1>1, <1>2, <1>3, ArchivePart DEF ArchiveInv, archiveVars
<1>4. CASE part = "archive"
  <2>1. ASSUME NEW o \in Operators, Dies(o), UNCHANGED archiveVars PROVE ArchiveInv'
    BY <1>1, <1>4, <2>1, ArchiveEndsJob DEF Dies, archiveVars, ArchiveInv, ArchiveRows, ArchiveTypeOK
  <2>2. ASSUME Tick \/ UNCHANGED sessionVars, UNCHANGED archiveVars PROVE ArchiveInv'
    <3>1. SessionsOK' /\ job' = job
      BY <1>4, <2>2, ClockTicks, NothingHappens DEF ArchiveInv
    <3>2. \A o \in Operators : ArchiveJob(job[o])'
      <4> TAKE o \in Operators
      <4>1. PICK k : k = job[o] /\ ArchiveJob(k)
        BY <1>4 DEF ArchiveInv
      <4>2. ArchiveJob(k)'
        BY <2>2, <4>1 DEF ArchiveJob, archiveVars
      <4>3. QED
        BY <3>1, <4>1, <4>2
    <3>3. PICK by : RunsCredited(by) /\ ProcessesCredited(by)
      BY <1>4 DEF ArchiveInv
    <3>4. RunsCredited(by)' /\ ProcessesCredited(by)'
      BY <2>2, <3>1, <3>3 DEF RunsCredited, ProcessesCredited, Share, archiveVars
    <3>5. QED
      BY <1>1, <1>2, <1>4, <2>2, <3>1, <3>2, <3>4 DEF ArchiveInv
  <2>3. QED
    BY <1>1, <1>4, <2>1, <2>2, ArchiveNextKeeps, ArchivePart
<1>5. QED
  BY <1>3, <1>4

\* Inductive: the credit of every vintage goes from the process that counted it to the
\* run that it records, and a process that dies takes its count with it.
THEOREM ArchiveInductive == Spec => []ArchiveInv
BY ArchiveStarts, ArchiveKept, PTL DEF Spec

\* The tables of the archive hold rows of their types.
THEOREM ArchiveTypes == Spec => []ArchiveTypeOK
<1>1. ArchiveInv => ArchiveTypeOK
  BY DEF ArchiveInv, ArchiveRows
<1>2. QED
  BY <1>1, ArchiveInductive, PTL

\* The sum of the manifests, run by run.
Tally(t, n) ==
    /\ t \in [0..n -> Nat] /\ t[0] = 0
    /\ \A i \in 1..n : t[i] = t[i - 1] + archiveRuns[i].counts.inserted

LEMMA RunsCount ==
    ASSUME ArchiveTypeOK
    PROVE  /\ Len(archiveRuns) \in Nat /\ DOMAIN archiveRuns = 1..Len(archiveRuns)
           /\ \A i \in 1..Len(archiveRuns) : archiveRuns[i].counts.inserted \in Nat
<1>1. archiveRuns \in Seq(ArchiveRun)
  BY DEF ArchiveTypeOK
<1>2. Len(archiveRuns) \in Nat /\ DOMAIN archiveRuns = 1..Len(archiveRuns)
  BY <1>1
<1>3. ASSUME NEW i \in 1..Len(archiveRuns) PROVE archiveRuns[i].counts.inserted \in Nat
  <2>1. archiveRuns[i] \in ArchiveRun
    BY <1>1, <1>2
  <2>2. QED
    BY <2>1 DEF ArchiveRun, Counts
<1>4. QED
  BY <1>2, <1>3

LEMMA ManifestsAreTallied ==
    ASSUME ArchiveTypeOK, NEW n \in 0..Len(archiveRuns)
    PROVE  \E t : Tally(t, n)
<1> DEFINE bad == {m \in 0..Len(archiveRuns) : ~ \E t : Tally(t, m)}
<1>1. \A i \in 1..Len(archiveRuns) : archiveRuns[i].counts.inserted \in Nat
  BY RunsCount
<1>2. Len(archiveRuns) \in Nat
  BY RunsCount
<1>3. ASSUME bad # {} PROVE FALSE
  <2>1. PICK m \in bad : \A k \in bad : m <= k
    <3>1. bad \subseteq Nat
      BY <1>2
    <3> HIDE DEF bad
    <3>2. QED
      BY <1>3, <3>1, LeastNatural
  <2>2. CASE m = 0
    <3>1. Tally([i \in 0..0 |-> 0], 0)
      BY DEF Tally
    <3>2. QED
      BY <2>1, <2>2, <3>1
  <2>3. CASE m # 0
    <3>1. m - 1 \in 0..Len(archiveRuns) /\ m \in 1..Len(archiveRuns) /\ m - 1 \notin bad
      BY <1>2, <2>1, <2>3
    <3>2. PICK t : Tally(t, m - 1)
      BY <3>1
    <3>3. PICK u : u = [i \in 0..m |-> IF i = m THEN t[m - 1] + archiveRuns[m].counts.inserted ELSE t[i]]
      OBVIOUS
    <3>4. t[m - 1] \in Nat
      BY <3>1, <3>2 DEF Tally
    <3>5. u \in [0..m -> Nat] /\ u[0] = 0
      <4>1. t[m - 1] + archiveRuns[m].counts.inserted \in Nat
        BY <1>1, <3>1, <3>4
      <4>2. \A i \in 0..(m - 1) : t[i] \in Nat
        BY <3>2 DEF Tally
      <4>3. \A i \in 0..m : u[i] \in Nat
        BY <3>1, <3>3, <4>1, <4>2
      <4>4. u[0] = 0
        BY <2>3, <3>1, <3>2, <3>3 DEF Tally
      <4>5. QED
        BY <3>3, <4>3, <4>4
    <3>6. ASSUME NEW i \in 1..m PROVE u[i] = u[i - 1] + archiveRuns[i].counts.inserted
      <4>1. i \in 0..m /\ i - 1 \in 0..m /\ i - 1 # m
        BY <3>1
      <4>2. u[i - 1] = t[i - 1]
        BY <3>3, <4>1
      <4>3. CASE i = m
        BY <3>3, <4>1, <4>2, <4>3
      <4>4. CASE i # m
        <5>1. i \in 1..(m - 1) /\ u[i] = t[i]
          BY <3>1, <3>3, <4>1, <4>4
        <5>2. t[i] = t[i - 1] + archiveRuns[i].counts.inserted
          BY <3>2, <5>1 DEF Tally
        <5>3. QED
          BY <4>2, <5>1, <5>2
      <4>5. QED
        BY <4>3, <4>4
    <3>7. Tally(u, m)
      BY <3>5, <3>6 DEF Tally
    <3>8. QED
      BY <2>1, <3>7
  <2>4. QED
    BY <2>2, <2>3
<1>4. QED
  BY <1>3

\* The vintages credited to the first runs.
CreditedUpto(by, n) == {v \in vintages : \E i \in 1..n : by[v] = OfRun(i)}

\* Runs do not share a vintage, so that their claims add up to no more than the archive holds.
LEMMA ClaimsFit ==
    ASSUME ArchiveRows, NEW by, RunsCredited(by), NEW t, Tally(t, Len(archiveRuns)), NEW n \in 0..Len(archiveRuns)
    PROVE  t[n] <= Cardinality(vintages)
<1> DEFINE bad == {m \in 0..Len(archiveRuns) : ~(t[m] <= Cardinality(CreditedUpto(by, m)))}
<1>1. \A m : IsFiniteSet(CreditedUpto(by, m)) /\ Cardinality(CreditedUpto(by, m)) \in Nat
             /\ Cardinality(CreditedUpto(by, m)) <= Cardinality(vintages)
  <2> TAKE m
  <2>1. CreditedUpto(by, m) \in SUBSET vintages
    BY DEF CreditedUpto
  <2>2. IsFiniteSet(CreditedUpto(by, m)) /\ Cardinality(CreditedUpto(by, m)) <= Cardinality(vintages)
    BY <2>1, FS_Subset DEF ArchiveRows
  <2>3. QED
    BY <2>2, FS_CardinalityType
<1>2. /\ Len(archiveRuns) \in Nat /\ DOMAIN archiveRuns = 1..Len(archiveRuns)
      /\ \A i \in 1..Len(archiveRuns) : archiveRuns[i].counts.inserted \in Nat
  BY RunsCount DEF ArchiveRows
<1>3. Cardinality(vintages) \in Nat /\ \A m \in 0..Len(archiveRuns) : t[m] \in Nat
  BY FS_CardinalityType DEF ArchiveRows, Tally
<1>4. ASSUME bad # {} PROVE FALSE
  <2>1. PICK m \in bad : \A k \in bad : m <= k
    <3>1. bad \subseteq Nat
      BY <1>2
    <3> HIDE DEF bad
    <3>2. QED
      BY <1>4, <3>1, LeastNatural
  <2>2. CASE m = 0
    <3>1. t[m] = 0 /\ Cardinality(CreditedUpto(by, m)) \in Nat
      BY <1>1, <2>2 DEF Tally
    <3>2. QED
      BY <2>1, <3>1
  <2>3. CASE m # 0
    <3>1. m - 1 \in 0..Len(archiveRuns) /\ m \in 1..Len(archiveRuns) /\ m - 1 \notin bad
      BY <1>2, <2>1, <2>3
    <3>2. t[m - 1] <= Cardinality(CreditedUpto(by, m - 1))
      BY <3>1
    <3>3. t[m] = t[m - 1] + archiveRuns[m].counts.inserted
      BY <3>1 DEF Tally
    <3>4. archiveRuns[m].counts.inserted <= Cardinality(Share(by, OfRun(m)))
      BY <1>2, <3>1 DEF RunsCredited
    <3>5. CreditedUpto(by, m) = CreditedUpto(by, m - 1) \cup Share(by, OfRun(m))
      BY <3>1 DEF CreditedUpto, Share
    <3>6. CreditedUpto(by, m - 1) \cap Share(by, OfRun(m)) = {}
      BY <3>1 DEF CreditedUpto, Share, OfRun
    <3>7. IsFiniteSet(Share(by, OfRun(m))) /\ Cardinality(Share(by, OfRun(m))) \in Nat
      BY ShareIsFinite
    <3>8. Cardinality(CreditedUpto(by, m)) =
             Cardinality(CreditedUpto(by, m - 1)) + Cardinality(Share(by, OfRun(m)))
      <4>1. Cardinality({}) = 0
        BY FS_EmptySet
      <4>2. Cardinality(CreditedUpto(by, m)) =
               Cardinality(CreditedUpto(by, m - 1)) + Cardinality(Share(by, OfRun(m))) - Cardinality({})
        BY <1>1, <3>5, <3>6, <3>7, FS_Union
      <4>3. QED
        BY <1>1, <3>7, <4>1, <4>2
    <3>9. t[m] <= Cardinality(CreditedUpto(by, m))
      BY <1>1, <1>2, <1>3, <3>1, <3>2, <3>3, <3>4, <3>7, <3>8
    <3>10. QED
      BY <2>1, <3>9
  <2>4. QED
    BY <2>2, <2>3
<1>5. t[n] <= Cardinality(CreditedUpto(by, n))
  BY <1>4
<1>6. QED
  BY <1>1, <1>3, <1>5

\* Whatever fails or dies between the commits of a run, the manifests claim together no
\* more vintages than there are, and each is on disk and later than what it revises
\* (ArchiveService.run, archive).
THEOREM ManifestsNeverClaimTooMuch == Spec => []ManifestsNeverOverclaim
<1>1. ASSUME ArchiveInv PROVE ManifestsNeverOverclaim
  <2> DEFINE next(f, i) == IF i = 0 THEN 0 ELSE f[i - 1] + archiveRuns[i].counts.inserted
             claimed == CHOOSE f : f = [i \in 0..Len(archiveRuns) |-> next(f, i)]
  <2>1. Len(archiveRuns) \in Nat
    BY <1>1 DEF ArchiveInv, ArchiveRows, ArchiveTypeOK
  <2>2. PICK by : RunsCredited(by)
    <3>1. CASE part = "archive"
      BY <1>1, <3>1 DEF ArchiveInv
    <3>2. CASE part # "archive"
      BY <1>1, <3>2 DEF ArchiveInv, RunsCredited
    <3>3. QED
      BY <3>1, <3>2
  <2>3. PICK t : Tally(t, Len(archiveRuns))
    BY <1>1, <2>1, ManifestsAreTallied DEF ArchiveInv, ArchiveRows
  <2>4. t = [i \in 0..Len(archiveRuns) |-> next(t, i)]
    BY <2>1, <2>3 DEF Tally
  <2>5. claimed = [i \in 0..Len(archiveRuns) |-> next(claimed, i)]
    <3> HIDE DEF next
    <3>1. QED
      BY <2>4
  <2>6. Tally(claimed, Len(archiveRuns))
    <3> HIDE DEF claimed
    <3>1. \A i \in 0..Len(archiveRuns) : claimed[i] = next(claimed, i)
      BY <2>5
    <3>2. claimed[0] = 0 /\ \A i \in 1..Len(archiveRuns) : claimed[i] = claimed[i - 1] + archiveRuns[i].counts.inserted
      BY <2>1, <3>1
    <3>3. \A i \in 0..Len(archiveRuns) : claimed[i] = t[i]
      <4> DEFINE bad == {i \in 0..Len(archiveRuns) : claimed[i] # t[i]}
      <4>1. ASSUME bad # {} PROVE FALSE
        <5>1. PICK i \in bad : \A k \in bad : i <= k
          <6>1. bad \subseteq Nat
            BY <2>1
          <6> HIDE DEF bad
          <6>2. QED
            BY <4>1, <6>1, LeastNatural
        <5>2. CASE i = 0
          BY <2>3, <3>2, <5>1, <5>2 DEF Tally
        <5>3. CASE i # 0
          <6>1. i \in 1..Len(archiveRuns) /\ i - 1 \in 0..Len(archiveRuns) /\ i - 1 \notin bad
            BY <2>1, <5>1, <5>3
          <6>2. claimed[i - 1] = t[i - 1]
            BY <6>1
          <6>3. QED
            BY <2>3, <3>2, <5>1, <6>1, <6>2 DEF Tally
        <5>4. QED
          BY <5>2, <5>3
      <4>2. QED
        BY <4>1
    <3>4. claimed = t
      <4> HIDE DEF next
      <4>1. QED
        BY <2>4, <2>5, <3>3
    <3>5. QED
      BY <2>3, <3>4
  <2>7. claimed[Len(archiveRuns)] <= Cardinality(vintages)
    <3> HIDE DEF claimed
    <3>1. QED
      BY <1>1, <2>1, <2>2, <2>6, ClaimsFit DEF ArchiveInv
  <2>8. QED
    BY <1>1, <2>7 DEF ManifestsNeverOverclaim, ArchiveInv, ArchiveRows
<1>2. QED
  BY <1>1, ArchiveInductive, PTL

-----------------------------------------------------------------------------
(* Checkpoints of the Telegram connector.                                  *)

\* Every message that a run answers for has a post.
Covered(owed, known) == \A i \in owed : \E p \in known : p.key.id = i

\* A batch holds a message once.
OnceEach(batch) == \A k, l \in DOMAIN batch : batch[k].id = batch[l].id => k = l

\* A batch holds what its run answers for.
BatchHolds(batch, owed) == \A i \in owed : \E k \in DOMAIN batch : batch[k].id = i

\* Messages are numbered as they are posted.
InOrder == \A i, j \in DOMAIN channel : i <= j => channel[i].posted <= channel[j].posted
PostedBy(time) == \A i \in DOMAIN channel : channel[i].posted <= time

TelegramRows ==
    /\ TelegramTypeOK /\ InOrder
    /\ \A i \in DOMAIN channel : channel[i].id = i
    /\ \A c \in checkpoints : Covered(c.owed, posts)

\* What a run has established: what it fetched, and that its posts cover it.
TelegramJob(j) ==
    /\ j.pc = "fetching" =>
          /\ j = [pc |-> "fetching", at |-> j.at, tries |-> j.tries,
                  asked |-> [limit |-> j.asked.limit, since |-> j.asked.since, after |-> j.asked.after]]
          /\ j.asked.limit \in Limits /\ j.asked.since \in Time /\ j.asked.after \in Nat
    /\ j.pc \in {"fetching", "fetched", "collected"} => j.at \in Time
    /\ j.pc \in {"fetched", "collected"} =>
          j.batch \in Seq(Message) /\ OnceEach(j.batch) /\ j.owed \subseteq MessageId /\ BatchHolds(j.batch, j.owed)
    /\ j.pc = "collected" =>
          /\ j.new \subseteq Post /\ j.edges \subseteq Edge
          /\ Covered(j.owed, posts \cup j.new)
    /\ j.pc = "validating" => j.new \subseteq PostKey

TelegramInv ==
    /\ part = "telegram" => SessionsOK /\ PostedBy(now) /\ \A o \in Operators : TelegramJob(job[o])
    /\ part # "telegram" => AllElsewhere("fetched")
    /\ TelegramRows

LEMMA TelegramPart ==
    ASSUME [Next]_vars
    PROVE  /\ part' = part
           /\ part # "telegram" => UNCHANGED telegramVars
           /\ part = "telegram" =>
                 \/ \E o \in Operators : TelegramNext(o)
                 \/ ChannelPosts \/ ChannelChanges
                 \/ (\E o \in Operators : Dies(o)) /\ UNCHANGED telegramVars
                 \/ Tick /\ UNCHANGED telegramVars
                 \/ UNCHANGED <<sessionVars, telegramVars>>
BY DEF Next, vars, Telegram, Collects, Interprets, Arrival, Outside, collectedVars, interpretedVars

LEMMA IdleTelegramJob == TelegramJob(Idle)
BY DEF TelegramJob, Idle

\* Posts stay, and whatever happens to the channel is dated.
TelegramGrows == posts \subseteq posts' /\ (PostedBy(now) => PostedBy(now)')

LEMMA CoveredStays ==
    ASSUME NEW owed, NEW known, NEW more, known \subseteq more, Covered(owed, known)
    PROVE  Covered(owed, more)
BY DEF Covered

LEMMA TelegramJobStays ==
    ASSUME TelegramGrows, NEW j, TelegramJob(j)
    PROVE  TelegramJob(j)'
<1>1. PICK owed, new : owed = j.owed /\ new = j.new
  OBVIOUS
<1>2. j.pc = "collected" => Covered(owed, posts' \cup new)
  <2>1. posts \cup new \subseteq posts' \cup new
    BY DEF TelegramGrows
  <2>2. QED
    BY <1>1, <2>1, CoveredStays DEF TelegramJob
<1>3. QED
  BY <1>1, <1>2 DEF TelegramJob, Covered

LEMMA TelegramStep ==
    ASSUME TelegramInv, part = "telegram", part' = part, SessionsOK', TelegramGrows, TelegramRows',
           NEW o \in Operators, NEW j, TelegramJob(j)', job'[o] = j,
           \A q \in Operators : q # o => job'[q] = job[q]
    PROVE  TelegramInv'
<1>1. \A q \in Operators : TelegramJob(job[q])'
  <2> TAKE q \in Operators
  <2>1. CASE q = o
    BY <2>1
  <2>2. CASE q # o
    <3>1. PICK k : k = job[q] /\ TelegramJob(k)
      BY DEF TelegramInv
    <3>2. TelegramJob(k)' /\ job'[q] = k
      BY <2>2, <3>1, TelegramJobStays
    <3>3. QED
      BY <3>2
  <2>3. QED
    BY <2>1, <2>2
<1>2. QED
  BY <1>1 DEF TelegramInv, TelegramGrows

LEMMA PostedIsNatural ==
    ASSUME TelegramRows
    PROVE  \A i \in DOMAIN channel : channel[i] \in Message /\ channel[i].id \in MessageId /\ channel[i].posted \in Nat
<1>1. \A i \in DOMAIN channel : channel[i] \in Message
  BY DEF TelegramRows, TelegramTypeOK
<1>2. QED
  BY <1>1, SessionsAssumption DEF Message, Time

LEMMA SameTelegram ==
    ASSUME TelegramInv, UNCHANGED telegramVars, now' = now \/ (now \in Time /\ now' = now + 1)
    PROVE  TelegramGrows /\ TelegramRows'
<1>1. PostedBy(now) => PostedBy(now)'
  <2>1. channel' = channel /\ \A i \in DOMAIN channel : channel[i].posted \in Nat
    BY PostedIsNatural DEF TelegramInv, telegramVars
  <2>2. QED
    BY <2>1, SessionsAssumption DEF PostedBy, Time
<1>2. QED
  BY <1>1 DEF TelegramInv, TelegramRows, TelegramTypeOK, Covered, InOrder, TelegramGrows, telegramVars

LEMMA TelegramTells ==
    ASSUME TelegramInv, part = "telegram", part' = part, UNCHANGED telegramVars,
           NEW o \in Operators, NEW j, TelegramJob(j), Begin(o, j) \/ Learn(o, j)
    PROVE  TelegramInv'
<1>1. /\ SessionsOK' /\ job'[o] = j /\ now' = now
      /\ \A q \in Operators : q # o => job'[q] = job[q]
  BY OneBegins, OneLearns DEF TelegramInv
<1>2. QED
  BY <1>1, SameTelegram, TelegramJobStays, TelegramStep

LEMMA TelegramEnds ==
    ASSUME TelegramInv, part = "telegram", part' = part, NEW o \in Operators, Finish(o),
           TelegramGrows, TelegramRows'
    PROVE  TelegramInv'
<1>1. /\ SessionsOK' /\ job'[o] = Idle
      /\ \A q \in Operators : q # o => job'[q] = job[q]
  BY OneFinishes DEF TelegramInv
<1>2. QED
  BY <1>1, IdleTelegramJob, TelegramJobStays, TelegramStep

\* A step that adds rows other than posts and checkpoints.
LEMMA TelegramWrites ==
    ASSUME TelegramInv, part = "telegram", part' = part, NEW o \in Operators, Finish(o),
           UNCHANGED <<channel, posts, checkpoints>>, TelegramTypeOK'
    PROVE  TelegramInv'
<1>1. now' = now
  BY OneFinishes DEF TelegramInv
<1>2. TelegramGrows /\ TelegramRows'
  BY <1>1 DEF TelegramInv, TelegramRows, TelegramGrows, Covered, InOrder, PostedBy
<1>3. QED
  BY <1>2, TelegramEnds

-----------------------------------------------------------------------------
(* The window that is fetched, and the posts known after it.               *)

\* The messages of a window one by one, from the newest on.
LEMMA NewestComesFirst ==
    ASSUME TelegramRows, NEW S \in SUBSET DOMAIN channel, NEW batch, batch = NewestFirst(S)
    PROVE  /\ batch \in Seq(Message) /\ OnceEach(batch)
           /\ \A i \in S : \E k \in DOMAIN batch : batch[k].id = i
           /\ batch # << >> => \A i \in S : i <= batch[1].id
<1> DEFINE later(i) == {j \in S : j > i}
           rank(i) == Cardinality(later(i))
           place(k) == CHOOSE i \in S : rank(i) = k - 1
<1>1. /\ channel \in Seq(Message) /\ Len(channel) \in Nat /\ DOMAIN channel = 1..Len(channel)
      /\ \A i \in S : i \in Nat /\ channel[i] \in Message /\ channel[i].id = i
  BY DEF TelegramRows, TelegramTypeOK
<1>2. IsFiniteSet(S)
  <2>1. IsFiniteSet(1..Len(channel))
    BY <1>1, FS_Interval
  <2>2. QED
    BY <1>1, <2>1, FS_Subset
<1>3. PICK n \in Nat : n = Cardinality(S)
  BY <1>2, FS_CardinalityType
<1>4. ASSUME NEW i \in S PROVE IsFiniteSet(later(i)) /\ rank(i) \in Nat /\ rank(i) < n
  <2>1. later(i) \subseteq S \ {i}
    BY <1>1
  <2>2. IsFiniteSet(S \ {i}) /\ Cardinality(S \ {i}) = n - 1
    BY <1>2, <1>3, FS_RemoveElement
  <2> HIDE DEF later
  <2>3. IsFiniteSet(later(i)) /\ rank(i) <= n - 1
    BY <2>1, <2>2, FS_Subset
  <2>4. rank(i) \in Nat
    BY <2>3, FS_CardinalityType
  <2>5. QED
    BY <1>3, <2>3, <2>4
<1>5. ASSUME NEW i \in S, NEW j \in S, i < j PROVE rank(j) < rank(i)
  <2>1. later(j) \subseteq later(i) \ {j} /\ j \in later(i)
    BY <1>1, <1>5
  <2>2. IsFiniteSet(later(i))
    BY <1>4
  <2>3. rank(i) \in Nat /\ rank(j) \in Nat
    BY <1>4
  <2> HIDE DEF later
  <2>4. IsFiniteSet(later(i) \ {j}) /\ Cardinality(later(i) \ {j}) = rank(i) - 1
    BY <2>1, <2>2, FS_RemoveElement
  <2>5. rank(j) <= rank(i) - 1
    BY <2>1, <2>4, FS_Subset
  <2>6. QED
    BY <2>3, <2>5
<1> HIDE DEF rank
<1>6. \A i, j \in S : rank(i) = rank(j) => i = j
  <2> TAKE i \in S, j \in S
  <2>1. i \in Nat /\ j \in Nat /\ rank(i) \in Nat /\ rank(j) \in Nat
    BY <1>1, <1>4
  <2>2. i < j \/ j < i \/ i = j
    BY <2>1
  <2>3. QED
    BY <1>5, <2>1, <2>2
<1>7. \A r \in 0..(n - 1) : \E i \in S : rank(i) = r
  <2>1. PICK f : f = [i \in S |-> rank(i)]
    OBVIOUS
  <2>2. f \in Injection(S, 0..(n - 1))
    <3>1. ASSUME NEW i \in S PROVE rank(i) \in 0..(n - 1)
      <4>1. rank(i) \in Nat /\ rank(i) < n
        BY <1>4
      <4>2. QED
        BY <1>3, <4>1
    <3>2. f \in [S -> 0..(n - 1)]
      BY <2>1, <3>1
    <3>3. IsInjective(f)
      BY <1>6, <2>1 DEF IsInjective
    <3>4. QED
      BY <3>2, <3>3 DEF Injection
  <2>3. IsFiniteSet(0..(n - 1)) /\ Cardinality(0..(n - 1)) = n
    <3>1. 0 \in Int /\ n - 1 \in Int
      BY <1>3
    <3>2. IsFiniteSet(0..(n - 1)) /\ Cardinality(0..(n - 1)) = IF 0 > n - 1 THEN 0 ELSE (n - 1) - 0 + 1
      BY <3>1, FS_Interval
    <3>3. QED
      BY <1>3, <3>2
  <2>4. f \in Surjection(S, 0..(n - 1))
    BY <1>3, <2>2, <2>3, FS_Injection
  <2>5. QED
    BY <2>1, <2>4 DEF Surjection
<1>8. \A k \in 1..n : place(k) \in S /\ rank(place(k)) = k - 1
  <2> TAKE k \in 1..n
  <2>1. \E i \in S : rank(i) = k - 1
    BY <1>3, <1>7
  <2>2. QED
    BY <2>1
<1>9. batch = [k \in 1..n |-> channel[place(k)]]
  BY <1>3, Zenon DEF NewestFirst, rank
<1>10. \A i \in S : rank(i) + 1 \in 1..n /\ place(rank(i) + 1) = i
  <2> TAKE i \in S
  <2>1. rank(i) \in Nat /\ rank(i) < n
    BY <1>4
  <2>2. rank(i) + 1 \in 1..n /\ (rank(i) + 1) - 1 = rank(i)
    BY <1>3, <2>1
  <2>3. QED
    BY <1>6, <1>8, <2>2
<1> HIDE DEF place
<1>11. /\ DOMAIN batch = 1..n
       /\ \A k \in 1..n : batch[k] = channel[place(k)] /\ batch[k] \in Message /\ batch[k].id = place(k)
  BY <1>1, <1>8, <1>9
<1>12. batch \in Seq(Message)
  BY <1>3, <1>9, <1>11
<1>13. OnceEach(batch)
  <2>1. ASSUME NEW k \in 1..n, NEW l \in 1..n, place(k) = place(l) PROVE k = l
    <3>1. k - 1 = l - 1
      BY <1>8, <2>1
    <3>2. QED
      BY <1>3, <3>1
  <2>2. QED
    BY <1>11, <2>1 DEF OnceEach
<1>14. ASSUME batch # << >>, NEW i \in S PROVE i <= batch[1].id
  <2>1. 1 \in 1..n
    BY <1>3, <1>11, <1>12, <1>14
  <2>2. place(1) \in S /\ rank(place(1)) = 0
    BY <1>8, <2>1
  <2>3. ~(place(1) < i)
    <3>1. rank(i) \in Nat
      BY <1>4
    <3>2. place(1) < i => rank(i) < rank(place(1))
      BY <1>5, <2>2
    <3>3. QED
      BY <2>2, <3>1, <3>2
  <2>4. QED
    BY <1>1, <1>11, <2>1, <2>2, <2>3
<1>15. QED
  BY <1>10, <1>11, <1>12, <1>13, <1>14

\* Whatever was removed or is too old, a fetch holds what it answers for: nothing that
\* could be read lies beyond the newest of its messages, or that would be of the batch.
LEMMA FetchHolds ==
    ASSUME TelegramRows, NEW limit \in Limits, NEW since \in Time, NEW after \in Nat,
           NEW asked, asked = [limit |-> limit, since |-> since, after |-> after],
           NEW told \in SUBSET {i \in DOMAIN channel : channel[i].gone}, NEW batch,
           batch = NewestFirst(Window(asked) \cup told)
    PROVE  /\ batch \in Seq(Message) /\ OnceEach(batch)
           /\ Owed(asked, batch) \subseteq MessageId /\ BatchHolds(batch, Owed(asked, batch))
<1> DEFINE above == {i \in DOMAIN channel : ~channel[i].gone /\ i > after - limit}
           S == Window(asked) \cup told
<1>1. /\ Len(channel) \in Nat /\ DOMAIN channel = 1..Len(channel) /\ limit \in Nat \ {0}
      /\ \A i \in DOMAIN channel : i \in MessageId /\ channel[i].posted \in Nat /\ channel[i].id = i
  BY TelegramAssumption, PostedIsNatural DEF TelegramRows, TelegramTypeOK
<1>2. since \in Nat
  BY SessionsAssumption DEF Time
<1>3. \A i \in above : Cardinality({j \in above : j >= i}) <= limit /\ channel[i].posted >= since => i \in S
  BY DEF Window
<1>4. S \subseteq DOMAIN channel
  BY DEF Window
<1>5. /\ batch \in Seq(Message) /\ OnceEach(batch)
      /\ \A i \in S : \E k \in DOMAIN batch : batch[k].id = i
      /\ batch # << >> => \A i \in S : i <= batch[1].id
  <2>1. PICK W : W = S
    OBVIOUS
  <2>2. W \in SUBSET DOMAIN channel /\ batch = NewestFirst(W)
    BY <1>4, <2>1
  <2> HIDE DEF S
  <2>3. QED
    BY <2>1, <2>2, NewestComesFirst
<1>6. ASSUME NEW i \in Owed(asked, batch) PROVE i \in S
  <2>1. PICK last : last = batch[1].id
    OBVIOUS
  <2>2. /\ batch # << >> /\ i \in above /\ i <= last /\ i > last - limit /\ channel[i].posted >= since
    BY <1>6, <2>1 DEF Owed
  <2>3. last \in Nat
    <3>1. batch[1] \in Message
      BY <1>5, <2>2
    <3>2. QED
      BY <2>1, <3>1 DEF Message, MessageId
  <2>4. i \in 1..Len(channel) /\ i \in Nat
    BY <1>1, <2>2
  <2>5. ASSUME NEW j \in above, j > last PROVE FALSE
    <3>1. above \subseteq Nat /\ \A x \in above : x <= Len(channel)
      BY <1>1
    <3>2. PICK t \in above : \A x \in above : x <= t
      <4> HIDE DEF above
      <4>1. QED
        BY <1>1, <2>5, <3>1, GreatestNatural
    <3>3. {x \in above : x >= t} = {t}
      <4> HIDE DEF above
      <4>1. \A x \in above : x \in Nat /\ (x >= t => x = t)
        BY <3>1, <3>2
      <4>2. t >= t
        BY <3>1
      <4>3. QED
        BY <4>1, <4>2
    <3>4. Cardinality({x \in above : x >= t}) <= limit
      <4> HIDE DEF above
      <4>1. Cardinality({t}) = 1
        BY FS_Singleton
      <4>2. Cardinality({x \in above : x >= t}) = 1
        BY <3>3, <4>1, Zenon
      <4>3. QED
        BY <1>1, <4>2
    <3>5. t > last /\ i <= t
      BY <2>2, <2>3, <2>4, <2>5, <3>1, <3>2
    <3>6. channel[t].posted >= since
      <4>1. channel[i].posted <= channel[t].posted
        BY <2>2, <3>2, <3>5 DEF TelegramRows, InOrder
      <4>2. QED
        BY <1>1, <1>2, <2>2, <3>2, <4>1
    <3>7. t \in S
      BY <1>3, <3>2, <3>4, <3>6
    <3>8. t <= last
      BY <1>5, <2>1, <2>2, <3>7
    <3>9. QED
      BY <2>3, <3>1, <3>2, <3>5, <3>8
  <2>6. {x \in above : x >= i} \subseteq i..last
    <3>1. above \subseteq Nat
      BY <1>1
    <3> HIDE DEF above
    <3>2. ASSUME NEW x \in above, x >= i PROVE x \in i..last
      <4>1. ~(x > last) /\ x \in Nat
        BY <2>5, <3>1
      <4>2. QED
        BY <2>3, <2>4, <3>2, <4>1
    <3>3. QED
      BY <3>2
  <2>7. IsFiniteSet(i..last) /\ Cardinality(i..last) = IF i > last THEN 0 ELSE last - i + 1
    BY <2>3, <2>4, FS_Interval
  <2>8. Cardinality(i..last) <= limit
    BY <1>1, <2>2, <2>3, <2>4, <2>7
  <2>9. Cardinality({x \in above : x >= i}) <= limit
    <3>1. IsFiniteSet({x \in above : x >= i}) /\ Cardinality({x \in above : x >= i}) <= Cardinality(i..last)
      <4>1. PICK T : T = {x \in above : x >= i}
        OBVIOUS
      <4>2. T \in SUBSET (i..last)
        BY <2>6, <4>1
      <4>3. IsFiniteSet(T) /\ Cardinality(T) <= Cardinality(i..last)
        BY <2>7, <4>2, FS_Subset
      <4>4. QED
        BY <4>1, <4>3
    <3>2. PICK c, d : c = Cardinality({x \in above : x >= i}) /\ d = Cardinality(i..last)
      OBVIOUS
    <3>3. c \in Nat
      BY <3>1, <3>2, FS_CardinalityType
    <3>4. d \in Nat
      BY <2>7, <3>2, FS_CardinalityType
    <3>5. c <= d /\ d <= limit
      BY <2>8, <3>1, <3>2
    <3>6. c <= limit
      BY <1>1, <3>3, <3>4, <3>5
    <3>7. QED
      BY <3>2, <3>6
  <2>10. QED
    BY <1>3, <2>2, <2>9
<1>7. Owed(asked, batch) \subseteq MessageId
  BY <1>1 DEF Owed
<1>8. BatchHolds(batch, Owed(asked, batch))
  BY <1>5, <1>6 DEF BatchHolds
<1>9. QED
  BY <1>5, <1>7, <1>8

\* What the posts are after one more message.
Grown(known, m, at) == IF Unchanged(known, m) THEN known ELSE known \cup {PostOf(known, m, at)}
Growth(u, n, batch, at) ==
    /\ u = [k \in 0..n |-> u[k]] /\ u[0] = posts
    /\ \A k \in 1..n : u[k] = Grown(u[k - 1], batch[k], at)

LEMMA GrowthGoesOn ==
    ASSUME NEW batch, NEW at, Len(batch) \in Nat, NEW n \in 0..Len(batch)
    PROVE  \E u : Growth(u, n, batch, at)
<1> DEFINE bad == {m \in 0..Len(batch) : ~ \E u : Growth(u, m, batch, at)}
<1>1. ASSUME bad # {} PROVE FALSE
  <2>1. PICK m \in bad : \A k \in bad : m <= k
    <3>1. bad \subseteq Nat
      OBVIOUS
    <3> HIDE DEF bad
    <3>2. QED
      BY <1>1, <3>1, LeastNatural
  <2>2. CASE m = 0
    <3>1. Growth([k \in 0..0 |-> posts], 0, batch, at)
      BY DEF Growth
    <3>2. QED
      BY <2>1, <2>2, <3>1
  <2>3. CASE m # 0
    <3>1. m - 1 \in 0..Len(batch) /\ m \in 1..Len(batch) /\ m - 1 \notin bad
      BY <2>1, <2>3
    <3>2. PICK u : Growth(u, m - 1, batch, at)
      BY <3>1
    <3>3. PICK last : last = Grown(u[m - 1], batch[m], at)
      OBVIOUS
    <3>4. PICK w : w = [k \in 0..m |-> IF k = m THEN last ELSE u[k]]
      OBVIOUS
    <3>5. w = [k \in 0..m |-> w[k]] /\ w[0] = posts
      BY <2>3, <3>1, <3>2, <3>4 DEF Growth
    <3>6. ASSUME NEW k \in 1..m PROVE w[k] = Grown(w[k - 1], batch[k], at)
      <4>1. k \in 0..m /\ k - 1 \in 0..m /\ k - 1 # m
        BY <3>1
      <4>2. w[k - 1] = u[k - 1]
        BY <3>4, <4>1
      <4>3. CASE k = m
        BY <3>3, <3>4, <4>1, <4>2, <4>3
      <4>4. CASE k # m
        <5>1. k \in 1..(m - 1) /\ w[k] = u[k]
          BY <3>1, <3>4, <4>1, <4>4
        <5>2. QED
          BY <3>2, <4>2, <5>1 DEF Growth
      <4>5. QED
        BY <4>3, <4>4
    <3>7. Growth(w, m, batch, at)
      BY <3>5, <3>6 DEF Growth
    <3>8. QED
      BY <2>1, <3>7
  <2>4. QED
    BY <2>2, <2>3
<1>2. QED
  BY <1>1

\* The function that KnownAfter defines by recursion.
LEMMA KnownIsGrowth ==
    ASSUME NEW batch, NEW at, Len(batch) \in Nat
    PROVE  Growth(KnownAfter(batch, at), Len(batch), batch, at)
<1> DEFINE next(f, k) == IF k = 0 THEN posts
                         ELSE IF Unchanged(f[k - 1], batch[k]) THEN f[k - 1]
                         ELSE f[k - 1] \cup {PostOf(f[k - 1], batch[k], at)}
           known == CHOOSE f : f = [k \in 0..Len(batch) |-> next(f, k)]
<1>1. PICK u : Growth(u, Len(batch), batch, at)
  <2>1. Len(batch) \in 0..Len(batch)
    OBVIOUS
  <2>2. QED
    BY <2>1, GrowthGoesOn
<1>2. \A k \in 0..Len(batch) : u[k] = next(u, k)
  BY <1>1 DEF Growth, Grown
<1>3. u = [k \in 0..Len(batch) |-> next(u, k)]
  <2> HIDE DEF next
  <2>1. QED
    BY <1>1, <1>2 DEF Growth
<1>4. known = [k \in 0..Len(batch) |-> next(known, k)]
  <2> HIDE DEF next
  <2>1. QED
    BY <1>3
<1>5. KnownAfter(batch, at) = known
  BY DEF KnownAfter
<1> HIDE DEF known
<1>6. \A k \in 0..Len(batch) : known[k] = next(known, k)
  <2> HIDE DEF next
  <2>1. QED
    BY <1>4
<1>7. known[0] = posts /\ \A k \in 1..Len(batch) : known[k] = Grown(known[k - 1], batch[k], at)
  <2>1. 0 \in 0..Len(batch)
    OBVIOUS
  <2>2. known[0] = posts
    BY <1>6, <2>1
  <2>3. ASSUME NEW k \in 1..Len(batch) PROVE known[k] = Grown(known[k - 1], batch[k], at)
    <3>1. k \in 0..Len(batch) /\ k # 0
      OBVIOUS
    <3>2. QED
      BY <1>6, <3>1, Zenon DEF Grown
  <2>4. QED
    BY <2>2, <2>3
<1>8. known = [k \in 0..Len(batch) |-> known[k]]
  BY <1>4
<1>9. QED
  BY <1>5, <1>7, <1>8 DEF Growth

\* A message leaves a post of its own: the previous one that says the same, or a new one.
LEMMA MessageIsKept ==
    ASSUME NEW known, known \subseteq Post, NEW m \in Message, NEW at \in Time
    PROVE  /\ known \subseteq Grown(known, m, at) /\ Grown(known, m, at) \subseteq Post
           /\ \E p \in Grown(known, m, at) : p.key.id = m.id
<1>1. Previous(known, m) \subseteq {p.key : p \in {q \in known : q.key.id = m.id}}
  BY DEF Previous
<1>2. \A k \in Previous(known, m) : k \in PostKey /\ \E p \in known : p.key = k /\ p.key.id = m.id
  BY <1>1 DEF Post
<1>3. CASE Unchanged(known, m)
  BY <1>2, <1>3 DEF Grown, Unchanged
<1>4. CASE ~Unchanged(known, m)
  <2>1. PICK prev : prev = IF Previous(known, m) = {} THEN NoPost ELSE CHOOSE k \in Previous(known, m) : TRUE
    OBVIOUS
  <2>2. IF Previous(known, m) = {} THEN prev = NoPost ELSE prev \in PostKey
    BY <1>2, <2>1
  <2>3. PICK text : text = IF m.gone /\ Previous(known, m) # {} THEN prev.text ELSE m.text
    OBVIOUS
  <2>4. text \in Texts
    BY <2>2, <2>3 DEF PostKey, Message
  <2>5. PostOf(known, m, at) = [key |-> [id |-> m.id, at |-> at, deleted |-> m.gone, text |-> text], revises |-> prev]
    BY <2>1, <2>3 DEF PostOf
  <2>6. PICK key : key = [id |-> m.id, at |-> at, deleted |-> m.gone, text |-> text]
    OBVIOUS
  <2>7. key \in PostKey /\ key.id = m.id
    BY <2>4, <2>6 DEF PostKey, Message
  <2>8. PostOf(known, m, at) \in Post /\ PostOf(known, m, at).key.id = m.id
    BY <2>2, <2>5, <2>6, <2>7 DEF Post
  <2>9. QED
    BY <1>4, <2>8 DEF Grown
<1>5. QED
  BY <1>3, <1>4

LEMMA GrowthKeeps ==
    ASSUME posts \subseteq Post, NEW at \in Time, NEW batch \in Seq(Message),
           NEW u, Growth(u, Len(batch), batch, at), NEW n \in 0..Len(batch)
    PROVE  posts \subseteq u[n] /\ u[n] \subseteq Post /\ \A i \in 1..n : \E p \in u[n] : p.key.id = batch[i].id
<1> DEFINE good(k) == /\ posts \subseteq u[k] /\ u[k] \subseteq Post
                      /\ \A i \in 1..k : \E p \in u[k] : p.key.id = batch[i].id
           bad == {k \in 0..Len(batch) : ~good(k)}
<1>1. Len(batch) \in Nat /\ \A k \in 1..Len(batch) : batch[k] \in Message
  OBVIOUS
<1>2. ASSUME bad # {} PROVE FALSE
  <2>1. PICK m \in bad : \A k \in bad : m <= k
    <3>1. bad \subseteq Nat
      BY <1>1
    <3> HIDE DEF bad
    <3>2. QED
      BY <1>2, <3>1, LeastNatural
  <2>2. CASE m = 0
    <3>1. u[0] = posts
      BY DEF Growth
    <3>2. good(0)
      BY <3>1
    <3> HIDE DEF good
    <3>3. QED
      BY <2>1, <2>2, <3>2
  <2>3. CASE m # 0
    <3>1. m - 1 \in 0..Len(batch) /\ m \in 1..Len(batch)
      BY <1>1, <2>1, <2>3
    <3>2. good(m - 1)
      <4> HIDE DEF good
      <4>1. m - 1 \notin bad
        BY <1>1, <2>1
      <4>2. QED
        BY <3>1, <4>1
    <3>3. u[m] = Grown(u[m - 1], batch[m], at) /\ batch[m] \in Message
      BY <1>1, <3>1 DEF Growth
    <3>4. /\ u[m - 1] \subseteq u[m] /\ u[m] \subseteq Post
          /\ \E p \in u[m] : p.key.id = batch[m].id
      BY <3>2, <3>3, MessageIsKept
    <3>5. \A i \in 1..m : i = m \/ i \in 1..(m - 1)
      BY <3>1
    <3>6. good(m)
      BY <3>2, <3>4, <3>5
    <3> HIDE DEF good
    <3>7. QED
      BY <2>1, <3>6
  <2>4. QED
    BY <2>2, <2>3
<1>3. good(n)
  <2> HIDE DEF good
  <2>1. QED
    BY <1>2
<1>4. QED
  BY <1>3

LEMMA EdgesAreEdges ==
    ASSUME NEW known, known \subseteq Post, NEW m, NEW p \in Post
    PROVE  EdgesOf(known, m, p) \subseteq Edge
<1> DEFINE link(k, r) == [from |-> k, to |-> p.key, relation |-> r]
           same == {q.key : q \in {r \in known : r.key # p.key /\ r.key.text = p.key.text /\ r.key.at <= p.key.at}}
           first == {k \in same : \A q \in same : k.at <= q.at}
           origins == {k \in {q.key : q \in known} : k.id = m.origin}
<1>1. p.key \in PostKey /\ p.revises \in PostKey \cup {NoPost} /\ \A q \in known : q.key \in PostKey
  BY DEF Post
<1>2. first \subseteq PostKey /\ origins \subseteq PostKey
  BY <1>1
<1>3. \A k \in PostKey : link(k, "likely_copy_of") \in Edge /\ link(k, "forwarded_from") \in Edge
  BY <1>1 DEF Edge
<1>4. first # {} => (CHOOSE k \in first : TRUE) \in PostKey
  <2> HIDE DEF first
  <2>1. QED
    BY <1>2
<1> HIDE DEF link, first, origins
<1>5. {link(k, "likely_copy_of") :
          k \in IF p.revises = NoPost /\ m.origin = 0 /\ first # {} THEN {CHOOSE k \in first : TRUE} ELSE {}} \subseteq Edge
  BY <1>3, <1>4
<1>6. {link(p.revises, IF m.origin # 0 THEN "forwarded_from" ELSE "likely_copy_of") :
          x \in IF p.revises # NoPost /\ ~m.gone THEN {1} ELSE {}} \subseteq Edge
  BY <1>1, <1>3
<1>7. {link(k, "forwarded_from") :
          k \in {k \in origins : m.origin # 0 /\ k # p.key /\ \A q \in origins : q.at <= k.at}} \subseteq Edge
  BY <1>2, <1>3
<1>8. QED
  BY <1>5, <1>6, <1>7 DEF EdgesOf, link, first, origins

-----------------------------------------------------------------------------
(* The steps of a run.                                                     *)

LEMMA BeginTelegramKeeps ==
    ASSUME TelegramInv, part = "telegram", part' = part, NEW o \in Operators, BeginTelegram(o)
    PROVE  TelegramInv'
<1>1. PICK l \in Limits, s \in 0..now, a \in {0} \cup {c.last : c \in LatestCheckpoint} :
          /\ Begin(o, [pc |-> "fetching", at |-> now, tries |-> 1,
                       asked |-> [limit |-> l, since |-> s, after |-> a]])
          /\ UNCHANGED telegramVars
  BY DEF BeginTelegram
<1>2. a \in Nat
  BY DEF LatestCheckpoint, TelegramInv, TelegramRows, TelegramTypeOK, Checkpoint, MessageId
<1>3. now \in Time /\ s \in Time
  BY SessionsAssumption DEF TelegramInv, SessionsOK, Time
<1>4. PICK j : j = [pc |-> "fetching", at |-> now, tries |-> 1,
                    asked |-> [limit |-> l, since |-> s, after |-> a]]
  OBVIOUS
<1>5. TelegramJob(j)
  BY <1>2, <1>3, <1>4 DEF TelegramJob
<1>6. QED
  BY <1>1, <1>4, <1>5, TelegramTells

LEMMA FetchingKeeps ==
    ASSUME TelegramInv, part = "telegram", part' = part, NEW o \in Operators,
           FetchAnswers(o) \/ RateLimited(o) \/ FetchFails(o)
    PROVE  TelegramInv'
<1>1. PICK at, limit, since, after, tries :
          /\ at \in Time /\ limit \in Limits /\ since \in Time /\ after \in Nat
          /\ job[o] = [pc |-> "fetching", at |-> at, tries |-> tries,
                       asked |-> [limit |-> limit, since |-> since, after |-> after]]
  <2>1. At(o, "fetching") /\ TelegramJob(job[o])
    BY DEF FetchAnswers, RateLimited, FetchFails, TelegramInv
  <2>2. QED
    BY <2>1 DEF TelegramJob, At
<1>2. PICK asked : asked = [limit |-> limit, since |-> since, after |-> after]
  OBVIOUS
<1>3. CASE FetchAnswers(o)
  <2>1. PICK told \in SUBSET {i \in DOMAIN channel : channel[i].gone} :
            LET batch == NewestFirst(Window(job[o].asked) \cup told)
            IN  Learn(o, [pc |-> "fetched", at |-> job[o].at, batch |-> batch,
                          owed |-> Owed(job[o].asked, batch)])
    BY <1>3 DEF FetchAnswers
  <2>2. PICK batch : batch = NewestFirst(Window(asked) \cup told)
    OBVIOUS
  <2>3. PICK owed : owed = Owed(asked, batch)
    OBVIOUS
  <2>4. batch \in Seq(Message) /\ OnceEach(batch) /\ owed \subseteq MessageId /\ BatchHolds(batch, owed)
    BY <1>1, <1>2, <2>2, <2>3, FetchHolds DEF TelegramInv
  <2>5. PICK j : j = [pc |-> "fetched", at |-> at, batch |-> batch, owed |-> owed]
    OBVIOUS
  <2>6. job[o].asked = asked /\ job[o].at = at
    BY <1>1, <1>2
  <2>7. Learn(o, j) /\ UNCHANGED telegramVars
    BY <1>3, <2>1, <2>2, <2>3, <2>5, <2>6 DEF FetchAnswers
  <2>8. TelegramJob(j)
    BY <1>1, <2>4, <2>5 DEF TelegramJob
  <2>9. QED
    BY <2>7, <2>8, TelegramTells
<1>4. CASE RateLimited(o)
  <2>1. PICK j : j = [pc |-> "fetching", at |-> at, tries |-> tries + 1, asked |-> asked]
    OBVIOUS
  <2>2. [job[o] EXCEPT !.tries = @ + 1] = j
    BY <1>1, <1>2, <2>1
  <2>3. Learn(o, j) /\ UNCHANGED telegramVars
    BY <1>4, <2>2 DEF RateLimited
  <2>4. TelegramJob(j)
    BY <1>1, <1>2, <2>1 DEF TelegramJob
  <2>5. QED
    BY <2>3, <2>4, TelegramTells
<1>5. CASE FetchFails(o)
  <2>1. /\ Finish(o) /\ runs' = runs \cup {[at |-> at, status |-> "failed"]}
        /\ UNCHANGED <<channel, posts, edges, checkpoints, rumors>>
    BY <1>1, <1>5 DEF FetchFails
  <2>2. TelegramTypeOK'
    BY <1>1, <2>1 DEF TelegramInv, TelegramRows, TelegramTypeOK, RunStatus
  <2>3. QED
    BY <2>1, <2>2, TelegramWrites
<1>6. QED
  BY <1>3, <1>4, <1>5

LEMMA NormalizeKeeps ==
    ASSUME TelegramInv, part = "telegram", part' = part, NEW o \in Operators, Normalize(o)
    PROVE  TelegramInv'
<1>1. PICK at \in Time, owed \in SUBSET MessageId, batch \in Seq(Message) :
          /\ at = job[o].at /\ owed = job[o].owed /\ batch = job[o].batch
          /\ OnceEach(batch) /\ BatchHolds(batch, owed)
  <2>1. At(o, "fetched") /\ TelegramJob(job[o])
    BY DEF Normalize, TelegramInv
  <2>2. QED
    BY <2>1 DEF TelegramJob, At
<1>2. PICK known : known = KnownAfter(batch, at)
  OBVIOUS
<1>3. PICK new, links :
          /\ new = known[Len(batch)] \ posts
          /\ links = UNION {UNION {EdgesOf(known[k - 1], batch[k], p) : p \in known[k] \ known[k - 1]} : k \in DOMAIN batch}
  OBVIOUS
<1>4. /\ Learn(o, [pc |-> "collected", at |-> at, owed |-> owed, batch |-> batch, new |-> new, edges |-> links])
      /\ UNCHANGED telegramVars
  BY <1>1, <1>2, <1>3 DEF Normalize
<1>5. Len(batch) \in Nat /\ DOMAIN batch = 1..Len(batch)
  OBVIOUS
<1>6. posts \subseteq Post /\ Growth(known, Len(batch), batch, at)
  BY <1>2, <1>5, KnownIsGrowth DEF TelegramInv, TelegramRows, TelegramTypeOK
<1>7. \A n \in 0..Len(batch) : /\ posts \subseteq known[n] /\ known[n] \subseteq Post
                               /\ \A i \in 1..n : \E p \in known[n] : p.key.id = batch[i].id
  BY <1>6, GrowthKeeps
<1>8. /\ posts \subseteq known[Len(batch)] /\ known[Len(batch)] \subseteq Post
      /\ \A i \in 1..Len(batch) : \E p \in known[Len(batch)] : p.key.id = batch[i].id
  <2>1. Len(batch) \in 0..Len(batch)
    BY <1>5
  <2>2. QED
    BY <1>7, <2>1
<1>9. new \subseteq Post /\ posts \cup new = known[Len(batch)]
  BY <1>3, <1>8
<1>10. links \subseteq Edge
  <2>1. ASSUME NEW k \in DOMAIN batch, NEW p \in known[k] \ known[k - 1]
        PROVE  EdgesOf(known[k - 1], batch[k], p) \subseteq Edge
    <3>1. k \in 0..Len(batch) /\ k - 1 \in 0..Len(batch)
      BY <1>5
    <3>2. known[k - 1] \subseteq Post /\ p \in Post
      BY <1>7, <3>1
    <3>3. QED
      BY <3>2, EdgesAreEdges
  <2>2. QED
    BY <1>3, <2>1
<1>11. Covered(owed, posts \cup new)
  <2>1. ASSUME NEW i \in owed PROVE \E p \in posts \cup new : p.key.id = i
    <3>1. PICK k \in DOMAIN batch : batch[k].id = i
      BY <1>1 DEF BatchHolds
    <3>2. \E p \in known[Len(batch)] : p.key.id = batch[k].id
      BY <1>5, <1>8
    <3>3. QED
      BY <1>9, <3>1, <3>2
  <2>2. QED
    BY <2>1 DEF Covered
<1>12. PICK j : j = [pc |-> "collected", at |-> at, owed |-> owed, batch |-> batch, new |-> new, edges |-> links]
  OBVIOUS
<1>13. TelegramJob(j)
  BY <1>1, <1>9, <1>10, <1>11, <1>12 DEF TelegramJob
<1>14. QED
  BY <1>4, <1>12, <1>13, TelegramTells

\* The checkpoint and the posts that cover its window come in one commit.
LEMMA CommitTelegramKeeps ==
    ASSUME TelegramInv, part = "telegram", part' = part, NEW o \in Operators, CommitTelegram(o)
    PROVE  TelegramInv'
<1>1. PICK at, owed, batch, new, links :
          /\ at \in Time /\ owed \subseteq MessageId /\ batch \in Seq(Message)
          /\ at = job[o].at /\ owed = job[o].owed /\ batch = job[o].batch
          /\ new = job[o].new /\ links = job[o].edges
          /\ new \subseteq Post /\ links \subseteq Edge
          /\ Covered(owed, posts \cup new)
  <2>1. At(o, "collected") /\ TelegramJob(job[o])
    BY DEF CommitTelegram, TelegramInv
  <2>2. QED
    BY <2>1 DEF TelegramJob, At
<1>2. /\ posts' = posts \cup new /\ edges' = edges \cup links
      /\ checkpoints' = checkpoints \cup
             (IF batch = << >> THEN {} ELSE {[last |-> batch[1].id, at |-> at, owed |-> owed]})
      /\ runs' = runs \cup {[at |-> at, status |-> "succeeded"]}
      /\ Learn(o, [pc |-> "validating", new |-> {p.key : p \in new}])
      /\ UNCHANGED <<channel, rumors>>
  BY <1>1 DEF CommitTelegram
<1>3. PICK c : c = [last |-> batch[1].id, at |-> at, owed |-> owed]
  OBVIOUS
<1>4. ASSUME batch # << >> PROVE c \in Checkpoint
  <2>1. batch[1] \in Message
    BY <1>1, <1>4
  <2>2. batch[1].id \in MessageId
    BY <2>1 DEF Message
  <2>3. QED
    BY <1>1, <1>3, <2>2 DEF Checkpoint
<1>5. TelegramTypeOK'
  BY <1>1, <1>2, <1>3, <1>4 DEF TelegramInv, TelegramRows, TelegramTypeOK, RunStatus
<1>6. ASSUME NEW d \in checkpoints' PROVE Covered(d.owed, posts')
  <2>1. CASE d \in checkpoints
    <3>1. Covered(d.owed, posts)
      BY <2>1 DEF TelegramInv, TelegramRows
    <3>2. posts \subseteq posts'
      BY <1>2
    <3>3. QED
      BY <3>1, <3>2, CoveredStays
  <2>2. CASE d \notin checkpoints
    BY <1>1, <1>2, <1>3, <1>6, <2>2
  <2>3. QED
    BY <2>1, <2>2
<1>7. TelegramRows'
  BY <1>2, <1>5, <1>6 DEF TelegramInv, TelegramRows, InOrder, Covered
<1>8. PICK keys : keys = {p.key : p \in new}
  OBVIOUS
<1>9. PICK j : j = [pc |-> "validating", new |-> keys]
  OBVIOUS
<1>10. keys \subseteq PostKey
  BY <1>1, <1>8 DEF Post
<1>11. TelegramJob(j)'
  BY <1>9, <1>10 DEF TelegramJob
<1>12. /\ SessionsOK' /\ job'[o] = j /\ now' = now
       /\ \A q \in Operators : q # o => job'[q] = job[q]
  BY <1>2, <1>8, <1>9, OneLearns DEF TelegramInv
<1>13. TelegramGrows
  BY <1>2, <1>12 DEF TelegramGrows, PostedBy
<1>14. QED
  BY <1>7, <1>11, <1>12, <1>13, TelegramStep

LEMMA TelegramNextKeeps ==
    ASSUME TelegramInv, part = "telegram", part' = part, NEW o \in Operators, TelegramNext(o)
    PROVE  TelegramInv'
<1>1. CASE NormalizeRaises(o) \/ CommitRefused(o)
  <2>1. PICK j : j = [pc |-> "raised"]
    OBVIOUS
  <2>2. TelegramJob(j)
    BY <2>1 DEF TelegramJob
  <2>3. QED
    BY <1>1, <2>1, <2>2, TelegramTells DEF NormalizeRaises, CommitRefused
<1>2. CASE DeriveCandidates(o)
  <2>1. PICK new : new = job[o].new /\ new \subseteq PostKey
    BY <1>2 DEF DeriveCandidates, At, TelegramInv, TelegramJob
  <2>2. \A k \in new : RumorOf(k) \in Rumor
    BY <2>1 DEF RumorOf, Rumor, PostKey
  <2>3. Finish(o) /\ rumors' \subseteq rumors \cup {RumorOf(k) : k \in new}
        /\ UNCHANGED <<channel, posts, edges, checkpoints, runs>>
    BY <1>2, <2>1 DEF DeriveCandidates
  <2>4. TelegramTypeOK'
    BY <2>2, <2>3 DEF TelegramInv, TelegramRows, TelegramTypeOK
  <2>5. QED
    BY <2>3, <2>4, TelegramWrites
<1>3. CASE EndTelegram(o)
  <2>1. Finish(o) /\ UNCHANGED telegramVars
    BY <1>3 DEF EndTelegram
  <2>2. now' = now
    BY <2>1, OneFinishes DEF TelegramInv
  <2>3. QED
    BY <2>1, <2>2, SameTelegram, TelegramEnds
<1>4. QED
  BY <1>1, <1>2, <1>3, BeginTelegramKeeps, FetchingKeeps, NormalizeKeeps, CommitTelegramKeeps DEF TelegramNext

\* What the channel does meanwhile leaves its messages where they are, and dated as they were.
LEMMA ChannelKeeps ==
    ASSUME TelegramInv, part = "telegram", ChannelPosts \/ ChannelChanges
    PROVE  TelegramGrows /\ TelegramRows'
<1>1. /\ channel \in Seq(Message) /\ Len(channel) \in Nat /\ DOMAIN channel = 1..Len(channel)
      /\ PostedBy(now) /\ InOrder
  BY DEF TelegramInv, TelegramRows, TelegramTypeOK
<1>2. UNCHANGED <<sessionVars, posts, edges, checkpoints, runs, rumors>> /\ now' = now
  BY DEF ChannelPosts, ChannelChanges, sessionVars
<1>3. now \in Time /\ \A i \in DOMAIN channel : channel[i].posted \in Nat
  BY PostedIsNatural DEF TelegramInv, SessionsOK
<1>4. /\ channel' \in Seq(Message)
      /\ \A i \in DOMAIN channel' : channel'[i].id = i
      /\ \A i \in DOMAIN channel' : channel'[i].posted <= now
      /\ \A i, j \in DOMAIN channel' : i <= j => channel'[i].posted <= channel'[j].posted
  <2>1. CASE ChannelPosts
    <3>1. PICK t \in Texts, f \in {0} \cup DOMAIN channel :
              /\ Len(channel) < MaxMessages
              /\ channel' = Append(channel, [id |-> Len(channel) + 1, text |-> t, posted |-> now,
                                             gone |-> FALSE, origin |-> f])
      BY <2>1 DEF ChannelPosts
    <3>2. PICK m : m = [id |-> Len(channel) + 1, text |-> t, posted |-> now, gone |-> FALSE, origin |-> f]
      OBVIOUS
    <3>3. Len(channel) + 1 \in MessageId /\ f \in 0..MaxMessages
      BY <1>1, <3>1, TelegramAssumption DEF MessageId
    <3>4. m \in Message /\ m.id = Len(channel) + 1 /\ m.posted = now
      BY <1>3, <3>2, <3>3 DEF Message
    <3>5. /\ channel' \in Seq(Message) /\ Len(channel') = Len(channel) + 1
          /\ DOMAIN channel' = 1..(Len(channel) + 1)
          /\ channel'[Len(channel) + 1] = m
          /\ \A i \in 1..Len(channel) : channel'[i] = channel[i]
      BY <1>1, <3>1, <3>2, <3>4
    <3>6. \A i \in DOMAIN channel' : i \in DOMAIN channel \/ i = Len(channel) + 1
      BY <1>1, <3>5
    <3>7. \A i \in DOMAIN channel' : channel'[i].id = i
      BY <1>1, <3>4, <3>5, <3>6 DEF TelegramInv, TelegramRows
    <3>8. now \in Nat
      BY <1>3, SessionsAssumption DEF Time
    <3>9. \A i \in DOMAIN channel' : channel'[i].posted <= now
      BY <1>1, <3>4, <3>5, <3>6, <3>8 DEF PostedBy
    <3>10. ASSUME NEW i \in DOMAIN channel', NEW j \in DOMAIN channel', i <= j
           PROVE  channel'[i].posted <= channel'[j].posted
      <4>1. CASE j = Len(channel) + 1
        BY <3>4, <3>5, <3>9, <4>1
      <4>2. CASE j # Len(channel) + 1
        <5>1. i \in DOMAIN channel /\ j \in DOMAIN channel
          BY <1>1, <3>5, <3>6, <3>10, <4>2
        <5>2. QED
          BY <1>1, <3>5, <3>10, <5>1 DEF InOrder
      <4>3. QED
        BY <4>1, <4>2
    <3>11. QED
      BY <3>5, <3>7, <3>9, <3>10
  <2>2. CASE ChannelChanges
    <3>1. PICK i \in DOMAIN channel, t \in Texts, gone \in BOOLEAN :
              channel' = [channel EXCEPT ![i].text = t, ![i].gone = gone]
      BY <2>2 DEF ChannelChanges
    <3>2. PICK m : m = [channel[i] EXCEPT !.text = t, !.gone = gone]
      OBVIOUS
    <3>3. channel[i] \in Message
      BY <1>1
    <3>4. m \in Message /\ m.id = channel[i].id /\ m.posted = channel[i].posted
      BY <3>2, <3>3 DEF Message
    <3>5. channel' = [channel EXCEPT ![i] = m]
      BY <3>1, <3>2
    <3>6. /\ channel' \in Seq(Message) /\ DOMAIN channel' = DOMAIN channel
          /\ \A k \in DOMAIN channel : channel'[k].id = channel[k].id /\ channel'[k].posted = channel[k].posted
      BY <1>1, <3>4, <3>5
    <3>7. QED
      BY <1>1, <3>6 DEF TelegramInv, TelegramRows, InOrder, PostedBy
  <2>3. QED
    BY <2>1, <2>2
<1>5. TelegramGrows
  BY <1>2, <1>4 DEF TelegramGrows, PostedBy
<1>6. TelegramTypeOK'
  BY <1>2, <1>4 DEF TelegramInv, TelegramRows, TelegramTypeOK
<1>7. QED
  BY <1>2, <1>4, <1>5, <1>6 DEF TelegramInv, TelegramRows, InOrder, Covered

LEMMA TelegramStarts == Init => TelegramInv
<1> SUFFICES ASSUME Init PROVE TelegramInv
  OBVIOUS
<1>1. TelegramInit
  BY DEF Init
<1>2. TelegramRows
  BY <1>1 DEF TelegramInit, TelegramRows, TelegramTypeOK, InOrder
<1>3. Elsewhere(Idle, "fetched")
  BY IdleElsewhere DEF Awaited
<1>4. QED
  BY <1>1, <1>2, <1>3, DeskStarts, IdleTelegramJob DEF TelegramInit, TelegramInv, PostedBy, AllElsewhere, SessionsOK

LEMMA TelegramKept == TelegramInv /\ [Next]_vars => TelegramInv'
<1> SUFFICES ASSUME TelegramInv, [Next]_vars PROVE TelegramInv'
  OBVIOUS
<1>1. part' = part
  BY TelegramPart
<1>2. CASE part # "telegram"
  <2>1. TelegramRows'
    BY <1>2, TelegramPart DEF TelegramInv, TelegramRows, TelegramTypeOK, InOrder, Covered, telegramVars
  <2>2. AllElsewhere("fetched")'
    <3>1. "fetched" \in Awaited /\ "fetched" \notin {"news_entry", "geo_report"}
      BY DEF Awaited
    <3>2. QED
      BY <1>2, <3>1, ElsewhereStays DEF TelegramInv
  <2>3. QED
    BY <1>1, <1>2, <2>1, <2>2 DEF TelegramInv
<1>3. CASE part = "telegram"
  <2>1. ASSUME NEW o \in Operators, Dies(o), UNCHANGED telegramVars PROVE TelegramInv'
    <3>1. Finish(o) /\ now' = now
      BY <1>3, <2>1, OneFinishes DEF Dies, TelegramInv
    <3>2. QED
      BY <1>1, <1>3, <2>1, <3>1, SameTelegram, TelegramEnds
  <2>2. ASSUME TelegramGrows, TelegramRows', Tick \/ UNCHANGED sessionVars PROVE TelegramInv'
    <3>1. SessionsOK' /\ job' = job
      BY <1>3, <2>2, ClockTicks, NothingHappens DEF TelegramInv
    <3>2. \A o \in Operators : TelegramJob(job[o])'
      <4> TAKE o \in Operators
      <4>1. PICK k : k = job[o] /\ TelegramJob(k)
        BY <1>3 DEF TelegramInv
      <4>2. TelegramJob(k)'
        BY <2>2, <4>1, TelegramJobStays
      <4>3. QED
        BY <3>1, <4>1, <4>2
    <3>3. QED
      BY <1>1, <1>3, <2>2, <3>1, <3>2 DEF TelegramInv, TelegramGrows
  <2>3. ASSUME ChannelPosts \/ ChannelChanges PROVE TelegramInv'
    BY <1>3, <2>2, <2>3, ChannelKeeps DEF ChannelPosts, ChannelChanges
  <2>4. ASSUME Tick \/ UNCHANGED sessionVars, UNCHANGED telegramVars PROVE TelegramInv'
    <3>1. now' = now \/ (now \in Time /\ now' = now + 1)
      BY <1>3, <2>4 DEF Tick, sessionVars, TelegramInv, SessionsOK
    <3>2. QED
      BY <2>2, <2>4, <3>1, SameTelegram
  <2>5. QED
    BY <1>1, <1>3, <2>1, <2>3, <2>4, TelegramNextKeeps, TelegramPart
<1>4. QED
  BY <1>2, <1>3

\* Inductive: messages are numbered as they are posted, so that a batch holds what its run
\* answers for; its posts cover it, and whoever commits first, posts stay.
THEOREM TelegramInductive == Spec => []TelegramInv
BY TelegramStarts, TelegramKept, PTL DEF Spec

\* The tables of the connector hold rows of their types.
THEOREM TelegramTypes == Spec => []TelegramTypeOK
<1>1. TelegramInv => TelegramTypeOK
  BY DEF TelegramInv, TelegramRows
<1>2. QED
  BY <1>1, TelegramInductive, PTL

\* Whatever runs race, fail or die, of the last limit messages that a checkpoint has passed
\* those that its run could read are in the posts (TelegramRunner.run,
\* TelethonClientAdapter.fetch).
THEOREM CheckpointsAlwaysCover == Spec => []CheckpointCoversWindow
<1>1. TelegramInv => CheckpointCoversWindow
  BY DEF TelegramInv, TelegramRows, CheckpointCoversWindow, Covered
<1>2. QED
  BY <1>1, TelegramInductive, PTL

-----------------------------------------------------------------------------
(* What the newest post of a message says.                                 *)

\* The posts of a message that were known before are those that count as before.
LEMMA OnlyItsOwn ==
    ASSUME NEW m, NEW known, NEW more, known \subseteq more,
           \A q \in more \ known : q.key.id # m.id, SaysWhat(m, known)
    PROVE  SaysWhat(m, more)
<1>1. {q \in more : q.key.id = m.id} = {q \in known : q.key.id = m.id}
  OBVIOUS
<1>2. QED
  BY <1>1 DEF SaysWhat

\* An acceptable message is said by its newest post: the one before, or a later one.
LEMMA AcceptedIsSaid ==
    ASSUME NEW known, known \subseteq Post, NEW m \in Message, NEW at \in Time, Acceptable(known, m, at)
    PROVE  SaysWhat(m, Grown(known, m, at))
<1> DEFINE of == {p.key : p \in {q \in known : q.key.id = m.id}}
<1>1. Previous(known, m) = {k \in of : \A q \in of : q.at <= k.at}
  BY DEF Previous
<1>2. of \subseteq PostKey
  BY DEF Post
<1>3. CASE Unchanged(known, m)
  <2>1. PICK k \in of : (\A q \in of : q.at <= k.at) /\ (m.gone \/ k.text = m.text) /\ k.deleted = m.gone
    BY <1>1, <1>3 DEF Unchanged
  <2>2. Grown(known, m, at) = known
    BY <1>3 DEF Grown
  <2>3. QED
    BY <2>1, <2>2 DEF SaysWhat
<1>4. CASE ~Unchanged(known, m)
  <2>1. \A k \in Previous(known, m) : k.at < at
    BY <1>4 DEF Acceptable
  <2>2. \A q \in of : q.at < at
    <3>1. CASE of = {}
      BY <3>1
    <3>2. CASE of # {}
      <4>1. PICK times : times = {k.at : k \in of}
        OBVIOUS
      <4>2. times \subseteq Time /\ times # {}
        BY <1>2, <3>2, <4>1 DEF PostKey
      <4>3. PICK x \in times : \A y \in times : y <= x
        <5>1. times \subseteq Nat /\ MaxTime \in Nat /\ \A y \in times : y <= MaxTime
          BY <4>2, SessionsAssumption DEF Time
        <5>2. QED
          BY <4>2, <5>1, GreatestNatural
      <4>4. PICK k \in of : k.at = x
        BY <4>1, <4>3
      <4>5. \A q \in of : q.at <= k.at
        BY <4>1, <4>3, <4>4
      <4>6. k.at < at
        BY <1>1, <2>1, <4>5
      <4>7. ASSUME NEW q \in of PROVE q.at < at
        <5>1. q.at \in Int /\ k.at \in Int /\ at \in Int
          BY <1>2, SessionsAssumption DEF PostKey, Time
        <5>2. QED
          BY <4>5, <4>6, <5>1
      <4>8. QED
        BY <4>7
    <3>3. QED
      BY <3>1, <3>2
  <2>3. PICK p : p = PostOf(known, m, at)
    OBVIOUS
  <2>4. /\ p.key.id = m.id /\ p.key.at = at /\ p.key.deleted = m.gone
        /\ ~m.gone => p.key.text = m.text
    BY <2>3 DEF PostOf
  <2>5. {q \in Grown(known, m, at) : q.key.id = m.id} = {q \in known : q.key.id = m.id} \cup {p}
    BY <1>4, <2>3, <2>4 DEF Grown
  <2>6. {q.key : q \in {r \in Grown(known, m, at) : r.key.id = m.id}} = of \cup {p.key}
    BY <2>5
  <2>7. \A q \in of \cup {p.key} : q.at <= p.key.at
    <3>1. \A q \in of : q.at \in Int
      BY <1>2, SessionsAssumption DEF PostKey, Time
    <3>2. at \in Int
      BY SessionsAssumption DEF Time
    <3> HIDE DEF of
    <3>3. QED
      BY <2>2, <2>4, <3>1, <3>2
  <2>8. m.gone \/ p.key.text = m.text
    BY <2>4 DEF Message
  <2> HIDE DEF of
  <2>9. QED
    BY <2>4, <2>6, <2>7, <2>8 DEF SaysWhat
<1>5. QED
  BY <1>3, <1>4

\* Later messages of a batch are others, and leave what was said of one as it is.
LEMMA BatchIsSaid ==
    ASSUME posts \subseteq Post, NEW at \in Time, NEW batch \in Seq(Message), OnceEach(batch),
           NEW u, Growth(u, Len(batch), batch, at),
           \A k \in DOMAIN batch : Acceptable(u[k - 1], batch[k], at)
    PROVE  \A i \in DOMAIN batch : SaysWhat(batch[i], u[Len(batch)])
<1> DEFINE good(k) == \A i \in 1..k : SaysWhat(batch[i], u[k])
           bad == {k \in 0..Len(batch) : ~good(k)}
<1>1. Len(batch) \in Nat /\ DOMAIN batch = 1..Len(batch) /\ \A k \in 1..Len(batch) : batch[k] \in Message
  OBVIOUS
<1>2. ASSUME bad # {} PROVE FALSE
  <2>1. PICK m \in bad : \A k \in bad : m <= k
    <3>1. bad \subseteq Nat
      BY <1>1
    <3> HIDE DEF bad
    <3>2. QED
      BY <1>2, <3>1, LeastNatural
  <2>2. m # 0
    <3>1. good(0)
      OBVIOUS
    <3> HIDE DEF good
    <3>2. QED
      BY <2>1, <3>1
  <2>3. m - 1 \in 0..Len(batch) /\ m \in 1..Len(batch)
    BY <1>1, <2>1, <2>2
  <2>4. good(m - 1)
    <3> HIDE DEF good
    <3>1. m - 1 \notin bad
      BY <1>1, <2>1
    <3>2. QED
      BY <2>3, <3>1
  <2>5. u[m] = Grown(u[m - 1], batch[m], at) /\ batch[m] \in Message /\ Acceptable(u[m - 1], batch[m], at)
    BY <1>1, <2>3 DEF Growth
  <2>6. u[m - 1] \subseteq Post
    BY <2>3, GrowthKeeps
  <2>7. SaysWhat(batch[m], u[m])
    BY <2>5, <2>6, AcceptedIsSaid
  <2>8. u[m - 1] \subseteq u[m] /\ \A q \in u[m] \ u[m - 1] : q.key.id = batch[m].id
    BY <2>5 DEF Grown, PostOf
  <2>9. ASSUME NEW i \in 1..(m - 1) PROVE SaysWhat(batch[i], u[m])
    <3>1. i \in DOMAIN batch /\ m \in DOMAIN batch /\ i # m
      BY <1>1, <2>3
    <3>2. batch[i].id # batch[m].id
      BY <3>1 DEF OnceEach
    <3>3. \A q \in u[m] \ u[m - 1] : q.key.id # batch[i].id
      BY <2>8, <3>2
    <3>4. SaysWhat(batch[i], u[m - 1])
      BY <2>4
    <3>5. QED
      BY <2>8, <3>3, <3>4, OnlyItsOwn
  <2>10. good(m)
    <3>1. \A i \in 1..m : i = m \/ i \in 1..(m - 1)
      BY <2>3
    <3>2. QED
      BY <2>7, <2>9, <3>1
  <2> HIDE DEF good
  <2>11. QED
    BY <2>1, <2>10
<1>3. good(Len(batch))
  <2> HIDE DEF good
  <2>1. QED
    BY <1>1, <1>2
<1>4. QED
  BY <1>1, <1>3

\* Once a batch is normalized, the newest post of each of its messages says what the
\* message says (TelegramRunner.run, its duplicates and its revisions).
THEOREM NewestPostStaysCurrent == Spec => NewestPostIsCurrent
<1>1. TelegramInv /\ [Next]_vars =>
        [\A o \in Operators : At(o, "fetched") /\ job'[o].pc = "collected" =>
            \A k \in DOMAIN job[o].batch :
                SaysWhat(job[o].batch[k], posts \cup job'[o].new)]_<<sessionVars, telegramVars>>
  <2> SUFFICES ASSUME TelegramInv, [Next]_vars, NEW o \in Operators, At(o, "fetched"), job'[o].pc = "collected"
               PROVE  \A k \in DOMAIN job[o].batch : SaysWhat(job[o].batch[k], posts \cup job'[o].new)
    OBVIOUS
  <2>1. part = "telegram" /\ SessionsOK
    BY DEF TelegramInv, AllElsewhere, Elsewhere, At
  <2>2. Normalize(o)
    <3>1. ASSUME UNCHANGED job PROVE FALSE
      BY <3>1 DEF At
    <3>2. ASSUME NEW q \in Operators, TelegramNext(q) \/ Finish(q), q # o PROVE FALSE
      <4>1. \E j : Begin(q, j) \/ Learn(q, j)
        BY <3>2 DEF TelegramNext, BeginTelegram, FetchAnswers, RateLimited, FetchFails, Normalize, NormalizeRaises,
           CommitTelegram, CommitRefused, DeriveCandidates, EndTelegram, Finish
      <4>2. job'[o] = job[o]
        BY <2>1, <3>2, <4>1, OneBegins, OneLearns
      <4>3. QED
        BY <4>2 DEF At
    <3>3. ASSUME Finish(o) PROVE FALSE
      BY <2>1, <3>3, OneFinishes DEF Idle
    <3>4. ASSUME TelegramNext(o) PROVE Normalize(o)
      <4>1. ASSUME NormalizeRaises(o) PROVE FALSE
        BY <2>1, <4>1, OneLearns DEF NormalizeRaises
      <4>2. ~(Free(o) /\ BeginTelegram(o))
        BY DEF Free, At, Idle
      <4>3. QED
        BY <3>3, <3>4, <4>1, <4>2 DEF TelegramNext, FetchAnswers, RateLimited, FetchFails, CommitTelegram, CommitRefused,
           DeriveCandidates, EndTelegram, At
    <3>5. QED
      BY <2>1, <3>1, <3>2, <3>3, <3>4, TelegramPart DEF ChannelPosts, ChannelChanges, Dies, Tick, sessionVars
  <2>3. PICK at, batch : /\ at \in Time /\ batch \in Seq(Message) /\ OnceEach(batch)
                         /\ at = job[o].at /\ batch = job[o].batch
    BY <2>1 DEF TelegramInv, TelegramJob, At
  <2>4. PICK known : known = KnownAfter(batch, at)
    OBVIOUS
  <2>5. PICK new, links, owed :
            /\ new = known[Len(batch)] \ posts
            /\ Learn(o, [pc |-> "collected", at |-> at, owed |-> owed, batch |-> batch, new |-> new, edges |-> links])
            /\ \A k \in DOMAIN batch : Acceptable(known[k - 1], batch[k], at)
    BY <2>2, <2>3, <2>4 DEF Normalize
  <2>6. job'[o].new = new
    BY <2>1, <2>5, OneLearns
  <2>7. posts \subseteq Post /\ Growth(known, Len(batch), batch, at) /\ Len(batch) \in Nat
    BY <2>3, <2>4, KnownIsGrowth DEF TelegramInv, TelegramRows, TelegramTypeOK
  <2>8. posts \subseteq known[Len(batch)]
    <3>1. Len(batch) \in 0..Len(batch)
      BY <2>7
    <3>2. QED
      BY <2>3, <2>7, <3>1, GrowthKeeps
  <2>9. posts \cup job'[o].new = known[Len(batch)]
    BY <2>5, <2>6, <2>8
  <2>10. \A i \in DOMAIN batch : SaysWhat(batch[i], known[Len(batch)])
    BY <2>3, <2>5, <2>7, BatchIsSaid
  <2>11. QED
    BY <2>3, <2>9, <2>10
<1>2. QED
  BY <1>1, TelegramInductive, PTL DEF Spec, NewestPostIsCurrent

-----------------------------------------------------------------------------
(* Relationships, and the neighbourhoods that traces reach.                *)

GraphJob(j) ==
    /\ j.pc = "relation_insert" => j.row \in Relation
    /\ j.pc = "seed_insert" => DOMAIN j.rows \subseteq Entities /\ \A e \in DOMAIN j.rows : j.rows[e] = SeedTime

GraphInv ==
    /\ part = "knowledge" => SessionsOK /\ \A o \in Operators : GraphJob(job[o])
    /\ GraphTypeOK

LEMMA GraphPart ==
    ASSUME [Next]_vars
    PROVE  /\ part' = part
           /\ part # "knowledge" => UNCHANGED graphVars
           /\ part = "knowledge" =>
                 \/ \E o \in Operators : GraphNext(o)
                 \/ (\E o \in Operators : Dies(o)) /\ UNCHANGED graphVars
                 \/ Tick /\ UNCHANGED graphVars
                 \/ UNCHANGED <<sessionVars, graphVars>>
BY DEF Next, vars, Telegram, Collects, Interprets, Arrival, Outside, collectedVars, interpretedVars

LEMMA IdleGraphJob == GraphJob(Idle)
BY DEF GraphJob, Idle

LEMMA GraphStep ==
    ASSUME GraphInv, part = "knowledge", part' = part, SessionsOK', GraphTypeOK',
           NEW o \in Operators, NEW j, GraphJob(j), job'[o] = j,
           \A q \in Operators : q # o => job'[q] = job[q]
    PROVE  GraphInv'
<1>1. \A q \in Operators : GraphJob(job'[q])
  BY DEF GraphInv
<1>2. \A k : GraphJob(k) => GraphJob(k)'
  BY DEF GraphJob
<1>3. QED
  BY <1>1, <1>2 DEF GraphInv, GraphJob

LEMMA VersionsAreFinite ==
    ASSUME relations \subseteq Relation, NEW pair
    PROVE  Cardinality(VersionsOf(pair)) \in Nat
<1>1. VersionsOf(pair) \subseteq 1..MaxVersions
  BY DEF VersionsOf, Relation
<1>2. IsFiniteSet(1..MaxVersions)
  BY GraphAssumption, FS_Interval
<1>3. QED
  BY <1>1, <1>2, FS_Subset, FS_CardinalityType

LEMMA GraphNextKeeps ==
    ASSUME GraphInv, part = "knowledge", part' = part, NEW o \in Operators, GraphNext(o)
    PROVE  GraphInv'
<1>0. SessionsOK /\ GraphTypeOK /\ GraphJob(job[o])
  BY DEF GraphInv
<1>1. CASE BeginSeed(o)
  <2>1. PICK rows : rows = [e \in Entities \ DOMAIN entities |-> SeedTime]
    OBVIOUS
  <2>2. PICK j : j = [pc |-> "seed_insert", rows |-> rows]
    OBVIOUS
  <2>3. GraphJob(j)
    BY <2>1, <2>2 DEF GraphJob
  <2>4. Begin(o, j) /\ GraphTypeOK'
    BY <1>0, <1>1, <2>1, <2>2 DEF BeginSeed, graphVars, GraphTypeOK
  <2>5. QED
    BY <1>0, <2>3, <2>4, OneBegins, GraphStep
<1>2. CASE BeginRelation(o)
  <2>1. PICK pair \in Pair, valid \in Interval, at \in 0..now, active \in BOOLEAN :
            /\ NextVersion(pair) <= MaxVersions
            /\ Begin(o, [pc |-> "relation_insert",
                         row |-> [pair |-> pair, valid |-> valid, at |-> at,
                                  active |-> active, version |-> NextVersion(pair)]])
            /\ UNCHANGED graphVars
    BY <1>2 DEF BeginRelation
  <2>2. PICK row : row = [pair |-> pair, valid |-> valid, at |-> at, active |-> active, version |-> NextVersion(pair)]
    OBVIOUS
  <2>3. NextVersion(pair) \in 1..MaxVersions
    BY <1>0, <2>1, GraphAssumption, VersionsAreFinite DEF NextVersion, GraphTypeOK
  <2>4. at \in Time
    BY <1>0, <2>1, SessionsAssumption DEF SessionsOK, Time
  <2>5. row \in Relation
    BY <2>2, <2>3, <2>4 DEF Relation
  <2>6. PICK j : j = [pc |-> "relation_insert", row |-> row]
    OBVIOUS
  <2>7. GraphJob(j)
    BY <2>5, <2>6 DEF GraphJob
  <2>8. Begin(o, j) /\ GraphTypeOK'
    BY <1>0, <2>1, <2>2, <2>6 DEF graphVars, GraphTypeOK
  <2>9. QED
    BY <1>0, <2>7, <2>8, OneBegins, GraphStep
<1>3. CASE CommitSeed(o)
  <2>1. PICK rows : rows = job[o].rows /\ DOMAIN rows \subseteq Entities /\ \A e \in DOMAIN rows : rows[e] = 0
    BY <1>0, <1>3 DEF CommitSeed, At, GraphJob, SeedTime
  <2>2. Finish(o) /\ relations' = relations
        /\ entities' = IF DOMAIN rows \cap DOMAIN entities # {} THEN entities
                       ELSE [e \in DOMAIN entities \cup DOMAIN rows |->
                                IF e \in DOMAIN entities THEN entities[e] ELSE rows[e]]
    BY <1>3, <2>1 DEF CommitSeed
  <2>3. 0 \in Time
    BY SessionsAssumption DEF Time
  <2>4. GraphTypeOK'
    <3>1. CASE DOMAIN rows \cap DOMAIN entities # {}
      BY <1>0, <2>2, <3>1 DEF GraphTypeOK
    <3>2. CASE DOMAIN rows \cap DOMAIN entities = {}
      <4>1. /\ DOMAIN entities' = DOMAIN entities \cup DOMAIN rows
            /\ \A e \in DOMAIN entities' : entities'[e] = IF e \in DOMAIN entities THEN entities[e] ELSE rows[e]
        BY <2>2, <3>2
      <4>2. QED
        BY <1>0, <2>1, <2>2, <2>3, <4>1 DEF GraphTypeOK
    <3>3. QED
      BY <3>1, <3>2
  <2>5. QED
    BY <1>0, <2>2, <2>4, OneFinishes, IdleGraphJob, GraphStep
<1>4. CASE CommitRelation(o)
  <2>1. job[o].row \in Relation
    BY <1>0, <1>4 DEF CommitRelation, At, GraphJob
  <2>2. GraphTypeOK' /\ Finish(o)
    BY <1>0, <1>4, <2>1 DEF CommitRelation, GraphTypeOK
  <2>3. QED
    BY <1>0, <2>2, OneFinishes, IdleGraphJob, GraphStep
<1>5. QED
  BY <1>1, <1>2, <1>3, <1>4 DEF GraphNext

LEMMA GraphStarts == Init => GraphInv
BY DeskStarts, IdleGraphJob DEF Init, GraphInit, GraphTypeOK, GraphInv

LEMMA GraphKept == GraphInv /\ [Next]_vars => GraphInv'
<1> SUFFICES ASSUME GraphInv, [Next]_vars PROVE GraphInv'
  OBVIOUS
<1>1. part' = part
  BY GraphPart
<1>2. ASSUME UNCHANGED graphVars PROVE GraphTypeOK'
  BY <1>2 DEF GraphInv, GraphTypeOK, graphVars
<1>3. CASE part # "knowledge"
  BY <1>1, <1>2, <1>3, GraphPart DEF GraphInv
<1>4. CASE part = "knowledge"
  <2>1. ASSUME NEW o \in Operators, Dies(o), UNCHANGED graphVars PROVE GraphInv'
    BY <1>1, <1>2, <1>4, <2>1, OneFinishes, IdleGraphJob, GraphStep DEF Dies, GraphInv
  <2>2. ASSUME Tick \/ UNCHANGED sessionVars, UNCHANGED graphVars PROVE GraphInv'
    <3>1. SessionsOK' /\ job' = job
      BY <1>4, <2>2, ClockTicks, NothingHappens DEF GraphInv
    <3>2. QED
      BY <1>1, <1>2, <1>4, <2>2, <3>1 DEF GraphInv, GraphJob
  <2>3. QED
    BY <1>1, <1>4, <2>1, <2>2, GraphNextKeeps, GraphPart
<1>5. QED
  BY <1>3, <1>4

THEOREM GraphInductive == Spec => []GraphInv
BY GraphStarts, GraphKept, PTL DEF Spec

\* Entities and relationships are of their types, whoever comes first with a version.
THEOREM GraphTypes == Spec => []GraphTypeOK
<1>1. GraphInv => GraphTypeOK
  BY DEF GraphInv
<1>2. QED
  BY <1>1, GraphInductive, PTL

-----------------------------------------------------------------------------
(* A trace goes in rounds: what each adds, and what is reached by then.    *)

\* The rounds of a trace, and of what is reached, from the entities that are there.
TraceRounds(u, n, there, cutoff) ==
    /\ u = [k \in 0..n |-> u[k]]
    /\ u[0] = [frontier |-> {[node |-> e, nodes |-> {e}, took |-> << >>] : e \in there}, paths |-> {}]
    /\ \A k \in 1..n : u[k] = [frontier |-> Steps(u[k - 1].frontier, cutoff),
                               paths |-> u[k - 1].paths \cup Steps(u[k - 1].frontier, cutoff)]
Wider(known, cutoff) == known \cup {e \in Entities : \E s \in known : <<s, e>> \in Adjacent(cutoff)}
ReachRounds(w, n, there, cutoff) ==
    /\ w = [k \in 0..n |-> w[k]] /\ w[0] = there
    /\ \A k \in 1..n : w[k] = Wider(w[k - 1], cutoff)

LEMMA TraceRoundsGoOn ==
    ASSUME NEW there, NEW cutoff, NEW n \in 0..MaxDepth
    PROVE  \E u : TraceRounds(u, n, there, cutoff)
<1> DEFINE bad == {m \in 0..MaxDepth : ~ \E u : TraceRounds(u, m, there, cutoff)}
<1>0. MaxDepth \in Nat
  BY GraphAssumption
<1>1. ASSUME bad # {} PROVE FALSE
  <2>1. PICK m \in bad : \A k \in bad : m <= k
    <3>1. bad \subseteq Nat
      BY <1>0
    <3> HIDE DEF bad
    <3>2. QED
      BY <1>1, <3>1, LeastNatural
  <2>2. CASE m = 0
    <3>1. PICK first : first = [frontier |-> {[node |-> e, nodes |-> {e}, took |-> << >>] : e \in there}, paths |-> {}]
      OBVIOUS
    <3>2. TraceRounds([k \in 0..0 |-> first], 0, there, cutoff)
      BY <3>1 DEF TraceRounds
    <3>3. QED
      BY <2>1, <2>2, <3>2
  <2>3. CASE m # 0
    <3>1. m - 1 \in 0..MaxDepth /\ m \in 1..MaxDepth /\ m - 1 \notin bad
      BY <1>0, <2>1, <2>3
    <3>2. PICK u : TraceRounds(u, m - 1, there, cutoff)
      BY <3>1
    <3>3. PICK last : last = [frontier |-> Steps(u[m - 1].frontier, cutoff),
                              paths |-> u[m - 1].paths \cup Steps(u[m - 1].frontier, cutoff)]
      OBVIOUS
    <3>4. PICK v : v = [k \in 0..m |-> IF k = m THEN last ELSE u[k]]
      OBVIOUS
    <3>5. v = [k \in 0..m |-> v[k]] /\ v[0] = u[0]
      BY <2>3, <3>1, <3>4
    <3>6. ASSUME NEW k \in 1..m
          PROVE  v[k] = [frontier |-> Steps(v[k - 1].frontier, cutoff),
                         paths |-> v[k - 1].paths \cup Steps(v[k - 1].frontier, cutoff)]
      <4>1. k \in 0..m /\ k - 1 \in 0..m /\ k - 1 # m
        BY <3>1
      <4>2. v[k - 1] = u[k - 1]
        BY <3>4, <4>1
      <4>3. CASE k = m
        BY <3>3, <3>4, <4>1, <4>2, <4>3
      <4>4. CASE k # m
        <5>1. k \in 1..(m - 1) /\ v[k] = u[k]
          BY <3>1, <3>4, <4>1, <4>4
        <5>2. QED
          BY <3>2, <4>2, <5>1 DEF TraceRounds
      <4>5. QED
        BY <4>3, <4>4
    <3>7. TraceRounds(v, m, there, cutoff)
      BY <3>2, <3>5, <3>6 DEF TraceRounds
    <3>8. QED
      BY <2>1, <3>7
  <2>4. QED
    BY <2>2, <2>3
<1>2. QED
  BY <1>1

LEMMA ReachRoundsGoOn ==
    ASSUME NEW there, NEW cutoff, NEW n \in 0..MaxDepth
    PROVE  \E w : ReachRounds(w, n, there, cutoff)
<1> DEFINE bad == {m \in 0..MaxDepth : ~ \E w : ReachRounds(w, m, there, cutoff)}
<1>0. MaxDepth \in Nat
  BY GraphAssumption
<1>1. ASSUME bad # {} PROVE FALSE
  <2>1. PICK m \in bad : \A k \in bad : m <= k
    <3>1. bad \subseteq Nat
      BY <1>0
    <3> HIDE DEF bad
    <3>2. QED
      BY <1>1, <3>1, LeastNatural
  <2>2. CASE m = 0
    <3>1. ReachRounds([k \in 0..0 |-> there], 0, there, cutoff)
      BY DEF ReachRounds
    <3>2. QED
      BY <2>1, <2>2, <3>1
  <2>3. CASE m # 0
    <3>1. m - 1 \in 0..MaxDepth /\ m \in 1..MaxDepth /\ m - 1 \notin bad
      BY <1>0, <2>1, <2>3
    <3>2. PICK w : ReachRounds(w, m - 1, there, cutoff)
      BY <3>1
    <3>3. PICK last : last = Wider(w[m - 1], cutoff)
      OBVIOUS
    <3>4. PICK v : v = [k \in 0..m |-> IF k = m THEN last ELSE w[k]]
      OBVIOUS
    <3>5. v = [k \in 0..m |-> v[k]] /\ v[0] = w[0]
      BY <2>3, <3>1, <3>4
    <3>6. ASSUME NEW k \in 1..m PROVE v[k] = Wider(v[k - 1], cutoff)
      <4>1. k \in 0..m /\ k - 1 \in 0..m /\ k - 1 # m
        BY <3>1
      <4>2. v[k - 1] = w[k - 1]
        BY <3>4, <4>1
      <4>3. CASE k = m
        BY <3>3, <3>4, <4>1, <4>2, <4>3
      <4>4. CASE k # m
        <5>1. k \in 1..(m - 1) /\ v[k] = w[k]
          BY <3>1, <3>4, <4>1, <4>4
        <5>2. QED
          BY <3>2, <4>2, <5>1 DEF ReachRounds
      <4>5. QED
        BY <4>3, <4>4
    <3>7. ReachRounds(v, m, there, cutoff)
      BY <3>2, <3>5, <3>6 DEF ReachRounds
    <3>8. QED
      BY <2>1, <3>7
  <2>4. QED
    BY <2>2, <2>3
<1>2. QED
  BY <1>1

\* The functions that Trace and Reach define by recursion go in these rounds.
LEMMA TraceGoesInRounds ==
    ASSUME NEW starts, NEW cutoff, NEW there,
           there = {s \in starts \cap DOMAIN entities : entities[s] <= cutoff}
    PROVE  \E u : TraceRounds(u, MaxDepth, there, cutoff) /\ Trace(starts, cutoff) = u[MaxDepth].paths
<1> DEFINE next(f, k) ==
               IF k = 0
               THEN [frontier |-> {[node |-> e, nodes |-> {e}, took |-> << >>] : e \in there}, paths |-> {}]
               ELSE LET wave == Steps(f[k - 1].frontier, cutoff)
                    IN  [frontier |-> wave, paths |-> f[k - 1].paths \cup wave]
           round == CHOOSE f : f = [k \in 0..MaxDepth |-> next(f, k)]
<1>0. MaxDepth \in Nat
  BY GraphAssumption
<1>1. PICK u : TraceRounds(u, MaxDepth, there, cutoff)
  <2>1. MaxDepth \in 0..MaxDepth
    BY <1>0
  <2>2. QED
    BY <2>1, TraceRoundsGoOn
<1>2. \A k \in 0..MaxDepth : u[k] = next(u, k)
  <2> TAKE k \in 0..MaxDepth
  <2>1. CASE k = 0
    BY <1>1, <2>1 DEF TraceRounds
  <2>2. CASE k # 0
    <3>1. k \in 1..MaxDepth
      BY <1>0, <2>2
    <3>2. QED
      BY <1>1, <2>2, <3>1, Zenon DEF TraceRounds
  <2>3. QED
    BY <2>1, <2>2
<1>3. u = [k \in 0..MaxDepth |-> next(u, k)]
  <2> HIDE DEF next
  <2>1. QED
    BY <1>1, <1>2 DEF TraceRounds
<1>4. round = [k \in 0..MaxDepth |-> next(round, k)]
  <2> HIDE DEF next
  <2>1. QED
    BY <1>3
<1>5. Trace(starts, cutoff) = round[MaxDepth].paths
  BY Zenon DEF Trace
<1> HIDE DEF round
<1>6. \A k \in 0..MaxDepth : round[k] = next(round, k)
  <2> HIDE DEF next
  <2>1. QED
    BY <1>4
<1>7. round[0] = [frontier |-> {[node |-> e, nodes |-> {e}, took |-> << >>] : e \in there}, paths |-> {}]
  <2>1. 0 \in 0..MaxDepth
    BY <1>0
  <2>2. QED
    BY <1>6, <2>1, Zenon
<1>8. ASSUME NEW k \in 1..MaxDepth
      PROVE  round[k] = [frontier |-> Steps(round[k - 1].frontier, cutoff),
                         paths |-> round[k - 1].paths \cup Steps(round[k - 1].frontier, cutoff)]
  <2>1. k \in 0..MaxDepth /\ k # 0
    OBVIOUS
  <2>2. QED
    BY <1>6, <2>1, Zenon
<1>9. TraceRounds(round, MaxDepth, there, cutoff)
  <2> HIDE DEF next
  <2>1. round = [k \in 0..MaxDepth |-> round[k]]
    BY <1>4
  <2>2. QED
    BY <1>7, <1>8, <2>1, Zenon DEF TraceRounds
<1>10. QED
  BY <1>5, <1>9

LEMMA ReachGoesInRounds ==
    ASSUME NEW starts, NEW cutoff, NEW there,
           there = {s \in starts \cap DOMAIN entities : entities[s] <= cutoff}
    PROVE  \E w : ReachRounds(w, MaxDepth, there, cutoff) /\ Reach(starts, cutoff) = w[MaxDepth]
<1> DEFINE next(f, k) ==
               IF k = 0 THEN there
               ELSE f[k - 1] \cup {e \in Entities : \E s \in f[k - 1] : <<s, e>> \in Adjacent(cutoff)}
           wider == CHOOSE f : f = [k \in 0..MaxDepth |-> next(f, k)]
<1>0. MaxDepth \in Nat
  BY GraphAssumption
<1>1. PICK w : ReachRounds(w, MaxDepth, there, cutoff)
  <2>1. MaxDepth \in 0..MaxDepth
    BY <1>0
  <2>2. QED
    BY <2>1, ReachRoundsGoOn
<1>2. \A k \in 0..MaxDepth : w[k] = next(w, k)
  <2> TAKE k \in 0..MaxDepth
  <2>1. CASE k = 0
    BY <1>1, <2>1 DEF ReachRounds
  <2>2. CASE k # 0
    <3>1. k \in 1..MaxDepth
      BY <1>0, <2>2
    <3>2. QED
      BY <1>1, <2>2, <3>1, Zenon DEF ReachRounds, Wider
  <2>3. QED
    BY <2>1, <2>2
<1>3. w = [k \in 0..MaxDepth |-> next(w, k)]
  <2> HIDE DEF next
  <2>1. QED
    BY <1>1, <1>2 DEF ReachRounds
<1>4. wider = [k \in 0..MaxDepth |-> next(wider, k)]
  <2> HIDE DEF next
  <2>1. QED
    BY <1>3
<1>5. Reach(starts, cutoff) = wider[MaxDepth]
  BY Zenon DEF Reach
<1> HIDE DEF wider
<1>6. \A k \in 0..MaxDepth : wider[k] = next(wider, k)
  <2> HIDE DEF next
  <2>1. QED
    BY <1>4
<1>7. wider[0] = there
  <2>1. 0 \in 0..MaxDepth
    BY <1>0
  <2>2. QED
    BY <1>6, <2>1, Zenon
<1>8. ASSUME NEW k \in 1..MaxDepth PROVE wider[k] = Wider(wider[k - 1], cutoff)
  <2>1. k \in 0..MaxDepth /\ k # 0
    OBVIOUS
  <2>2. QED
    BY <1>6, <2>1, Zenon DEF Wider
<1>9. ReachRounds(wider, MaxDepth, there, cutoff)
  <2> HIDE DEF next
  <2>1. wider = [k \in 0..MaxDepth |-> wider[k]]
    BY <1>4
  <2>2. QED
    BY <1>7, <1>8, <2>1, Zenon DEF ReachRounds
<1>10. QED
  BY <1>5, <1>9

Relates(r, s, e) == {r.pair[1], r.pair[2]} = {s, e}

\* The last version that counts relates what no later one hides.
LEMMA AdjacentByCurrent ==
    ASSUME relations \subseteq Relation, NEW cutoff \in Nat, NEW s \in Entities, NEW e \in Entities
    PROVE  <<s, e>> \in Adjacent(cutoff) <=> \E r \in Current(cutoff) : Relates(r, s, e)
<1>1. \A r \in relations : r.valid[1] \in Int /\ r.valid[2] \in Int /\ r.version \in Int
  <2> TAKE r \in relations
  <2>1. r.valid \in Interval /\ r.version \in 1..MaxVersions
    BY DEF Relation
  <2>2. r.valid \in (0..LastDate) \X (1..Never)
    BY <2>1 DEF Interval
  <2>3. QED
    BY <2>1, <2>2
<1>2. \A r \in relations : r \in Visible(cutoff) <=> r.at <= cutoff /\ cutoff \in r.valid[1]..(r.valid[2] - 1)
  BY <1>1 DEF Visible
<1>3. Visible(cutoff) \subseteq relations
  BY DEF Visible
<1>4. \A r \in relations : r \in Current(cutoff) <=>
          /\ r.active /\ r.at <= cutoff /\ cutoff \in r.valid[1]..(r.valid[2] - 1)
          /\ ~\E q \in relations :
                /\ q.pair = r.pair /\ q.version > r.version
                /\ q.at <= cutoff /\ cutoff \in q.valid[1]..(q.valid[2] - 1)
  <2> TAKE r \in relations
  <2>1. r \in Current(cutoff) <=>
           /\ r \in Visible(cutoff) /\ r.active
           /\ \A q \in Visible(cutoff) : q.pair = r.pair => q.version <= r.version
    BY DEF Current
  <2>2. \A q \in relations : q.version <= r.version <=> ~(q.version > r.version)
    BY <1>1
  <2>3. QED
    BY <1>2, <1>3, <2>1, <2>2
<1>5. Current(cutoff) \subseteq relations
  BY <1>3 DEF Current
<1>6. <<s, e>> \in Adjacent(cutoff) <=>
         \E r \in relations :
            /\ {r.pair[1], r.pair[2]} = {s, e}
            /\ r.active /\ r.at <= cutoff /\ cutoff \in r.valid[1]..(r.valid[2] - 1)
            /\ ~\E q \in relations :
                  /\ q.pair = r.pair /\ q.version > r.version
                  /\ q.at <= cutoff /\ cutoff \in q.valid[1]..(q.valid[2] - 1)
  BY DEF Adjacent
<1>7. QED
  BY <1>4, <1>5, <1>6 DEF Relates

\* A path takes one relationship to each entity after its first.
PathIn(p, known) ==
    /\ p.node \in p.nodes /\ p.nodes \subseteq known /\ IsFiniteSet(p.nodes)
    /\ p.took \in Seq(Relation) /\ Cardinality(p.nodes) = Len(p.took) + 1

LEMMA PathGoesOn ==
    ASSUME relations \subseteq Relation, NEW cutoff \in Nat, NEW known, known \subseteq Entities,
           NEW p, PathIn(p, known), NEW r \in Current(cutoff), p.node \in {r.pair[1], r.pair[2]},
           {r.pair[1], r.pair[2]} \cap p.nodes = {p.node}
    PROVE  PathIn(Step(p, r), Wider(known, cutoff))
<1>1. PICK to : to = IF r.pair[1] = p.node THEN r.pair[2] ELSE r.pair[1]
  OBVIOUS
<1>2. Step(p, r) = [node |-> to, nodes |-> p.nodes \cup {to}, took |-> Append(p.took, r)]
  BY <1>1 DEF Step
<1>3. r \in Relation
  BY DEF Current, Visible
<1>4. r.pair[1] \in Entities /\ r.pair[2] \in Entities /\ r.pair[1] # r.pair[2]
  <2>1. r.pair \in Pair
    BY <1>3 DEF Relation
  <2>2. QED
    BY <2>1 DEF Pair
<1>5. to \in Entities /\ to # p.node /\ {r.pair[1], r.pair[2]} = {p.node, to}
  BY <1>1, <1>4
<1>6. to \notin p.nodes
  BY <1>5
<1>7. p.node \in known /\ p.node \in Entities
  BY DEF PathIn
<1>8. <<p.node, to>> \in Adjacent(cutoff)
  BY <1>5, <1>7, AdjacentByCurrent DEF Relates
<1>9. p.nodes \cup {to} \subseteq Wider(known, cutoff)
  BY <1>5, <1>7, <1>8 DEF Wider, PathIn
<1>10. IsFiniteSet(p.nodes \cup {to}) /\ Cardinality(p.nodes \cup {to}) = Cardinality(p.nodes) + 1
  BY <1>6, FS_AddElement DEF PathIn
<1>11. Append(p.took, r) \in Seq(Relation) /\ Len(Append(p.took, r)) = Len(p.took) + 1
  BY <1>3 DEF PathIn
<1>12. PICK q : q = Step(p, r)
  OBVIOUS
<1>13. q.node = to /\ q.nodes = p.nodes \cup {to} /\ q.took = Append(p.took, r)
  BY <1>2, <1>12
<1>14. Cardinality(q.nodes) = Len(q.took) + 1
  BY <1>10, <1>11, <1>13 DEF PathIn
<1>15. PathIn(q, Wider(known, cutoff))
  BY <1>9, <1>10, <1>11, <1>13, <1>14 DEF PathIn
<1>16. QED
  BY <1>12, <1>15

\* What a round reaches first is the end of a path of its frontier.
LEMMA FrontierAdvances ==
    ASSUME relations \subseteq Relation, NEW cutoff \in Nat, NEW known, known \subseteq Entities,
           NEW frontier, NEW p \in frontier, PathIn(p, known),
           NEW e \in Entities \ known, <<p.node, e>> \in Adjacent(cutoff)
    PROVE  \E q \in Steps(frontier, cutoff) : q.node = e
<1>1. p.node \in Entities /\ p.node # e /\ p.node \in known
  BY DEF PathIn
<1>2. PICK r \in Current(cutoff) : {r.pair[1], r.pair[2]} = {p.node, e}
  <2>1. PICK s \in Entities : s = p.node
    BY <1>1
  <2>2. <<s, e>> \in Adjacent(cutoff) /\ e \in Entities
    BY <2>1
  <2>3. \E r \in Current(cutoff) : Relates(r, s, e)
    BY <2>2, AdjacentByCurrent
  <2>4. QED
    BY <2>1, <2>3 DEF Relates
<1>3. {r.pair[1], r.pair[2]} \cap p.nodes = {p.node}
  BY <1>2 DEF PathIn
<1>4. Step(p, r).node = e
  BY <1>1, <1>2 DEF Step
<1>5. PICK q : q = Step(p, r)
  OBVIOUS
<1>6. q \in Steps(frontier, cutoff)
  <2>1. p.node \in {r.pair[1], r.pair[2]}
    BY <1>2
  <2>2. QED
    BY <1>3, <1>5, <2>1 DEF Steps
<1>7. QED
  BY <1>4, <1>5, <1>6

\* After a round: every path is one, what is reached was there or is the end of one, and all of it that no
\* round before reached is at an end of the frontier.
RoundOf(frontier, led, there, before, known) ==
    /\ \A p \in frontier \cup led : PathIn(p, known)
    /\ \A e \in known : e \in there \/ \E p \in led : p.node = e
    /\ \A e \in known \ before : \E p \in frontier : p.node = e

LEMMA RoundFollows ==
    ASSUME relations \subseteq Relation, NEW cutoff \in Nat, NEW known, known \subseteq Entities,
           NEW frontier, NEW led, NEW there, NEW before, RoundOf(frontier, led, there, before, known),
           \A s \in before, e \in Entities : <<s, e>> \in Adjacent(cutoff) => e \in known
    PROVE  LET wave == Steps(frontier, cutoff)
           IN  RoundOf(wave, led \cup wave, there, known, Wider(known, cutoff))
<1> DEFINE wave == Steps(frontier, cutoff)
<1>1. known \subseteq Wider(known, cutoff)
  BY DEF Wider
<1>2. \A q \in wave : PathIn(q, Wider(known, cutoff))
  <2> TAKE q \in wave
  <2>1. PICK p \in frontier, r \in Current(cutoff) :
            /\ q = Step(p, r) /\ p.node \in {r.pair[1], r.pair[2]}
            /\ {r.pair[1], r.pair[2]} \cap p.nodes = {p.node}
    BY DEF Steps
  <2>2. PathIn(p, known)
    BY DEF RoundOf
  <2>3. QED
    BY <2>1, <2>2, PathGoesOn
<1>3. \A p \in led : PathIn(p, Wider(known, cutoff))
  BY <1>1 DEF RoundOf, PathIn
<1>4. \A e \in Wider(known, cutoff) \ known : \E q \in wave : q.node = e
  <2> TAKE e \in Wider(known, cutoff) \ known
  <2>1. e \in Entities \ known
    BY DEF Wider
  <2>2. PICK s \in known : <<s, e>> \in Adjacent(cutoff)
    BY DEF Wider
  <2>3. s \notin before
    BY <2>1, <2>2
  <2>4. PICK p \in frontier : p.node = s
    BY <2>2, <2>3 DEF RoundOf
  <2>5. PathIn(p, known)
    BY DEF RoundOf
  <2>6. <<p.node, e>> \in Adjacent(cutoff)
    BY <2>2, <2>4
  <2>7. QED
    BY <2>1, <2>5, <2>6, FrontierAdvances
<1> HIDE DEF wave
<1>5. \A e \in Wider(known, cutoff) : e \in there \/ \E p \in led \cup wave : p.node = e
  BY <1>4 DEF RoundOf
<1>6. RoundOf(wave, led \cup wave, there, known, Wider(known, cutoff))
  BY <1>2, <1>3, <1>4, <1>5 DEF RoundOf
<1>7. QED
  BY <1>6 DEF wave

LEMMA RoundsGoAlong ==
    ASSUME relations \subseteq Relation, NEW cutoff \in Nat, NEW there, there \subseteq Entities,
           NEW u, TraceRounds(u, MaxDepth, there, cutoff), NEW w, ReachRounds(w, MaxDepth, there, cutoff)
    PROVE  /\ \A p \in u[MaxDepth].paths : PathIn(p, w[MaxDepth])
           /\ \A e \in w[MaxDepth] : e \in there \/ \E p \in u[MaxDepth].paths : p.node = e
           /\ there \subseteq w[MaxDepth]
<1> DEFINE before(k) == IF k = 0 THEN {} ELSE w[k - 1]
           good(k) == /\ there \subseteq w[k] /\ w[k] \subseteq Entities
                      /\ RoundOf(u[k].frontier, u[k].paths, there, before(k), w[k])
                      /\ \A s \in before(k), e \in Entities : <<s, e>> \in Adjacent(cutoff) => e \in w[k]
           bad == {k \in 0..MaxDepth : ~good(k)}
<1>0. MaxDepth \in Nat
  BY GraphAssumption
<1>1. good(0)
  <2>1. u[0].frontier = {[node |-> e, nodes |-> {e}, took |-> << >>] : e \in there} /\ u[0].paths = {} /\ w[0] = there
    <3>1. PICK first : first = {[node |-> e, nodes |-> {e}, took |-> << >>] : e \in there}
      OBVIOUS
    <3>2. u[0] = [frontier |-> first, paths |-> {}]
      BY <3>1 DEF TraceRounds
    <3>3. u[0].frontier = first /\ u[0].paths = {}
      BY <3>2
    <3>4. QED
      BY <3>1, <3>3 DEF ReachRounds
  <2>2. ASSUME NEW e \in there
        PROVE  PathIn([node |-> e, nodes |-> {e}, took |-> << >>], there)
    <3>1. IsFiniteSet({e}) /\ Cardinality({e}) = 1
      BY FS_Singleton
    <3>2. << >> \in Seq(Relation) /\ Len(<< >>) = 0
      OBVIOUS
    <3>3. PICK p : p = [node |-> e, nodes |-> {e}, took |-> << >>]
      OBVIOUS
    <3>4. PathIn(p, there)
      BY <3>1, <3>2, <3>3 DEF PathIn
    <3>5. QED
      BY <3>3, <3>4
  <2>3. \A p \in u[0].frontier : PathIn(p, there)
    BY <2>1, <2>2
  <2>4. \A e \in there : \E p \in u[0].frontier : p.node = e
    <3> TAKE e \in there
    <3>1. PICK p : p = [node |-> e, nodes |-> {e}, took |-> << >>]
      OBVIOUS
    <3>2. p \in u[0].frontier /\ p.node = e
      BY <2>1, <3>1
    <3>3. QED
      BY <3>2
  <2>5. RoundOf(u[0].frontier, u[0].paths, there, {}, w[0])
    BY <2>1, <2>3, <2>4 DEF RoundOf
  <2>6. QED
    BY <2>1, <2>5
<1>2. ASSUME bad # {} PROVE FALSE
  <2>1. PICK m \in bad : \A k \in bad : m <= k
    <3>1. bad \subseteq Nat
      BY <1>0
    <3> HIDE DEF bad
    <3>2. QED
      BY <1>2, <3>1, LeastNatural
  <2>2. m # 0
    <3> HIDE DEF good
    <3>1. QED
      BY <1>1, <2>1
  <2>3. m - 1 \in 0..MaxDepth /\ m \in 1..MaxDepth
    BY <1>0, <2>1, <2>2
  <2>4. good(m - 1)
    <3> HIDE DEF good
    <3>1. m - 1 \notin bad
      BY <1>0, <2>1
    <3>2. QED
      BY <2>3, <3>1
  <2>5. /\ u[m].frontier = Steps(u[m - 1].frontier, cutoff)
        /\ u[m].paths = u[m - 1].paths \cup Steps(u[m - 1].frontier, cutoff)
        /\ w[m] = Wider(w[m - 1], cutoff)
    <3>1. PICK wave, all : wave = Steps(u[m - 1].frontier, cutoff) /\ all = u[m - 1].paths \cup wave
      OBVIOUS
    <3>2. u[m] = [frontier |-> wave, paths |-> all]
      BY <2>3, <3>1 DEF TraceRounds
    <3>3. u[m].frontier = wave /\ u[m].paths = all
      BY <3>2
    <3>4. QED
      BY <2>3, <3>1, <3>3 DEF ReachRounds
  <2>6. before(m) = w[m - 1]
    BY <2>2
  <2>7. RoundOf(u[m].frontier, u[m].paths, there, before(m), w[m])
    <3>1. PICK frontier, led, known, past :
              frontier = u[m - 1].frontier /\ led = u[m - 1].paths /\ known = w[m - 1] /\ past = before(m - 1)
      OBVIOUS
    <3>2. /\ known \subseteq Entities /\ RoundOf(frontier, led, there, past, known)
          /\ \A s \in past, e \in Entities : <<s, e>> \in Adjacent(cutoff) => e \in known
      BY <2>4, <3>1
    <3>3. RoundOf(Steps(frontier, cutoff), led \cup Steps(frontier, cutoff), there, known, Wider(known, cutoff))
      BY <3>2, RoundFollows
    <3>4. QED
      BY <2>5, <2>6, <3>1, <3>3
  <2>8. there \subseteq w[m] /\ w[m] \subseteq Entities
    BY <2>4, <2>5 DEF Wider
  <2>9. \A s \in before(m), e \in Entities : <<s, e>> \in Adjacent(cutoff) => e \in w[m]
    BY <2>5, <2>6 DEF Wider
  <2>10. good(m)
    BY <2>7, <2>8, <2>9
  <2> HIDE DEF good
  <2>11. QED
    BY <2>1, <2>10
<1>3. good(MaxDepth)
  <2> HIDE DEF good
  <2>1. QED
    BY <1>0, <1>2
<1>4. QED
  BY <1>3 DEF RoundOf

\* A trace leads, over relationships that count at the cutoff, to exactly the entities
\* that the event reaches within the depth, and takes one for each step (trace_event).
THEOREM TracesAlwaysReach == Spec => []TracesReachTheirNeighbourhood
<1>1. ASSUME GraphTypeOK PROVE TracesReachTheirNeighbourhood
  <2>1. ASSUME NEW starts \in SUBSET DOMAIN entities, NEW cutoff \in 0..LastDate, NEW there,
               there = {s \in starts \cap DOMAIN entities : entities[s] <= cutoff}
        PROVE  /\ there \cup {p.node : p \in Trace(starts, cutoff)} = Reach(starts, cutoff)
               /\ \A p \in Trace(starts, cutoff) : Cardinality(p.nodes) = Len(p.took) + 1
    <3>1. relations \subseteq Relation /\ there \subseteq Entities /\ cutoff \in Nat
      BY <1>1, <2>1, GraphAssumption DEF GraphTypeOK
    <3>2. PICK u : TraceRounds(u, MaxDepth, there, cutoff) /\ Trace(starts, cutoff) = u[MaxDepth].paths
      BY <2>1, TraceGoesInRounds
    <3>3. PICK w : ReachRounds(w, MaxDepth, there, cutoff) /\ Reach(starts, cutoff) = w[MaxDepth]
      BY <2>1, ReachGoesInRounds
    <3>4. /\ \A p \in u[MaxDepth].paths : PathIn(p, w[MaxDepth])
          /\ \A e \in w[MaxDepth] : e \in there \/ \E p \in u[MaxDepth].paths : p.node = e
          /\ there \subseteq w[MaxDepth]
      BY <3>1, <3>2, <3>3, RoundsGoAlong
    <3>5. \A p \in u[MaxDepth].paths : p.node \in w[MaxDepth] /\ Cardinality(p.nodes) = Len(p.took) + 1
      BY <3>4 DEF PathIn
    <3>6. QED
      BY <3>2, <3>3, <3>4, <3>5
  <2>2. QED
    BY <2>1, Zenon DEF TracesReachTheirNeighbourhood
<1>2. QED
  BY <1>1, GraphTypes, PTL

-----------------------------------------------------------------------------
(* Types of what is fused: a version is no more than the id that came      *)
(* with it, which is no more than the commands there were.                 *)

FusionRow(table, row) ==
    /\ table = "claims" => row \in Claim /\ row.version <= row.id
    /\ table = "lineage" => row \in Lineage
    /\ table = "corroborations" => row \in Corroboration
    /\ table = "resolutions" => row \in Resolution
    /\ table = "disputes" => row \in Dispute
    /\ table = "scores" => row \in Score
    /\ table = "reputations" => row \in Reputation

FusionTyped(j) ==
    /\ j.pc = "fusion_insert" => FusionRow(j.table, j.row)
    /\ j.pc = "fusion_reputation" => j.source \in ClaimSources /\ j.cutoff \in Time /\ j.counted \subseteq ClaimId

FusionTypes ==
    /\ part = "fusion" => \A o \in Operators : FusionTyped(job[o])
    /\ FusionTypeOK /\ IsFiniteSet(corroborations) /\ IsFiniteSet(disputes)
    /\ \A c \in claims : c.version <= c.id

LEMMA FusionTypesStay ==
    ASSUME FusionTypes, UNCHANGED fusionVars
    PROVE  /\ FusionTypeOK' /\ IsFiniteSet(corroborations') /\ IsFiniteSet(disputes')
           /\ \A c \in claims' : c.version <= c.id
BY DEF FusionTypes, FusionTypeOK, fusionVars, leafVars

LEMMA FusionTold ==
    ASSUME FusionTypes, FusionInv, part = "fusion", part' = part, UNCHANGED fusionVars,
           NEW o \in Operators, NEW j, FusionTyped(j), Begin(o, j) \/ Learn(o, j)
    PROVE  FusionTypes'
<1>1. job'[o] = j /\ \A q \in Operators : q # o => job'[q] = job[q]
  BY OneBegins, OneLearns DEF FusionInv
<1>2. \A q \in Operators : FusionTyped(job'[q])
  BY <1>1 DEF FusionTypes
<1>3. QED
  BY <1>2, FusionTypesStay DEF FusionTypes

LEMMA FusionAdds ==
    ASSUME FusionTypes, FusionInv, part = "fusion", part' = part, NEW o \in Operators, NEW table, NEW row,
           FusionRow(table, row), Adds(o, table, row)
    PROVE  FusionTypes'
<1>1. PICK j : j = [pc |-> "fusion_insert", table |-> table, row |-> row]
  OBVIOUS
<1>2. FusionTyped(j)
  BY <1>1 DEF FusionTyped
<1>3. QED
  BY <1>1, <1>2, FusionTold DEF Adds

LEMMA NowPasses ==
    ASSUME SessionsOK, NEW at \in 0..now
    PROVE  at \in Time
BY SessionsAssumption DEF SessionsOK, Time

LEMMA FusionNextTypes ==
    ASSUME FusionTypes, FusionInv, part = "fusion", part' = part, NEW o \in Operators, FusionNext(o)
    PROVE  FusionTypes'
<1>0. /\ SessionsOK /\ started \in Nat /\ now \in Time /\ now \in 0..now
      /\ \A c \in claims : c \in Claim /\ c.id \in ClaimId /\ c.id <= started /\ c.version <= c.id /\ c.version \in Nat
  <2>1. SessionsOK /\ started \in Nat /\ now \in Time /\ now \in 0..now
    BY SessionsAssumption DEF FusionInv, SessionsOK, Time
  <2>2. ASSUME NEW c \in claims
        PROVE  c \in Claim /\ c.id \in ClaimId /\ c.id <= started /\ c.version <= c.id /\ c.version \in Nat
    <3>1. c \in Claim /\ c.id <= started /\ c.version <= c.id
      BY DEF FusionTypes, FusionTypeOK, FusionInv, Numbered, Given
    <3>2. c.id \in ClaimId /\ c.version \in ClaimId
      BY <3>1 DEF Claim
    <3>3. QED
      BY <3>1, <3>2, SessionsAssumption DEF ClaimId
  <2>3. QED
    BY <2>1, <2>2
<1>1. CASE AddClaim(o)
  <2>1. PICK source, factual, at, version, revises, row :
            /\ source \in ClaimSources /\ factual \in BOOLEAN /\ at \in 0..now
            /\ version \in 1..Cardinality(claims) + 1 /\ revises \in {0} \cup {c.id : c \in claims}
            /\ row = [id |-> started + 1, source |-> source, factual |-> factual, at |-> at,
                      version |-> version, revises |-> revises]
            /\ Follows(row, claims) /\ Adds(o, "claims", row)
    BY <1>1 DEF AddClaim, RevisionFollows
  <2>2. started + 1 \in ClaimId /\ started + 1 \in Nat
    BY <1>0, <2>1, SessionsAssumption DEF Adds, Begin, Free, ClaimId
  <2>3. version \in ClaimId /\ version <= started + 1
    <3>1. CASE version = 1
      BY <1>0, <2>2, <3>1, SessionsAssumption DEF ClaimId
    <3>2. CASE version # 1
      <4>1. PICK prior \in claims : version = prior.version + 1
        BY <2>1, <3>2 DEF Follows
      <4>2. prior.version \in Nat /\ prior.version <= started
        BY <1>0, SessionsAssumption DEF ClaimId
      <4>3. QED
        BY <1>0, <2>2, <4>1, <4>2, SessionsAssumption DEF ClaimId
    <3>3. QED
      BY <3>1, <3>2
  <2>4. revises \in {0} \cup ClaimId /\ at \in Time
    BY <1>0, <2>1, NowPasses
  <2>5. row \in Claim /\ row.version <= row.id
    BY <2>1, <2>2, <2>3, <2>4 DEF Claim
  <2>6. FusionRow("claims", row)
    BY <2>5 DEF FusionRow
  <2>7. QED
    BY <2>1, <2>6, FusionAdds
<1>2. CASE AddLineage(o)
  <2>1. PICK from, to, copy, at, row :
            /\ from \in claims /\ to \in claims /\ copy \in BOOLEAN /\ at \in 0..now
            /\ row = [from |-> from.id, to |-> to.id, copy |-> copy, at |-> at] /\ Adds(o, "lineage", row)
    BY <1>2 DEF AddLineage
  <2>2. row \in Lineage
    BY <1>0, <2>1, NowPasses DEF Lineage
  <2>3. FusionRow("lineage", row)
    BY <2>2 DEF FusionRow
  <2>4. QED
    BY <2>1, <2>3, FusionAdds
<1>3. CASE AddCorroboration(o)
  <2>1. PICK claim, source, official, at, class, row :
            /\ claim \in claims /\ source \in ClaimSources /\ official \in BOOLEAN /\ at \in 0..now
            /\ class = ClassOf(claim, source, LineageOf(claim.id, at))
            /\ row = [claim |-> claim.id, source |-> source, official |-> official, at |-> at, class |-> class]
            /\ Adds(o, "corroborations", row)
    BY <1>3 DEF AddCorroboration
  <2>2. class \in Independence
    BY <2>1 DEF ClassOf, Independence
  <2>3. row \in Corroboration
    BY <1>0, <2>1, <2>2, NowPasses DEF Corroboration
  <2>4. FusionRow("corroborations", row)
    BY <2>3 DEF FusionRow
  <2>5. QED
    BY <2>1, <2>4, FusionAdds
<1>4. CASE AddResolution(o)
  <2>1. PICK claim, outcome, alone, at, row :
            /\ claim \in claims /\ outcome \in Outcomes /\ alone \in BOOLEAN /\ at \in 0..now
            /\ row = [claim |-> claim.id, outcome |-> outcome, alone |-> alone, at |-> at]
            /\ Adds(o, "resolutions", row)
    BY <1>4 DEF AddResolution
  <2>2. row \in Resolution
    BY <1>0, <2>1, NowPasses DEF Resolution
  <2>3. FusionRow("resolutions", row)
    BY <2>2 DEF FusionRow
  <2>4. QED
    BY <2>1, <2>3, FusionAdds
<1>5. CASE AddDispute(o)
  <2>1. PICK claim, at, row :
            /\ claim \in claims /\ at \in 0..now
            /\ row = [claim |-> claim.id, at |-> at] /\ Adds(o, "disputes", row)
    BY <1>5 DEF AddDispute
  <2>2. row \in Dispute
    BY <1>0, <2>1, NowPasses DEF Dispute
  <2>3. FusionRow("disputes", row)
    BY <2>2 DEF FusionRow
  <2>4. QED
    BY <2>1, <2>3, FusionAdds
<1>6. CASE AddScore(o)
  <2>1. PICK claim, class, at, independent, burden, row :
            /\ claim \in claims /\ class \in Independence /\ at \in 0..now
            /\ independent = Capped(Cardinality({r \in CorroborationsOf(claim.id, at) : r.class = "independent"}))
            /\ burden = Capped(Cardinality({d \in disputes : d.claim = claim.id}))
            /\ row = [claim |-> claim.id, class |-> class, at |-> at, independent |-> independent, burden |-> burden]
            /\ Adds(o, "scores", row)
    BY <1>6 DEF AddScore
  <2>2. \A n \in Nat : Capped(n) \in 0..3
    BY DEF Capped
  <2>3. Cardinality({r \in CorroborationsOf(claim.id, at) : r.class = "independent"}) \in Nat
    <3>1. {r \in CorroborationsOf(claim.id, at) : r.class = "independent"} \subseteq corroborations
      BY DEF CorroborationsOf
    <3>2. QED
      BY <3>1, FS_Subset, FS_CardinalityType DEF FusionTypes
  <2>4. Cardinality({d \in disputes : d.claim = claim.id}) \in Nat
    <3>1. {d \in disputes : d.claim = claim.id} \subseteq disputes
      OBVIOUS
    <3>2. QED
      BY <3>1, FS_Subset, FS_CardinalityType DEF FusionTypes
  <2>5. independent \in 0..3 /\ burden \in 0..3
    BY <2>1, <2>2, <2>3, <2>4
  <2>6. row \in Score
    BY <1>0, <2>1, <2>5, NowPasses DEF Score
  <2>7. FusionRow("scores", row)
    BY <2>6 DEF FusionRow
  <2>8. QED
    BY <2>1, <2>7, FusionAdds
<1>7. CASE BeginReputation(o)
  <2>1. PICK source, cutoff, counted, j :
            /\ source \in ClaimSources /\ cutoff \in 0..now
            /\ counted = {c.id : c \in {d \in ClaimsVisibleAt(cutoff) :
                              d.source = source /\ cutoff - ReputationWindow <= d.at}}
            /\ j = [pc |-> "fusion_reputation", source |-> source, cutoff |-> cutoff, counted |-> counted]
            /\ Begin(o, j) /\ UNCHANGED fusionVars
    BY <1>7 DEF BeginReputation
  <2>2. counted \subseteq ClaimId
    BY <1>0, <2>1 DEF ClaimsVisibleAt, CurrentAt
  <2>3. FusionTyped(j)
    BY <1>0, <2>1, <2>2, NowPasses DEF FusionTyped
  <2>4. QED
    BY <2>1, <2>3, FusionTold
<1>8. CASE CalculateReputation(o)
  <2>1. PICK source, cutoff, counted :
            /\ source = job[o].source /\ cutoff = job[o].cutoff /\ counted = job[o].counted
            /\ source \in ClaimSources /\ cutoff \in Time /\ counted \subseteq ClaimId
    BY <1>8 DEF CalculateReputation, At, FusionTypes, FusionTyped
  <2>2. PICK confirmed, contradicted, unresolved, copies, row :
            /\ confirmed \subseteq counted /\ contradicted \subseteq counted
            /\ unresolved \subseteq counted /\ copies \subseteq counted
            /\ row = [source |-> source, cutoff |-> cutoff, counted |-> counted, confirmed |-> confirmed,
                      contradicted |-> contradicted, unresolved |-> unresolved, copies |-> copies]
            /\ Learn(o, [pc |-> "fusion_insert", table |-> "reputations", row |-> row])
            /\ UNCHANGED fusionVars
    <3>1. PICK last :
              Learn(o, [pc |-> "fusion_insert", table |-> "reputations",
                        row |-> [source |-> source, cutoff |-> cutoff, counted |-> counted,
                                 confirmed |-> {c \in counted : last[c] = "confirmed"},
                                 contradicted |-> {c \in counted : last[c] = "contradicted"},
                                 unresolved |-> {c \in counted : last[c] = "unresolved"},
                                 copies |-> {c \in counted : \E e \in LineageOf(c, cutoff) :
                                                                 e.copy /\ e.to = c}]])
      BY <1>8, <2>1 DEF CalculateReputation
    <3>2. UNCHANGED fusionVars
      BY <1>8 DEF CalculateReputation
    <3>3. QED
      BY <3>1, <3>2
  <2>3. row \in Reputation
    BY <2>1, <2>2 DEF Reputation
  <2>4. PICK j : j = [pc |-> "fusion_insert", table |-> "reputations", row |-> row]
    OBVIOUS
  <2>5. FusionTyped(j)
    BY <2>3, <2>4 DEF FusionTyped, FusionRow
  <2>6. QED
    BY <2>2, <2>4, <2>5, FusionTold
<1>9. CASE CommitFusion(o)
  <2>1. PICK table, row : table = job[o].table /\ row = job[o].row /\ FusionRow(table, row)
    BY <1>9 DEF CommitFusion, At, FusionTypes, FusionTyped
  <2>2. /\ claims' = IF table = "claims" THEN claims \cup {row} ELSE claims
        /\ lineage' = IF table = "lineage" THEN lineage \cup {row} ELSE lineage
        /\ corroborations' = IF table = "corroborations" THEN corroborations \cup {row} ELSE corroborations
        /\ resolutions' = IF table = "resolutions" THEN resolutions \cup {row} ELSE resolutions
        /\ disputes' = IF table = "disputes" THEN disputes \cup {row} ELSE disputes
        /\ scores' = IF table = "scores" THEN scores \cup {row} ELSE scores
        /\ reputations' = IF table = "reputations" THEN reputations \cup {row} ELSE reputations
        /\ Finish(o)
    BY <1>9, <2>1 DEF CommitFusion, Into
  <2>3. FusionTypeOK' /\ \A c \in claims' : c.version <= c.id
    BY <2>1, <2>2 DEF FusionRow, FusionTypes, FusionTypeOK
  <2>4. IsFiniteSet(corroborations') /\ IsFiniteSet(disputes')
    BY <2>2, FS_AddElement DEF FusionTypes
  <2>5. job'[o] = Idle /\ \A q \in Operators : q # o => job'[q] = job[q]
    BY <1>0, <2>2, OneFinishes
  <2>6. \A q \in Operators : FusionTyped(job'[q])
    BY <2>5 DEF FusionTypes, FusionTyped, Idle
  <2>7. QED
    BY <2>3, <2>4, <2>6 DEF FusionTypes
<1>10. QED
  BY <1>1, <1>2, <1>3, <1>4, <1>5, <1>6, <1>7, <1>8, <1>9 DEF FusionNext

LEMMA FusionTypesStart == Init => FusionTypes
<1> SUFFICES ASSUME Init PROVE FusionTypes
  OBVIOUS
<1>1. FusionInit
  BY DEF Init
<1>2. FusionTyped(Idle)
  BY DEF FusionTyped, Idle
<1>3. QED
  BY <1>1, <1>2, DeskStarts, FS_EmptySet DEF FusionInit, FusionTypes, FusionTypeOK

LEMMA FusionTypesKept == FusionTypes /\ FusionInv /\ [Next]_vars => FusionTypes'
<1> SUFFICES ASSUME FusionTypes, FusionInv, [Next]_vars PROVE FusionTypes'
  OBVIOUS
<1>1. part' = part
  BY FusionPart
<1>2. CASE part # "fusion"
  BY <1>1, <1>2, FusionPart, FusionTypesStay DEF FusionTypes
<1>3. CASE part = "fusion"
  <2>1. ASSUME NEW o \in Operators, Dies(o), UNCHANGED fusionVars PROVE FusionTypes'
    <3>1. FusionTyped(Idle)
      BY DEF FusionTyped, Idle
    <3>2. QED
      BY <1>1, <1>3, <2>1, <3>1, FusionTold DEF Dies, Finish
  <2>2. ASSUME Tick \/ UNCHANGED sessionVars, UNCHANGED fusionVars PROVE FusionTypes'
    <3>1. job' = job
      BY <2>2 DEF Tick, sessionVars
    <3>2. QED
      BY <1>1, <1>3, <2>2, <3>1, FusionTypesStay DEF FusionTypes
  <2>3. QED
    BY <1>1, <1>3, <2>1, <2>2, FusionNextTypes, FusionPart
<1>4. QED
  BY <1>2, <1>3

THEOREM FusionTypesInductive == Spec => []FusionTypes
BY FusionTypesStart, FusionTypesKept, FusionInductive, PTL DEF Spec

-----------------------------------------------------------------------------
(* Types of what the social laboratory keeps.                              *)

SocialRow(table, row) ==
    /\ table = "sources" => row \in SocialSource
    /\ table = "posts" => row \in SocialPost
    /\ table = "rumors" => row \in RumorClaim
    /\ table = "narratives" => row \in Narrative
    /\ table = "edges" => row \in Propagation
    /\ table = "clusters" => row \in Cluster
    /\ table = "standings" => row \in Standing

SocialTyped(j) == j.pc = "social_insert" => SocialRow(j.table, j.row)

SocialTypes ==
    /\ part = "social" => \A o \in Operators : SocialTyped(job[o])
    /\ SocialTypeOK

LEMMA SocialTypesStay ==
    ASSUME SocialTypes, UNCHANGED socialVars
    PROVE  SocialTypeOK'
BY DEF SocialTypes, SocialTypeOK, socialVars

LEMMA SocialTold ==
    ASSUME SocialTypes, SocialInv, part = "social", part' = part, UNCHANGED socialVars,
           NEW o \in Operators, NEW j, SocialTyped(j), Begin(o, j) \/ Learn(o, j)
    PROVE  SocialTypes'
<1>1. job'[o] = j /\ \A q \in Operators : q # o => job'[q] = job[q]
  BY OneBegins, OneLearns DEF SocialInv
<1>2. \A q \in Operators : SocialTyped(job'[q])
  BY <1>1 DEF SocialTypes
<1>3. QED
  BY <1>2, SocialTypesStay DEF SocialTypes

LEMMA SocialAdds ==
    ASSUME SocialTypes, SocialInv, part = "social", part' = part, NEW o \in Operators, NEW table, NEW row,
           SocialRow(table, row), AddsSocial(o, table, row)
    PROVE  SocialTypes'
<1>1. PICK j : j = [pc |-> "social_insert", table |-> table, row |-> row]
  OBVIOUS
<1>2. SocialTyped(j)
  BY <1>1 DEF SocialTyped
<1>3. QED
  BY <1>1, <1>2, SocialTold DEF AddsSocial

LEMMA SocialNextTypes ==
    ASSUME SocialTypes, SocialInv, part = "social", part' = part, NEW o \in Operators, SocialNext(o)
    PROVE  SocialTypes'
<1>0. /\ SessionsOK /\ started \in Nat /\ now \in Time /\ now \in 0..now
      /\ Free(o) => started + 1 \in SocialId
      /\ \A p \in socialPosts : p.id \in SocialId
      /\ \A r \in rumorClaims : r.id \in SocialId
      /\ \A s \in socialSources : s.id \in SocialId
  <2>1. SessionsOK /\ started \in Nat /\ now \in Time /\ now \in 0..now
    BY SessionsAssumption DEF SocialInv, SessionsOK, Time
  <2>2. Free(o) => started + 1 \in SocialId
    BY <2>1, SessionsAssumption DEF Free, SocialId
  <2>3. QED
    BY <2>1, <2>2 DEF SocialTypes, SocialTypeOK, SocialPost, RumorClaim, SocialSource
<1>1. CASE Free(o) /\ AddSource(o)
  <2>1. PICK native, row :
            /\ native \in Natives
            /\ row = [id |-> started + 1, native |-> native] /\ AddsSocial(o, "sources", row)
    BY <1>1 DEF AddSource
  <2>2. row \in SocialSource
    BY <1>0, <1>1, <2>1 DEF SocialSource
  <2>3. SocialRow("sources", row)
    BY <2>2 DEF SocialRow
  <2>4. QED
    BY <2>1, <2>3, SocialAdds
<1>2. CASE Free(o) /\ AddPost(o)
  <2>1. PICK s, native, at, prior, row :
            /\ s \in socialSources /\ native \in NativePosts /\ at \in 0..now
            /\ prior \in {0} \cup {p.id : p \in socialPosts}
            /\ row = [id |-> started + 1, source |-> s.id, native |-> native, at |-> at, revises |-> prior]
            /\ AddsSocial(o, "posts", row)
    BY <1>2 DEF AddPost
  <2>2. prior \in {0} \cup SocialId /\ at \in Time
    BY <1>0, <2>1, NowPasses
  <2>3. row \in SocialPost
    BY <1>0, <1>2, <2>1, <2>2 DEF SocialPost
  <2>4. SocialRow("posts", row)
    BY <2>3 DEF SocialRow
  <2>5. QED
    BY <2>1, <2>4, SocialAdds
<1>3. CASE Free(o) /\ AddRumor(o)
  <2>1. PICK at, prior, version, row :
            /\ at \in 0..now /\ prior \in {0} \cup {r.id : r \in rumorClaims} /\ version \in SocialId
            /\ row = [id |-> started + 1, at |-> at, version |-> version, revises |-> prior]
            /\ AddsSocial(o, "rumors", row)
    BY <1>3 DEF AddRumor
  <2>2. prior \in {0} \cup SocialId /\ at \in Time
    BY <1>0, <2>1, NowPasses
  <2>3. row \in RumorClaim
    BY <1>0, <1>3, <2>1, <2>2 DEF RumorClaim
  <2>4. SocialRow("rumors", row)
    BY <2>3 DEF SocialRow
  <2>5. QED
    BY <2>1, <2>4, SocialAdds
<1>4. CASE AddNarrative(o)
  <2>1. PICK p, reviewed, at, row :
            /\ p \in socialPosts /\ reviewed \in BOOLEAN /\ at \in 0..now
            /\ row = [posts |-> {p.id}, at |-> at, reviewed |-> reviewed] /\ AddsSocial(o, "narratives", row)
    BY <1>4 DEF AddNarrative
  <2>2. row \in Narrative
    BY <1>0, <2>1, NowPasses DEF Narrative
  <2>3. SocialRow("narratives", row)
    BY <2>2 DEF SocialRow
  <2>4. QED
    BY <2>1, <2>3, SocialAdds
<1>5. CASE AddEdge(o)
  <2>1. PICK from, to, at, row :
            /\ from \in socialPosts /\ to \in socialPosts /\ at \in 0..now
            /\ row = [from |-> from.id, to |-> to.id, at |-> at] /\ AddsSocial(o, "edges", row)
    BY <1>5 DEF AddEdge
  <2>2. row \in Propagation
    BY <1>0, <2>1, NowPasses DEF Propagation
  <2>3. SocialRow("edges", row)
    BY <2>2 DEF SocialRow
  <2>4. QED
    BY <2>1, <2>3, SocialAdds
<1>6. CASE AddCluster(o)
  <2>1. PICK members, at, row :
            /\ members \in SUBSET {p.id : p \in socialPosts} /\ at \in 0..now
            /\ row = [posts |-> members, at |-> at] /\ AddsSocial(o, "clusters", row)
    BY <1>6 DEF AddCluster
  <2>2. members \in SUBSET SocialId
    BY <1>0, <2>1
  <2>3. row \in Cluster
    BY <1>0, <2>1, <2>2, NowPasses DEF Cluster
  <2>4. SocialRow("clusters", row)
    BY <2>3 DEF SocialRow
  <2>5. QED
    BY <2>1, <2>4, SocialAdds
<1>7. CASE AddStanding(o)
  <2>1. PICK s, upto, row :
            /\ s \in socialSources /\ upto \in 0..now
            /\ row = [source |-> s.id, upto |-> upto, at |-> now] /\ AddsSocial(o, "standings", row)
    BY <1>7 DEF AddStanding
  <2>2. row \in Standing
    BY <1>0, <2>1, NowPasses DEF Standing
  <2>3. SocialRow("standings", row)
    BY <2>2 DEF SocialRow
  <2>4. QED
    BY <2>1, <2>3, SocialAdds
<1>8. CASE CommitSocial(o)
  <2>1. PICK table, row : table = job[o].table /\ row = job[o].row /\ SocialRow(table, row)
    BY <1>8 DEF CommitSocial, At, SocialTypes, SocialTyped
  <2>2. /\ socialSources' = IF table = "sources" THEN socialSources \cup {row} ELSE socialSources
        /\ socialPosts' = IF table = "posts" THEN socialPosts \cup {row} ELSE socialPosts
        /\ rumorClaims' = IF table = "rumors" THEN rumorClaims \cup {row} ELSE rumorClaims
        /\ narratives' = IF table = "narratives" THEN narratives \cup {row} ELSE narratives
        /\ propagations' = IF table = "edges" THEN propagations \cup {row} ELSE propagations
        /\ clusters' = IF table = "clusters" THEN clusters \cup {row} ELSE clusters
        /\ standings' = IF table = "standings" THEN standings \cup {row} ELSE standings
        /\ Finish(o)
    BY <1>8, <2>1 DEF CommitSocial, Stores
  <2>3. SocialTypeOK'
    BY <2>1, <2>2 DEF SocialRow, SocialTypes, SocialTypeOK
  <2>4. job'[o] = Idle /\ \A q \in Operators : q # o => job'[q] = job[q]
    BY <1>0, <2>2, OneFinishes
  <2>5. \A q \in Operators : SocialTyped(job'[q])
    BY <2>4 DEF SocialTypes, SocialTyped, Idle
  <2>6. QED
    BY <2>3, <2>5 DEF SocialTypes
<1>9. CASE SocialRefused(o)
  <2>1. SocialTyped(Idle)
    BY DEF SocialTyped, Idle
  <2>2. QED
    BY <1>9, <2>1, SocialTold DEF SocialRefused, Finish
<1>10. QED
  BY <1>1, <1>2, <1>3, <1>4, <1>5, <1>6, <1>7, <1>8, <1>9 DEF SocialNext

LEMMA SocialTypesStart == Init => SocialTypes
<1> SUFFICES ASSUME Init PROVE SocialTypes
  OBVIOUS
<1>1. SocialInit
  BY DEF Init
<1>2. SocialTyped(Idle)
  BY DEF SocialTyped, Idle
<1>3. QED
  BY <1>1, <1>2, DeskStarts DEF SocialInit, SocialTypes, SocialTypeOK

LEMMA SocialTypesKept == SocialTypes /\ SocialInv /\ [Next]_vars => SocialTypes'
<1> SUFFICES ASSUME SocialTypes, SocialInv, [Next]_vars PROVE SocialTypes'
  OBVIOUS
<1>1. part' = part
  BY SocialPart
<1>2. CASE part # "social"
  BY <1>1, <1>2, SocialPart, SocialTypesStay DEF SocialTypes
<1>3. CASE part = "social"
  <2>1. ASSUME NEW o \in Operators, Dies(o), UNCHANGED socialVars PROVE SocialTypes'
    <3>1. SocialTyped(Idle)
      BY DEF SocialTyped, Idle
    <3>2. QED
      BY <1>1, <1>3, <2>1, <3>1, SocialTold DEF Dies, Finish
  <2>2. ASSUME Tick \/ UNCHANGED sessionVars, UNCHANGED socialVars PROVE SocialTypes'
    <3>1. job' = job
      BY <2>2 DEF Tick, sessionVars
    <3>2. QED
      BY <1>1, <1>3, <2>2, <3>1, SocialTypesStay DEF SocialTypes
  <2>3. QED
    BY <1>1, <1>3, <2>1, <2>2, SocialNextTypes, SocialPart
<1>4. QED
  BY <1>2, <1>3

THEOREM SocialTypesInductive == Spec => []SocialTypes
BY SocialTypesStart, SocialTypesKept, SocialInductive, PTL DEF Spec

-----------------------------------------------------------------------------
(* Types of what the geopolitical laboratory keeps.                        *)

GeoRow(table, row) ==
    /\ table = "candidates" => row \in EventCandidate
    /\ table = "reviews" => row \in Review
    /\ table = "events" => row \in GeoEvent
    /\ table = "paths" => row \in TransmissionPath
    /\ table = "responses" => row \in Response

GeoTyped(j) == j.pc = "geo_insert" => GeoRow(j.table, j.row)

GeoTypes ==
    /\ part = "geopolitical" => \A o \in Operators : GeoTyped(job[o])
    /\ GeopoliticalTypeOK

LEMMA GeoTypesStay ==
    ASSUME GeoTypes, UNCHANGED geopoliticalVars
    PROVE  GeopoliticalTypeOK'
BY DEF GeoTypes, GeopoliticalTypeOK, geopoliticalVars

LEMMA GeoTold ==
    ASSUME GeoTypes, GeoInv, part = "geopolitical", part' = part, UNCHANGED geopoliticalVars,
           NEW o \in Operators, NEW j, GeoTyped(j), Begin(o, j) \/ Learn(o, j)
    PROVE  GeoTypes'
<1>1. job'[o] = j /\ \A q \in Operators : q # o => job'[q] = job[q]
  BY OneBegins, OneLearns DEF GeoInv
<1>2. \A q \in Operators : GeoTyped(job'[q])
  BY <1>1 DEF GeoTypes
<1>3. QED
  BY <1>2, GeoTypesStay DEF GeoTypes

LEMMA GeoRowCalled ==
    ASSUME GeoTypes, GeoInv, part = "geopolitical", part' = part, NEW o \in Operators,
           NEW table, NEW row, GeoRow(table, row), AddsGeo(o, table, row)
    PROVE  GeoTypes'
<1>1. PICK j : j = [pc |-> "geo_insert", table |-> table, row |-> row]
  OBVIOUS
<1>2. GeoTyped(j)
  BY <1>1 DEF GeoTyped
<1>3. QED
  BY <1>1, <1>2, GeoTold DEF AddsGeo

\* A step of a report's reader: what it knows is no row.
LEMMA GeoReads ==
    ASSUME GeoTypes, GeoInv, part = "geopolitical", part' = part, UNCHANGED geopoliticalVars,
           NEW o \in Operators, NEW j, j.pc # "geo_insert", Begin(o, j) \/ Learn(o, j)
    PROVE  GeoTypes'
<1>1. GeoTyped(j)
  BY DEF GeoTyped
<1>2. QED
  BY <1>1, GeoTold

LEMMA GeoNextTypes ==
    ASSUME GeoTypes, GeoInv, part = "geopolitical", part' = part,
           NEW o \in Operators, GeopoliticalNext(o)
    PROVE  GeoTypes'
<1>0. /\ SessionsOK /\ started \in Nat /\ now \in Time
      /\ Free(o) => started + 1 \in GeoId
      /\ \A e \in geoEvents : e.id \in GeoId /\ e.at \in Time
  <2>1. SessionsOK /\ started \in Nat /\ now \in Time
    BY DEF GeoInv, SessionsOK
  <2>2. Free(o) => started + 1 \in GeoId
    BY <2>1, SessionsAssumption DEF Free, GeoId
  <2>3. QED
    BY <2>1, <2>2 DEF GeoTypes, GeopoliticalTypeOK, GeoEvent
<1>1. CASE ExtractCandidate(o)
  <2>1. PICK r, cutoff, row :
            /\ r \in Reports /\ cutoff \in 0..now
            /\ row = [report |-> r, at |-> cutoff] /\ AddsGeo(o, "candidates", row)
    BY <1>1 DEF ExtractCandidate
  <2>2. row \in EventCandidate
    BY <1>0, <2>1, NowPasses DEF EventCandidate
  <2>3. GeoRow("candidates", row)
    BY <2>2 DEF GeoRow
  <2>4. QED
    BY <2>1, <2>3, GeoRowCalled
<1>2. CASE ReviewCandidate(o)
  <2>1. PICK c, state, at, row :
            /\ c \in eventCandidates /\ state \in ReviewStates /\ at \in 0..now
            /\ row = [candidate |-> c, state |-> state, at |-> at] /\ AddsGeo(o, "reviews", row)
    BY <1>2 DEF ReviewCandidate
  <2>2. c \in EventCandidate
    BY <2>1 DEF GeoTypes, GeopoliticalTypeOK
  <2>3. row \in Review
    BY <1>0, <2>1, <2>2, NowPasses DEF Review
  <2>4. GeoRow("reviews", row)
    BY <2>3 DEF GeoRow
  <2>5. QED
    BY <2>1, <2>4, GeoRowCalled
<1>3. CASE Free(o) /\ AddEvent(o)
  <2>1. PICK type, cites, of, at, prior, version, row :
            /\ type \in EventTypes /\ cites \in SUBSET Reports
            /\ of \in {{}} \cup {{c} : c \in eventCandidates} /\ at \in 0..now
            /\ prior \in {0} \cup {e.id : e \in geoEvents} /\ version \in GeoId
            /\ row = [id |-> started + 1, type |-> type, reports |-> cites, of |-> of,
                      at |-> at, version |-> version, revises |-> prior]
            /\ AddsGeo(o, "events", row)
    BY <1>3 DEF AddEvent
  <2>2. of \in SUBSET EventCandidate
    BY <2>1 DEF GeoTypes, GeopoliticalTypeOK
  <2>3. prior \in {0} \cup GeoId /\ at \in Time
    BY <1>0, <2>1, NowPasses
  <2>4. row \in GeoEvent
    BY <1>0, <1>3, <2>1, <2>2, <2>3 DEF GeoEvent
  <2>5. GeoRow("events", row)
    BY <2>4 DEF GeoRow
  <2>6. QED
    BY <2>1, <2>5, GeoRowCalled
<1>4. CASE AddPath(o)
  <2>1. PICK e, at, until, row :
            /\ e \in geoEvents /\ at \in 0..now /\ until \in 1..MaxTime + 1
            /\ row = [event |-> e.id, at |-> at, until |-> until] /\ AddsGeo(o, "paths", row)
    BY <1>4 DEF AddPath
  <2>2. row \in TransmissionPath
    BY <1>0, <2>1, NowPasses DEF TransmissionPath
  <2>3. GeoRow("paths", row)
    BY <2>2 DEF GeoRow
  <2>4. QED
    BY <2>1, <2>3, GeoRowCalled
<1>5. CASE AddResponse(o)
  <2>1. PICK c, same, official, contradicts, at, row :
            /\ c \in eventCandidates /\ same \in BOOLEAN /\ official \in BOOLEAN
            /\ contradicts \in BOOLEAN /\ at \in 0..now
            /\ row = [candidate |-> c, at |-> at, kind |-> KindOf(same, official, contradicts)]
            /\ AddsGeo(o, "responses", row)
    BY <1>5 DEF AddResponse
  <2>2. KindOf(same, official, contradicts) \in Kinds
    BY DEF KindOf, Kinds
  <2>3. c \in EventCandidate
    BY <2>1 DEF GeoTypes, GeopoliticalTypeOK
  <2>4. row \in Response
    BY <1>0, <2>1, <2>2, <2>3, NowPasses DEF Response
  <2>5. GeoRow("responses", row)
    BY <2>4 DEF GeoRow
  <2>6. QED
    BY <2>1, <2>5, GeoRowCalled
<1>6. CASE BeginReport(o)
  <2>1. PICK cutoff, events : /\ Begin(o, [pc |-> "geo_paths", cutoff |-> cutoff, events |-> events])
                              /\ UNCHANGED geopoliticalVars
    BY <1>6 DEF BeginReport
  <2>2. QED
    BY <2>1, GeoReads
<1>7. CASE ReadPaths(o)
  BY <1>7, GeoReads DEF ReadPaths
<1>8. CASE ReadResponses(o)
  BY <1>8, GeoReads DEF ReadResponses
<1>9. CASE PrintReport(o)
  BY <1>9, GeoReads DEF PrintReport, Finish, Idle
<1>10. CASE CommitGeopolitical(o)
  <2>1. PICK table, row : table = job[o].table /\ row = job[o].row /\ GeoRow(table, row)
    BY <1>10 DEF CommitGeopolitical, At, GeoTypes, GeoTyped
  <2>2. /\ eventCandidates' = IF table = "candidates" THEN eventCandidates \cup {row} ELSE eventCandidates
        /\ reviews' = IF table = "reviews" THEN reviews \cup {row} ELSE reviews
        /\ geoEvents' = IF table = "events" THEN geoEvents \cup {row} ELSE geoEvents
        /\ paths' = IF table = "paths" THEN paths \cup {row} ELSE paths
        /\ responses' = IF table = "responses" THEN responses \cup {row} ELSE responses
        /\ reports' = reports
        /\ Finish(o)
    BY <1>10, <2>1 DEF CommitGeopolitical, Keeps
  <2>3. GeopoliticalTypeOK'
    BY <2>1, <2>2 DEF GeoRow, GeoTypes, GeopoliticalTypeOK
  <2>4. job'[o] = Idle /\ \A q \in Operators : q # o => job'[q] = job[q]
    BY <1>0, <2>2, OneFinishes
  <2>5. \A q \in Operators : GeoTyped(job'[q])
    BY <2>4 DEF GeoTypes, GeoTyped, Idle
  <2>6. QED
    BY <2>3, <2>5 DEF GeoTypes
<1>11. QED
  BY <1>1, <1>2, <1>3, <1>4, <1>5, <1>6, <1>7, <1>8, <1>9, <1>10 DEF GeopoliticalNext

LEMMA GeoTypesStart == Init => GeoTypes
<1> SUFFICES ASSUME Init PROVE GeoTypes
  OBVIOUS
<1>1. GeopoliticalInit
  BY DEF Init
<1>2. GeoTyped(Idle)
  BY DEF GeoTyped, Idle
<1>3. DOMAIN reports = {}
  BY <1>1 DEF GeopoliticalInit
<1>4. QED
  BY <1>1, <1>2, <1>3, DeskStarts DEF GeopoliticalInit, GeoTypes, GeopoliticalTypeOK

LEMMA GeoTypesKept == GeoTypes /\ GeoInv /\ [Next]_vars => GeoTypes'
<1> SUFFICES ASSUME GeoTypes, GeoInv, [Next]_vars PROVE GeoTypes'
  OBVIOUS
<1>1. part' = part
  BY GeoPart
<1>2. CASE part # "geopolitical"
  BY <1>1, <1>2, GeoPart, GeoTypesStay DEF GeoTypes
<1>3. CASE part = "geopolitical"
  <2>1. ASSUME NEW o \in Operators, Dies(o), UNCHANGED geopoliticalVars PROVE GeoTypes'
    BY <1>1, <1>3, <2>1, GeoReads DEF Dies, Finish, Idle
  <2>2. ASSUME Tick \/ UNCHANGED sessionVars, UNCHANGED geopoliticalVars PROVE GeoTypes'
    <3>1. job' = job
      BY <2>2 DEF Tick, sessionVars
    <3>2. QED
      BY <1>1, <1>3, <2>2, <3>1, GeoTypesStay DEF GeoTypes
  <2>3. ASSUME ReportArrives, UNCHANGED sessionVars PROVE GeoTypes'
    <3>1. PICK r \in Reports \ DOMAIN reports :
              reports' = [q \in DOMAIN reports \cup {r} |-> IF q = r THEN now ELSE reports[q]]
      BY <2>3 DEF ReportArrives
    <3>2. now \in Time
      BY <1>3 DEF GeoInv, SessionsOK
    <3>3. DOMAIN reports' \subseteq Reports /\ \A q \in DOMAIN reports' : reports'[q] \in Time
      BY <3>1, <3>2 DEF GeoTypes, GeopoliticalTypeOK
    <3>4. GeopoliticalTypeOK'
      BY <2>3, <3>3 DEF ReportArrives, GeoTypes, GeopoliticalTypeOK
    <3>5. job' = job
      BY <2>3 DEF sessionVars
    <3>6. QED
      BY <1>1, <1>3, <3>4, <3>5 DEF GeoTypes
  <2>4. QED
    BY <1>1, <1>3, <2>1, <2>2, <2>3, GeoNextTypes, GeoPart
<1>4. QED
  BY <1>2, <1>3

THEOREM GeoTypesInductive == Spec => []GeoTypes
BY GeoTypesStart, GeoTypesKept, GeopoliticalInductive, PTL DEF Spec

-----------------------------------------------------------------------------
(* Types of what the government laboratory keeps.  A sequence number is a  *)
(* count of transitions, each of which took a command of its own: so the   *)
(* transitions and those about to be appended are no more than the         *)
(* commands started, and a version is no more than the id it came with.    *)

Numbers(a) == a.version <= a.id /\ a.id <= started

PolicyTyped(j) ==
    /\ j.pc = "policy_action" =>
          j.row \in GovernmentAction /\ Numbers(j.row) /\ j.first \in StatusTransition
    /\ j.pc = "policy_transition" => j.row \in StatusTransition
    /\ j.pc = "policy_extract" => j.rows \subseteq DOMAIN notices

\* The processes that have a transition still to commit.
Appends(j) == j.pc \in {"policy_action", "policy_transition"}
Appending == {o \in Operators : Appends(job[o])}

PolicyCounts ==
    /\ started \in Nat
    /\ IsFiniteSet(Appending) /\ IsFiniteSet(transitions)
    /\ Cardinality(transitions) + Cardinality(Appending) <= started
    /\ \A a \in actions : Numbers(a)

PolicyTypes ==
    /\ part = "government" => PolicyCounts /\ \A o \in Operators : PolicyTyped(job[o])
    /\ GovernmentTypeOK

LEMMA PolicyTypesStay ==
    ASSUME PolicyTypes, UNCHANGED governmentVars
    PROVE  GovernmentTypeOK'
BY DEF PolicyTypes, GovernmentTypeOK, governmentVars

LEMMA PolicyTypedStays ==
    ASSUME started \in Nat, started' \in Nat, started <= started', DOMAIN notices \subseteq DOMAIN notices',
           NEW j, PolicyTyped(j)
    PROVE  PolicyTyped(j)'
<1>1. PICK row : row = j.row
  OBVIOUS
<1>2. CASE j.pc = "policy_action"
  <2>1. row \in GovernmentAction /\ Numbers(row) /\ j.first \in StatusTransition
    BY <1>1, <1>2 DEF PolicyTyped
  <2>2. row.id \in Int /\ row.version \in Int
    BY <2>1, SessionsAssumption DEF GovernmentAction, ActionId
  <2>3. Numbers(row)'
    BY <2>1, <2>2 DEF Numbers
  <2>4. QED
    BY <1>1, <1>2, <2>1, <2>3 DEF PolicyTyped
<1>3. CASE j.pc # "policy_action"
  BY <1>3 DEF PolicyTyped
<1>4. QED
  BY <1>2, <1>3

LEMMA ActionsNumbered ==
    ASSUME PolicyTypes, part = "government", started' \in Nat, started <= started'
    PROVE  \A a \in actions : Numbers(a)'
<1> TAKE a \in actions
<1>1. a \in GovernmentAction /\ Numbers(a)
  BY DEF PolicyTypes, PolicyCounts, GovernmentTypeOK
<1>2. a.id \in Int /\ a.version \in Int /\ started \in Nat
  BY <1>1, SessionsAssumption DEF GovernmentAction, ActionId, PolicyTypes, PolicyCounts
<1>3. QED
  BY <1>1, <1>2 DEF Numbers

LEMMA PolicyBegins ==
    ASSUME PolicyTypes, GovernmentInv, part = "government", part' = part, UNCHANGED governmentVars,
           NEW o \in Operators, NEW j, PolicyTyped(j)', Begin(o, j)
    PROVE  PolicyTypes'
<1>1. /\ job'[o] = j /\ \A q \in Operators : q # o => job'[q] = job[q]
      /\ started' = started + 1
  BY OneBegins DEF GovernmentInv
<1>2. started \in Nat /\ started' \in Nat /\ started <= started'
  BY <1>1 DEF PolicyTypes, PolicyCounts
<1>3. \A q \in Operators : PolicyTyped(job[q])'
  <2> TAKE q \in Operators
  <2>1. CASE q = o
    BY <1>1, <2>1
  <2>2. CASE q # o
    <3>1. PICK k : k = job[q]
      OBVIOUS
    <3>2. PolicyTyped(k)
      BY <3>1 DEF PolicyTypes
    <3>3. DOMAIN notices \subseteq DOMAIN notices'
      BY DEF governmentVars
    <3>4. PolicyTyped(k)'
      BY <1>2, <3>2, <3>3, PolicyTypedStays
    <3>5. QED
      BY <1>1, <2>2, <3>1, <3>4
  <2>3. QED
    BY <2>1, <2>2
<1>4. PolicyCounts'
  <2>1. Appending' \subseteq Appending \cup {o}
    BY <1>1 DEF Appending
  <2>2. /\ IsFiniteSet(Appending \cup {o}) /\ Cardinality(Appending \cup {o}) <= Cardinality(Appending) + 1
        /\ Cardinality(Appending) \in Nat /\ Cardinality(transitions) \in Nat
    <3>1. IsFiniteSet(Appending) /\ IsFiniteSet(transitions)
      BY DEF PolicyTypes, PolicyCounts
    <3>2. Cardinality(Appending) \in Nat /\ Cardinality(transitions) \in Nat
      BY <3>1, FS_CardinalityType
    <3>3. /\ IsFiniteSet(Appending \cup {o})
          /\ Cardinality(Appending \cup {o}) = IF o \in Appending THEN Cardinality(Appending)
                                               ELSE Cardinality(Appending) + 1
      BY <3>1, FS_AddElement
    <3>4. QED
      BY <3>2, <3>3
  <2>3. IsFiniteSet(Appending') /\ Cardinality(Appending') <= Cardinality(Appending \cup {o})
    BY <2>1, <2>2, FS_Subset
  <2>4. Cardinality(Appending') \in Nat /\ Cardinality(Appending \cup {o}) \in Nat
    BY <2>2, <2>3, FS_CardinalityType
  <2>5. transitions' = transitions /\ actions' = actions
    BY DEF governmentVars
  <2>6. Cardinality(transitions) + Cardinality(Appending) <= started
    BY DEF PolicyTypes, PolicyCounts
  <2>7. Cardinality(transitions') + Cardinality(Appending') <= started'
    BY <1>1, <1>2, <2>2, <2>3, <2>4, <2>5, <2>6
  <2>8. IsFiniteSet(transitions')
    BY <2>5 DEF PolicyTypes, PolicyCounts
  <2>9. \A a \in actions' : Numbers(a)'
    BY <1>2, <2>5, ActionsNumbered
  <2>10. QED
    BY <1>2, <2>3, <2>7, <2>8, <2>9 DEF PolicyCounts
<1>5. QED
  BY <1>3, <1>4, PolicyTypesStay DEF PolicyTypes

\* What a process that is done has appended is no more than what it was about to.
LEMMA PolicyEnds ==
    ASSUME PolicyTypes, GovernmentInv, part = "government", part' = part, NEW o \in Operators, Finish(o),
           GovernmentTypeOK', notices' = notices, \A a \in actions' : Numbers(a),
           transitions' = transitions \/ (Appends(job[o]) /\ \E t : transitions' = transitions \cup {t})
    PROVE  PolicyTypes'
<1>1. /\ job'[o] = Idle /\ \A q \in Operators : q # o => job'[q] = job[q]
      /\ started' = started /\ started \in Nat
  BY OneFinishes DEF GovernmentInv, PolicyTypes, PolicyCounts
<1>2. \A q \in Operators : PolicyTyped(job[q])'
  <2> TAKE q \in Operators
  <2>1. CASE q = o
    BY <1>1, <2>1 DEF PolicyTyped, Idle
  <2>2. CASE q # o
    <3>1. PICK k : k = job[q]
      OBVIOUS
    <3>2. PolicyTyped(k)
      BY <3>1 DEF PolicyTypes
    <3>3. started' \in Nat /\ started <= started' /\ DOMAIN notices \subseteq DOMAIN notices'
      BY <1>1
    <3>4. PolicyTyped(k)'
      BY <1>1, <3>2, <3>3, PolicyTypedStays
    <3>5. QED
      BY <1>1, <2>2, <3>1, <3>4
  <2>3. QED
    BY <2>1, <2>2
<1>3. Appending' = Appending \ {o}
  BY <1>1 DEF Appending, Appends, Idle
<1>4. /\ IsFiniteSet(Appending') /\ Cardinality(Appending) \in Nat /\ Cardinality(transitions) \in Nat
      /\ Cardinality(Appending') = IF o \in Appending THEN Cardinality(Appending) - 1 ELSE Cardinality(Appending)
      /\ Cardinality(transitions) + Cardinality(Appending) <= started
      /\ IsFiniteSet(transitions)
  BY <1>3, FS_RemoveElement, FS_CardinalityType DEF PolicyTypes, PolicyCounts
<1>5. IsFiniteSet(transitions') /\ Cardinality(transitions') + Cardinality(Appending') <= started'
  <2>1. CASE transitions' = transitions
    BY <1>1, <1>4, <2>1
  <2>2. CASE Appends(job[o]) /\ \E t : transitions' = transitions \cup {t}
    <3>1. o \in Appending
      BY <2>2 DEF Appending
    <3>2. PICK t : transitions' = transitions \cup {t}
      BY <2>2
    <3>3. /\ IsFiniteSet(transitions \cup {t})
          /\ Cardinality(transitions \cup {t}) <= Cardinality(transitions) + 1
          /\ Cardinality(transitions \cup {t}) \in Nat
      <4>1. /\ IsFiniteSet(transitions \cup {t})
            /\ Cardinality(transitions \cup {t}) = IF t \in transitions THEN Cardinality(transitions)
                                                   ELSE Cardinality(transitions) + 1
        BY <1>4, FS_AddElement
      <4>2. QED
        BY <1>4, <4>1
    <3>4. QED
      BY <1>1, <1>4, <3>1, <3>2, <3>3
  <2>3. QED
    BY <2>1, <2>2
<1>6. \A a \in actions' : Numbers(a)'
  BY <1>1 DEF Numbers
<1>7. QED
  BY <1>1, <1>2, <1>4, <1>5, <1>6 DEF PolicyTypes, PolicyCounts

LEMMA StatusesFollow ==
    /\ "none" \in DOMAIN Follow /\ ActionStatus \subseteq DOMAIN Follow
    /\ \A s \in DOMAIN Follow : Follow[s] \subseteq ActionStatus
BY DEF Follow, ActionStatus

\* The transition that a caller is about to append.
LEMMA TransitionTyped ==
    ASSUME PolicyTypes, part = "government", SessionsOK,
           NEW action \in ActionId, NEW from \in DOMAIN Follow, NEW to \in ActionStatus,
           NEW at \in Time, NEW notice \in Notices
    PROVE  TransitionRow(action, from, to, at, notice) \in StatusTransition
<1>1. PICK of : of = {t \in transitions : t.action = action}
  OBVIOUS
<1>2. of \subseteq transitions
  BY <1>1
<1>3. /\ Cardinality(of) <= Cardinality(transitions) /\ Cardinality(of) \in Nat
      /\ Cardinality(transitions) \in Nat /\ Cardinality(Appending) \in Nat
      /\ Cardinality(transitions) + Cardinality(Appending) <= started
      /\ started \in Nat /\ started <= MaxCommands
  BY <1>2, FS_Subset, FS_CardinalityType DEF PolicyTypes, PolicyCounts, SessionsOK
<1>4. Cardinality(of) \in 0..MaxCommands
  BY <1>3, SessionsAssumption
<1>5. QED
  BY <1>1, <1>4 DEF TransitionRow, StatusTransition

LEMMA AddActionTyped ==
    ASSUME PolicyTypes, GovernmentInv, part = "government", part' = part, NEW o \in Operators, AddAction(o),
           Free(o)
    PROVE  PolicyTypes'
<1>0. SessionsOK /\ started \in Nat /\ started + 1 \in ActionId
  BY SessionsAssumption DEF GovernmentInv, PolicyTypes, PolicyCounts, Free, ActionId
<1>1. PICK status, notice, at, prior, id, version, row, first, j :
          /\ status \in Follow["none"] /\ notice \in Notices /\ at \in 0..now
          /\ prior \in {0} \cup {a.id : a \in actions}
          /\ id = started + 1
          /\ version = IF prior = 0 THEN 1 ELSE (CHOOSE a \in actions : a.id = prior).version + 1
          /\ row = [id |-> id, status |-> status, at |-> at, notice |-> notice,
                    version |-> version, supersedes |-> prior]
          /\ first = TransitionRow(id, "none", status, at, notice)
          /\ j = [pc |-> "policy_action", row |-> row, first |-> first]
          /\ Begin(o, j)
  BY DEF AddAction
<1>2. at \in Time /\ status \in ActionStatus /\ id \in ActionId
  BY <1>0, <1>1, NowPasses, StatusesFollow
<1>3. \A a \in actions : a.id \in ActionId /\ a.version \in ActionId /\ a.version <= a.id /\ a.id <= started
  BY DEF PolicyTypes, PolicyCounts, Numbers, GovernmentTypeOK, GovernmentAction
<1>4. prior \in {0} \cup ActionId
  BY <1>1, <1>3
<1>5. version \in ActionId /\ version <= id
  <2>1. CASE prior = 0
    BY <1>0, <1>1, <2>1, SessionsAssumption DEF ActionId
  <2>2. CASE prior # 0
    <3>1. PICK b \in actions : b = CHOOSE a \in actions : a.id = prior
      BY <1>1, <2>2
    <3>2. version = b.version + 1
      BY <1>1, <2>2, <3>1
    <3>3. QED
      BY <1>0, <1>1, <1>3, <3>1, <3>2, SessionsAssumption DEF ActionId
  <2>3. QED
    BY <2>1, <2>2
<1>6. row \in GovernmentAction /\ row.id = started + 1 /\ row.version <= row.id
  BY <1>1, <1>2, <1>4, <1>5 DEF GovernmentAction
<1>7. first \in StatusTransition
  BY <1>0, <1>1, <1>2, StatusesFollow, TransitionTyped
<1>8. started' = started + 1
  BY <1>0, <1>1, OneBegins
<1>9. Numbers(row)'
  BY <1>0, <1>6, <1>8 DEF Numbers
<1>10. PolicyTyped(j)'
  BY <1>1, <1>6, <1>7, <1>9 DEF PolicyTyped
<1>11. QED
  BY <1>1, <1>10, PolicyBegins DEF AddAction

LEMMA AddTransitionTyped ==
    ASSUME PolicyTypes, GovernmentInv, part = "government", part' = part, NEW o \in Operators, AddTransition(o)
    PROVE  PolicyTypes'
<1>0. SessionsOK
  BY DEF GovernmentInv
<1>1. PICK a, notice, at, from, to, row, j :
          /\ a \in actions /\ notice \in Notices /\ at \in 0..now
          /\ from \in CurrentStatus(a.id, at) /\ to \in Follow[from]
          /\ row = TransitionRow(a.id, from, to, at, notice)
          /\ j = [pc |-> "policy_transition", row |-> row]
          /\ Begin(o, j)
  BY DEF AddTransition
<1>2. \A t \in transitions : t.to \in ActionStatus
  BY DEF PolicyTypes, GovernmentTypeOK, StatusTransition
<1>3. from = "none" \/ \E t \in transitions : t.to = from
  BY <1>1 DEF CurrentStatus, LatestOf
<1>4. from \in DOMAIN Follow /\ to \in ActionStatus
  BY <1>1, <1>2, <1>3, StatusesFollow
<1>5. a.id \in ActionId /\ at \in Time
  BY <1>0, <1>1, NowPasses DEF PolicyTypes, GovernmentTypeOK, GovernmentAction
<1>6. row \in StatusTransition
  BY <1>0, <1>1, <1>4, <1>5, TransitionTyped
<1>7. PolicyTyped(j)'
  BY <1>1, <1>6 DEF PolicyTyped
<1>8. QED
  BY <1>1, <1>7, PolicyBegins DEF AddTransition

LEMMA PolicyNextTypes ==
    ASSUME PolicyTypes, GovernmentInv, part = "government", part' = part,
           NEW o \in Operators, GovernmentNext(o)
    PROVE  PolicyTypes'
<1>0. PolicyTyped(job[o]) /\ GovernmentTypeOK /\ \A a \in actions : Numbers(a)
  BY DEF PolicyTypes, PolicyCounts
<1>1. CASE ExtractPending(o)
  <2>1. PICK j : /\ j = [pc |-> "policy_extract", rows |-> DOMAIN notices \ policies]
                 /\ Begin(o, j) /\ UNCHANGED governmentVars
    BY <1>1 DEF ExtractPending
  <2>2. DOMAIN notices' = DOMAIN notices
    BY <2>1 DEF governmentVars
  <2>3. PolicyTyped(j)'
    BY <2>1, <2>2 DEF PolicyTyped
  <2>4. QED
    BY <2>1, <2>3, PolicyBegins
<1>2. CASE CommitAction(o)
  <2>1. job[o].row \in GovernmentAction /\ Numbers(job[o].row) /\ job[o].first \in StatusTransition
    BY <1>0, <1>2 DEF CommitAction, At, PolicyTyped
  <2>2. GovernmentTypeOK' /\ \A a \in actions' : Numbers(a)
    BY <1>0, <1>2, <2>1 DEF CommitAction, GovernmentTypeOK
  <2>3. Appends(job[o])
    BY <1>2 DEF CommitAction, At, Appends
  <2>4. Finish(o) /\ notices' = notices /\ \E t : transitions' = transitions \cup {t}
    BY <1>2 DEF CommitAction
  <2>5. QED
    BY <2>2, <2>3, <2>4, PolicyEnds
<1>3. CASE CommitTransition(o)
  <2>1. job[o].row \in StatusTransition
    BY <1>0, <1>3 DEF CommitTransition, At, PolicyTyped
  <2>2. GovernmentTypeOK' /\ \A a \in actions' : Numbers(a)
    BY <1>0, <1>3, <2>1 DEF CommitTransition, GovernmentTypeOK
  <2>3. Appends(job[o])
    BY <1>3 DEF CommitTransition, At, Appends
  <2>4. Finish(o) /\ notices' = notices /\ \E t : transitions' = transitions \cup {t}
    BY <1>3 DEF CommitTransition
  <2>5. QED
    BY <2>2, <2>3, <2>4, PolicyEnds
<1>4. CASE CommitPending(o)
  <2>1. job[o].rows \subseteq DOMAIN notices
    BY <1>0, <1>4 DEF CommitPending, At, PolicyTyped
  <2>2. GovernmentTypeOK' /\ \A a \in actions' : Numbers(a)
    BY <1>0, <1>4, <2>1 DEF CommitPending, GovernmentTypeOK
  <2>3. Finish(o) /\ notices' = notices /\ transitions' = transitions
    BY <1>4 DEF CommitPending
  <2>4. QED
    BY <2>2, <2>3, PolicyEnds
<1>5. QED
  BY <1>1, <1>2, <1>3, <1>4, AddActionTyped, AddTransitionTyped DEF GovernmentNext

LEMMA PolicyTypesStart == Init => PolicyTypes
<1> SUFFICES ASSUME Init PROVE PolicyTypes
  OBVIOUS
<1>1. GovernmentInit /\ started = MaxCommands - CommandsOf[part] /\ part \in Parts
  BY DEF Init, SessionsInit
<1>2. started \in Nat
  BY <1>1, DeskAssumption, SessionsAssumption
<1>3. Appending = {}
  BY DeskStarts DEF Appending, Appends, Idle
<1>4. /\ IsFiniteSet(Appending) /\ IsFiniteSet(transitions)
      /\ Cardinality(transitions) + Cardinality(Appending) <= started
  BY <1>1, <1>2, <1>3, FS_EmptySet DEF GovernmentInit
<1>5. \A o \in Operators : PolicyTyped(job[o])
  <2>1. PolicyTyped(Idle)
    BY DEF PolicyTyped, Idle
  <2>2. QED
    BY <2>1, DeskStarts
<1>6. DOMAIN notices = {}
  BY <1>1 DEF GovernmentInit
<1>7. QED
  BY <1>1, <1>2, <1>4, <1>5, <1>6 DEF GovernmentInit, PolicyTypes, PolicyCounts, GovernmentTypeOK

LEMMA PolicyTypesKept == PolicyTypes /\ GovernmentInv /\ [Next]_vars => PolicyTypes'
<1> SUFFICES ASSUME PolicyTypes, GovernmentInv, [Next]_vars PROVE PolicyTypes'
  OBVIOUS
<1>1. part' = part
  BY GovernmentPart
<1>2. CASE part # "government"
  BY <1>1, <1>2, GovernmentPart, PolicyTypesStay DEF PolicyTypes
<1>3. CASE part = "government"
  <2>1. ASSUME NEW o \in Operators, Dies(o), UNCHANGED governmentVars PROVE PolicyTypes'
    <3>1. Finish(o) /\ GovernmentTypeOK' /\ notices' = notices /\ transitions' = transitions /\ actions' = actions
      BY <2>1, PolicyTypesStay DEF Dies, governmentVars
    <3>2. \A a \in actions' : Numbers(a)
      BY <1>3, <3>1 DEF PolicyTypes, PolicyCounts
    <3>3. QED
      BY <1>1, <1>3, <3>1, <3>2, PolicyEnds
  <2>2. ASSUME UNCHANGED <<started, job, actions, transitions>>, GovernmentTypeOK',
               DOMAIN notices \subseteq DOMAIN notices'
        PROVE  PolicyTypes'
    <3>1. \A q \in Operators : PolicyTyped(job[q])'
      BY <1>3, <2>2 DEF PolicyTypes, PolicyTyped, Numbers
    <3>2. PolicyCounts'
      BY <1>3, <2>2 DEF PolicyTypes, PolicyCounts, Appending, Numbers
    <3>3. QED
      BY <2>2, <3>1, <3>2 DEF PolicyTypes
  <2>3. ASSUME Tick \/ UNCHANGED sessionVars, UNCHANGED governmentVars PROVE PolicyTypes'
    BY <2>2, <2>3, PolicyTypesStay DEF Tick, sessionVars, governmentVars
  <2>4. ASSUME NoticeArrives, UNCHANGED sessionVars PROVE PolicyTypes'
    <3>1. PICK n \in Notices \ DOMAIN notices :
              notices' = [m \in DOMAIN notices \cup {n} |-> IF m = n THEN now ELSE notices[m]]
      BY <2>4 DEF NoticeArrives
    <3>2. now \in Time
      BY <1>3 DEF GovernmentInv, SessionsOK
    <3>3. /\ DOMAIN notices' \subseteq Notices /\ \A m \in DOMAIN notices' : notices'[m] \in Time
          /\ DOMAIN notices \subseteq DOMAIN notices'
      BY <3>1, <3>2 DEF PolicyTypes, GovernmentTypeOK
    <3>4. GovernmentTypeOK'
      BY <2>4, <3>3 DEF NoticeArrives, PolicyTypes, GovernmentTypeOK
    <3>5. QED
      BY <2>2, <2>4, <3>3, <3>4 DEF NoticeArrives, sessionVars
  <2>5. QED
    BY <1>1, <1>3, <2>1, <2>3, <2>4, PolicyNextTypes, GovernmentPart
<1>4. QED
  BY <1>2, <1>3

THEOREM PolicyTypesInductive == Spec => []PolicyTypes
BY PolicyTypesStart, PolicyTypesKept, GovernmentInductive, PTL DEF Spec

-----------------------------------------------------------------------------
(* All the tables of the desk.                                             *)

\* Whatever the parts do, every table holds rows of its type: every reference names a
\* number that a row may have, every instant is one that the clock reads, and the
\* sequence of a transition and the version of an action stay within the commands
\* that were started (the tables of storage/models.py that the desk writes).
THEOREM EvidenceTypes == Spec => []TypeOK
<1>1. FusionTypes /\ GeoTypes /\ SocialTypes /\ PolicyTypes =>
          FusionTypeOK /\ GeopoliticalTypeOK /\ SocialTypeOK /\ GovernmentTypeOK
  BY DEF FusionTypes, GeoTypes, SocialTypes, PolicyTypes
<1>2. /\ TelegramTypeOK /\ ArchiveTypeOK /\ NewsTypeOK /\ GraphTypeOK
      /\ FusionTypeOK /\ GeopoliticalTypeOK /\ SocialTypeOK /\ GovernmentTypeOK
      => TypeOK
  BY DEF TypeOK
<1>3. QED
  BY <1>1, <1>2, TelegramTypes, ArchiveTypes, NewsTypes, GraphTypes, FusionTypesInductive,
     GeoTypesInductive, SocialTypesInductive, PolicyTypesInductive, PTL

=============================================================================
